-------------------------------- MODULE Accounts --------------------------------
(***************************************************************************)
(* Accounts and sessions of the C drive: registration, login, tokens, and  *)
(* the reconnection of a client that the server's timeout wheel has closed *)
(* (the cases up to OPERATE_Q of src/src/main.c, the table User of         *)
(* src/src/sql.c, main, ssend and token_ident of src/client).              *)
(*                                                                         *)
(* As in the code, LOGIN_* is the registration of an account and           *)
(* REGISTER_* a login.  A ciphertext is a password with its salt.  A user  *)
(* has one directory besides the root; a code is <<>> for the root and     *)
(* <<n>> for the directory of user n.                                      *)
(***************************************************************************)
EXTENDS Integers, Sequences, FiniteSets

CONSTANTS
  Terminal,      \* clients
  User,          \* names of accounts
  Password,      \* passwords users type
  Salt,          \* results of get_salt
  Conn,          \* 1..n: bound on connections at a time
  None,          \* no user, no terminal
  MaxDialogues,  \* bound on registrations and logins
  MaxCommands,   \* bound on commands
  MaxTimeouts,   \* bound on connections the wheel closes
  Timely         \* TRUE: nobody types, no thread opens a descriptor and the
                 \* wheel does not come round between two steps of a program
                 \* that waits for nothing but the other's next step

ASSUME AccountsAssumption ==
  /\ Conn \subseteq Nat \ {0} /\ IsFiniteSet(Conn)
  /\ None \notin User \cup Terminal
  /\ MaxDialogues \in Nat /\ MaxCommands \in Nat /\ MaxTimeouts \in Nat
  /\ Timely \in BOOLEAN

VARIABLES
  accounts,  \* the table User
  alive,     \* the server has not crashed
  conn,      \* the connections, with what the server knows in client[]
  at,        \* per terminal: "menu", "dialogue", "session" or "dead"
  login_msg, \* per terminal
  buf,       \* per terminal, the last password or line typed
  cFd,       \* per terminal, its connection, or 0 for a number not in use
  shown,     \* per terminal, the directory in the prompt
  pending,   \* per terminal: the transfer thread has been asked to begin
  now,       \* seconds, as far as tokens tell them apart
  told,      \* accounts said to be registered
  dialogues, commands, timeouts

clientVars == <<at, login_msg, buf, cFd, shown, pending>>
bounds == <<dialogues, commands, timeouts>>
vars == <<accounts, alive, conn, clientVars, now, told, bounds>>

Root == <<>>
NoToken == <<>>
NoAccount == [salt |-> None]
Line == <<"line">>
Registered == {n \in User : accounts[n] # NoAccount}

(* crypt                                                                   *)
Crypt(password, salt) == <<password, salt>>
(* atoi, of a code or of a ciphertext                                      *)
Atoi(passward) == IF Len(passward) = 2 THEN Root ELSE passward

NoConn == [owner |-> None, transfer |-> FALSE, up |-> <<>>, down |-> <<>>,
           peer |-> "closed", server |-> "closed",
           state |-> 0, name |-> None, code |-> Root]

(* The table outlives the programs: there may be accounts at the start.    *)
Init ==
  /\ accounts \in [User -> {NoAccount} \cup
       [salt : Salt, ciphertext : Password \X Salt, token : {NoToken}]]
  /\ \A n \in Registered : accounts[n].ciphertext[2] = accounts[n].salt
  /\ alive = TRUE /\ conn = [k \in Conn |-> NoConn]
  /\ at = [t \in Terminal |-> "menu"]
  /\ login_msg = [t \in Terminal |-> [name |-> None, passward |-> Root,
                                      token |-> NoToken]]
  /\ buf = [t \in Terminal |-> Line] /\ cFd = [t \in Terminal |-> 0]
  /\ shown = [t \in Terminal |-> Root]
  /\ pending = [t \in Terminal |-> FALSE]
  /\ now = 0 /\ told = {} /\ dialogues = 0 /\ commands = 0 /\ timeouts = 0

-----------------------------------------------------------------------------
(* Connections *)

Message(ctl_code, content) == [ctl_code |-> ctl_code, buf |-> content]

Free == {k \in Conn : conn[k] = NoConn}
Least(S) == CHOOSE k \in S : \A j \in S : k <= j

(* connect, with its accept, and the first messages.                       *)
Connection(t, transfer, messages) ==
  [NoConn EXCEPT !.owner = t, !.transfer = transfer, !.up = messages,
                 !.peer = "open", !.server = "open", !.state = 1]

(* The client closes; the server still reads what was sent.                *)
Closed(c) == IF c.server # "open" THEN NoConn
             ELSE [c EXCEPT !.peer = "closed", !.down = <<>>]

(* A send to a connection the server has closed is lost.                   *)
Sent(c, m) == IF c.server = "open" THEN [c EXCEPT !.up = Append(@, m)] ELSE c

-----------------------------------------------------------------------------
(* The server: one request *)

Request(k, ctl_code) ==
  /\ alive /\ conn[k].server = "open" /\ conn[k].up # <<>>
  /\ Head(conn[k].up).ctl_code = ctl_code
  /\ UNCHANGED <<clientVars, now, told, bounds>>

(* The entry of client[] as the request leaves it, and the replies.        *)
Answer(k, entry, replies) ==
  conn' = [conn EXCEPT ![k] =
    [entry EXCEPT !.up = Tail(@),
                  !.down = IF entry.peer = "open" THEN @ \o replies ELSE @]]

Content(k) == Head(conn[k].up).buf
Unproved(k, n) == [conn[k] EXCEPT !.state = 1, !.name = n]

LoginPre(k) ==
  /\ Request(k, "LOGIN_PRE")
  /\ LET n == Content(k)
     IN IF n \in Registered
        THEN Answer(k, Unproved(k, n), <<Message("LOGIN_NO", None)>>)
        ELSE \E salt \in Salt :
               Answer(k, Unproved(k, n), <<Message("LOGIN_POK", salt)>>)
  /\ UNCHANGED <<accounts, alive>>

(* Mutation: an account of that name is replaced. *)
AddUser_Replaces(m) ==
  accounts' = [accounts EXCEPT ![m.name] =
    [salt |-> m.token, ciphertext |-> m.passward, token |-> NoToken]]

(* add_user: the insertion fails when the name is there (PRIMARY KEY).     *)
AddUser(m) ==
  accounts' = IF m.name \in Registered THEN accounts
              ELSE [accounts EXCEPT ![m.name] =
                [salt |-> m.token, ciphertext |-> m.passward,
                 token |-> NoToken]]

LoginQ(k) ==
  /\ Request(k, "LOGIN_Q")
  /\ AddUser(Content(k))
  /\ Answer(k, conn[k], <<>>)
  /\ UNCHANGED alive

RegisterPre(k) ==
  /\ Request(k, "REGISTER_PRE")
  /\ LET n == Content(k)
     IN Answer(k, Unproved(k, n),
               IF n \in Registered
               THEN <<Message("REGISTER_POK", accounts[n].salt)>>
               ELSE <<Message("REGISTER_NO", None)>>)
  /\ UNCHANGED <<accounts, alive>>

(* math_user, for a password that is right: the token is stored.           *)
MathUser(m) == accounts' = [accounts EXCEPT ![m.name].token = m.token]

Matches(m) == m.name \in Registered
              /\ accounts[m.name].ciphertext = m.passward

RegisterQ(k) ==
  /\ Request(k, "REGISTER_Q")
  /\ LET m == Content(k)
     IN IF Matches(m)
        THEN /\ MathUser(m)
             /\ Answer(k, [conn[k] EXCEPT !.state = 2, !.name = m.name],
                       <<Message("REGISTER_OK", None)>>)
        ELSE /\ UNCHANGED accounts
             /\ Answer(k, conn[k], <<Message("REGISTER_NO", None)>>)
  /\ UNCHANGED alive

(* Mutation: the code of the client is not taken over. *)
TokenEntry_NoCode(k, m) == [conn[k] EXCEPT !.name = m.name]

TokenEntry(k, m) ==
  [conn[k] EXCEPT !.name = m.name, !.code = Atoi(m.passward)]

(* math_token reads the first character of a token that may be NULL.  An   *)
(* accepted token has no answer.                                           *)
TokenPlese(k) ==
  /\ Request(k, "TOKEN_PLESE")
  /\ LET m == Content(k)
         entry == TokenEntry(k, m)
         known == m.name \in Registered
     IN IF known /\ accounts[m.name].token = NoToken
        THEN alive' = FALSE /\ UNCHANGED conn
        ELSE /\ IF known /\ accounts[m.name].token = m.token
                THEN Answer(k, [entry EXCEPT !.state = 2], <<>>)
                ELSE Answer(k, entry, <<Message("REGISTER_NO", None)>>)
             /\ UNCHANGED alive
  /\ UNCHANGED accounts

(* cd, to the root or to the user's directory, with its reply.             *)
OperateQ(k) ==
  /\ Request(k, "OPERATE_Q")
  /\ LET code == IF Content(k) = "/" THEN Root ELSE <<conn[k].name>>
     IN IF conn[k].state = 2
        THEN Answer(k, [conn[k] EXCEPT !.code = code],
                    <<Message("OPERATE_OK", code)>>)
        ELSE Answer(k, conn[k], <<Message("REGISTER_NO", None)>>)
  /\ UNCHANGED <<accounts, alive>>

DownloadPre(k) ==
  /\ Request(k, "DOWNLOAD_PRE")
  /\ Answer(k, conn[k],
            IF conn[k].state = 2 THEN <<Message("DOWNLOAD_POK", None)>>
                                 ELSE <<Message("REGISTER_NO", None)>>)
  /\ UNCHANGED <<accounts, alive>>

(* DOWNLOAD_Q: the connection is handed to a thread.  Before a login the   *)
(* case falls through and sends nothing.                                   *)
DownloadQ(k) ==
  /\ Request(k, "DOWNLOAD_Q")
  /\ IF conn[k].state = 2 THEN conn' = [conn EXCEPT ![k] = NoConn]
                          ELSE Answer(k, conn[k], <<>>)
  /\ UNCHANGED <<accounts, alive>>

ClientQuit(k) ==
  /\ alive /\ conn[k].server = "open" /\ conn[k].peer = "closed"
  /\ conn[k].up = <<>>
  /\ conn' = [conn EXCEPT ![k] = NoConn]
  /\ UNCHANGED <<accounts, alive, clientVars, now, told, bounds>>

InDialogue(k) == LET t == conn[k].owner IN at[t] = "dialogue" /\ cFd[t] = k

(* The client sees the end of the stream, or a reset if a request was just *)
(* arriving.                                                               *)
Expired(c) ==
  IF c.peer = "closed" THEN NoConn
  ELSE [c EXCEPT !.server = IF c.up = <<>> THEN "fin" ELSE "rst",
                 !.up = <<>>, !.state = 0, !.code = Root]

(* The wheel closes a connection.                                          *)
Timeout(k) ==
  /\ alive /\ conn[k].server = "open" /\ timeouts < MaxTimeouts
  /\ Timely => conn[k].peer = "open" /\ ~InDialogue(k)
  /\ timeouts' = timeouts + 1
  /\ conn' = [conn EXCEPT ![k] = Expired(@)]
  /\ UNCHANGED <<accounts, alive, clientVars, now, told, dialogues, commands>>

Serve(k) == LoginPre(k) \/ LoginQ(k) \/ RegisterPre(k) \/ RegisterQ(k)
            \/ TokenPlese(k) \/ OperateQ(k) \/ DownloadPre(k) \/ DownloadQ(k)
            \/ ClientQuit(k)

-----------------------------------------------------------------------------
(* The client: the dialogue *)

(* The user types a name and a password; the client connects and asks.     *)
Dialogue(t, n, password, ctl_code) ==
  /\ at[t] = "menu" /\ Free # {} /\ dialogues < MaxDialogues
  /\ Timely => ~pending[t]
  /\ dialogues' = dialogues + 1
  /\ LET k == Least(Free)
     IN /\ conn' = [conn EXCEPT ![k] =
                      Connection(t, FALSE, <<Message(ctl_code, n)>>)]
        /\ cFd' = [cFd EXCEPT ![t] = k]
  /\ at' = [at EXCEPT ![t] = "dialogue"]
  /\ login_msg' = [login_msg EXCEPT ![t].name = n]
  /\ buf' = [buf EXCEPT ![t] = password]
  /\ UNCHANGED <<accounts, alive, shown, pending, now, told, commands, timeouts>>

Registration(t, n, password) == Dialogue(t, n, password, "LOGIN_PRE")
Login(t, n, password) == Dialogue(t, n, password, "REGISTER_PRE")

(* An event of cFd: only EPOLLIN alone counts, so a reset is not seen.     *)
Reply(t, ctl_code) ==
  /\ at[t] \in {"dialogue", "session"} /\ cFd[t] # 0
  /\ conn[cFd[t]].server \in {"open", "fin"} /\ conn[cFd[t]].down # <<>>
  /\ Head(conn[cFd[t]].down).ctl_code = ctl_code
  /\ UNCHANGED <<accounts, alive, bounds>>

Replied(t) == Head(conn[cFd[t]].down).buf
Rest(t) == [conn[cFd[t]] EXCEPT !.down = Tail(@)]
Consumed(t) == conn' = [conn EXCEPT ![cFd[t]] = Rest(t)]

(* close, and back to login_begin.                                         *)
LoginBegin(t, c) ==
  /\ conn' = [conn EXCEPT ![cFd[t]] = Closed(c)]
  /\ cFd' = [cFd EXCEPT ![t] = 0]
  /\ at' = [at EXCEPT ![t] = "menu"]
  /\ UNCHANGED <<buf, shown, pending, now>>

(* LOGIN_NO, the name is taken, or REGISTER_NO.                            *)
Refused(t) ==
  /\ Reply(t, "LOGIN_NO") \/ Reply(t, "REGISTER_NO")
  /\ LoginBegin(t, Rest(t))
  /\ UNCHANGED <<login_msg, told>>

(* LOGIN_POK: "registration succeeded" is said when LOGIN_Q is sent; the   *)
(* salt travels in the field of the token.                                 *)
LoginPok(t) ==
  /\ Reply(t, "LOGIN_POK")
  /\ login_msg' = [login_msg EXCEPT
       ![t].token = Replied(t), ![t].passward = Crypt(buf[t], Replied(t))]
  /\ LoginBegin(t, Sent(Rest(t), Message("LOGIN_Q", login_msg'[t])))
  /\ told' = told \cup {[name |-> login_msg'[t].name,
                         ciphertext |-> login_msg'[t].passward]}

(* REGISTER_POK: the token is the name with the time, in seconds.          *)
RegisterPok(t) ==
  /\ Reply(t, "REGISTER_POK")
  /\ now' \in {now, now + 1}
  /\ login_msg' = [login_msg EXCEPT
       ![t].passward = Crypt(buf[t], Replied(t)),
       ![t].token = <<login_msg[t].name, now'>>]
  /\ conn' = [conn EXCEPT ![cFd[t]] =
                Sent(Rest(t), Message("REGISTER_Q", login_msg'[t]))]
  /\ UNCHANGED <<at, buf, cFd, shown, pending, told>>

RegisterOk(t) ==
  /\ Reply(t, "REGISTER_OK")
  /\ login_msg' = [login_msg EXCEPT ![t].passward = Root]
  /\ at' = [at EXCEPT ![t] = "session"]
  /\ Consumed(t)
  /\ UNCHANGED <<buf, cFd, shown, pending, now, told>>

OperateOk(t) ==
  /\ Reply(t, "OPERATE_OK")
  /\ login_msg' = [login_msg EXCEPT ![t].passward = Replied(t)]
  /\ shown' = [shown EXCEPT ![t] = Replied(t)]
  /\ Consumed(t)
  /\ UNCHANGED <<at, buf, cFd, pending, now, told>>

DownloadPok(t) ==
  /\ Reply(t, "DOWNLOAD_POK")
  /\ pending' = [pending EXCEPT ![t] = TRUE]
  /\ Consumed(t)
  /\ UNCHANGED <<at, login_msg, buf, cFd, shown, now, told>>

-----------------------------------------------------------------------------
(* The client: reconnection *)

Token(t) == Message("TOKEN_PLESE", login_msg[t])

(* The old connection is closed, and its number is the one socket returns. *)
Renewed(t, messages) ==
  conn' = [conn EXCEPT ![cFd[t]] = Connection(t, FALSE, messages)]

(* Mutation: the client connects and waits to be asked. *)
Greeting_None(t) == <<>>

Greeting(t) == <<Token(t)>>

(* The end of the stream: the client connects again and sends its token.   *)
Reconnect(t) ==
  /\ at[t] \in {"dialogue", "session"} /\ cFd[t] # 0
  /\ conn[cFd[t]].server = "fin" /\ conn[cFd[t]].down = <<>>
  /\ Renewed(t, Greeting(t))
  /\ UNCHANGED <<accounts, alive, clientVars, now, told, bounds>>

(* Mutation: the command that failed goes first. *)
Resent_CommandFirst(t, m) == <<m, Token(t)>>

Resent(t, m) == <<Token(t), m>>

(* ssend.  After the end of the stream a send succeeds once: the answer to *)
(* it is a reset, which the next send does not survive (SIGPIPE), unless   *)
(* the end of the stream was handled in between.  A send to a reset        *)
(* connection fails: ssend connects again and sends token and command, on  *)
(* a descriptor its caller does not get to know; it has the old number if  *)
(* no thread has taken that.                                               *)
Ssend(t, m) ==
  LET k == cFd[t]
  IN \/ /\ k # 0 /\ conn[k].server = "open"
        /\ conn' = [conn EXCEPT ![k] = Sent(@, m)]
        /\ UNCHANGED <<at, cFd>>
     \/ /\ k # 0 /\ conn[k].server = "fin"
        /\ conn' \in {conn, [conn EXCEPT ![k].server = "pipe"]}
        /\ UNCHANGED <<at, cFd>>
     \/ /\ k # 0 /\ conn[k].server = "pipe"
        /\ at' = [at EXCEPT ![t] = "dead"]
        /\ cFd' = [cFd EXCEPT ![t] = 0]
        /\ conn' = [j \in Conn |-> IF conn[j].owner = t THEN Closed(conn[j])
                                   ELSE conn[j]]
     \/ /\ k # 0 /\ conn[k].server = "rst"
        /\ Renewed(t, Resent(t, m))
        /\ cFd' = [cFd EXCEPT ![t] = IF Timely THEN k ELSE 0]
        /\ UNCHANGED at

(* A line from the terminal.  In the dialogue it is read into the buffer   *)
(* the password is in.                                                     *)
Command(t, m) ==
  /\ at[t] \in (IF Timely THEN {} ELSE {"dialogue"}) \cup {"session"}
  /\ commands < MaxCommands /\ commands' = commands + 1
  /\ buf' = [buf EXCEPT ![t] = Line]
  /\ Ssend(t, m)
  /\ UNCHANGED <<accounts, alive, login_msg, shown, pending, now, told,
                 dialogues, timeouts>>

Cd(t) == \E path \in {"/", "dir"} : Command(t, Message("OPERATE_Q", path))
Gets(t) == Command(t, Message("DOWNLOAD_PRE", None))

(* Mutation: the thread asks before it has shown its token. *)
Transfer_TokenLast(t) == <<Message("DOWNLOAD_Q", None), Token(t)>>

Transfer(t) == <<Token(t), Message("DOWNLOAD_Q", None)>>

(* token_ident: the transfer thread connects with the token, and asks to   *)
(* be handed over.                                                         *)
TokenIdent(t) ==
  /\ pending[t] /\ at[t] # "dead" /\ Free # {}
  /\ conn' = [conn EXCEPT ![Least(Free)] =
       Connection(t, TRUE, Transfer(t))]
  /\ pending' = [pending EXCEPT ![t] = FALSE]
  /\ UNCHANGED <<accounts, alive, at, login_msg, buf, cFd, shown, now, told,
                 bounds>>

-----------------------------------------------------------------------------

ClientStep(t) ==
  \/ Refused(t) \/ LoginPok(t) \/ RegisterPok(t) \/ RegisterOk(t)
  \/ OperateOk(t) \/ DownloadPok(t) \/ Reconnect(t) \/ TokenIdent(t)

UserStep(t) ==
  \/ Cd(t) \/ Gets(t)
  \/ \E n \in User, password \in Password :
       Registration(t, n, password) \/ Login(t, n, password)

Next == \/ \E t \in Terminal : ClientStep(t) \/ UserStep(t)
        \/ \E k \in Conn : Serve(k) \/ Timeout(k)

Spec == Init /\ [][Next]_vars

(* The server and the clients go on; users and the wheel need not act.     *)
FairSpec == /\ Spec /\ WF_vars(\E k \in Conn : Serve(k))
            /\ \A t \in Terminal : WF_vars(ClientStep(t))

-----------------------------------------------------------------------------
(* Properties *)

(* Every variable has its type.                                            *)
Codes == {Root} \cup {<<n>> : n \in User}
TypeOK ==
  /\ alive \in BOOLEAN /\ now \in Nat
  /\ \A n \in Registered : accounts[n].salt \in Salt
  /\ \A k \in Conn : /\ conn[k].owner \in Terminal \cup {None}
                      /\ conn[k].peer \in {"open", "closed"}
                      /\ conn[k].server \in {"open", "closed", "fin", "rst", "pipe"}
                      /\ conn[k].state \in 0..2 /\ conn[k].code \in Codes
                      /\ conn[k].name \in User \cup {None}
  /\ at \in [Terminal -> {"menu", "dialogue", "session", "dead"}]
  /\ \A t \in Terminal : login_msg[t].name \in User \cup {None}
  /\ cFd \in [Terminal -> Conn \cup {0}] /\ shown \in [Terminal -> Codes]
  /\ pending \in [Terminal -> BOOLEAN]

(* The connection of t, when nothing is under way on it.                   *)
Quiet(t) == /\ at[t] = "session" /\ cFd[t] # 0
            /\ conn[cFd[t]].server = "open"
            /\ conn[cFd[t]].up = <<>> /\ conn[cFd[t]].down = <<>>

(* A session that is at rest is one the server knows: as a login of the    *)
(* same user, in the directory the client goes back to, whatever           *)
(* connections were lost and made anew.                                    *)
SessionAgrees ==
  \A t \in Terminal : Quiet(t) =>
    LET c == conn[cFd[t]]
    IN c.state = 2 /\ c.name = login_msg[t].name /\ c.code = login_msg[t].passward

(* The login that the table has of the user of t is another terminal's.    *)
LoggedInElsewhere(t) ==
  LET n == login_msg[t].name
  IN n \in User /\ n \in Registered
     => \E w \in Terminal \ {t} : /\ login_msg[w].name = n
                                  /\ login_msg[w].token = accounts[n].token

(* A client falls out of its session only when its user has logged in from *)
(* another terminal.                                                       *)
LoggedOutOnlyByLogin ==
  [][\A t \in Terminal :
       at[t] = "session" /\ at'[t] = "menu" => LoggedInElsewhere(t)]_vars

(* An account that exists is what it was, but for its token: no            *)
(* registration that was begun before it existed takes it over.            *)
AccountKept ==
  [][\A n \in Registered : /\ n \in Registered'
                           /\ accounts'[n].salt = accounts[n].salt
                           /\ accounts'[n].ciphertext = accounts[n].ciphertext]_vars

(* A session whose connection the wheel has closed is taken up again, or   *)
(* refused; a reset waits for the user's next command.                     *)
SessionResumes ==
  \A t \in Terminal :
    at[t] = "session" /\ cFd[t] # 0 /\ conn[cFd[t]].server = "fin"
      ~> \/ (Quiet(t) /\ conn[cFd[t]].state = 2) \/ at[t] = "menu" \/ at[t] = "dead" \/ ~alive
         \/ cFd[t] # 0 /\ conn[cFd[t]].server \in {"rst", "pipe"}

(* Another login of the user of t has replaced its token.                  *)
Superseded(t) == LET n == login_msg[t].name
                 IN n \in User /\ n \in Registered
                    => accounts[n].token # login_msg[t].token

(* A transfer that has its token still to show is handed to a thread,      *)
(* unless the token is refused or the wheel closes its connection first.   *)
TransferStarts ==
  \A k \in Conn :
    conn[k].transfer /\ conn[k].server = "open" /\ Len(conn[k].up) = 2
      ~> \/ ~conn[k].transfer \/ conn[k].server # "open" \/ ~alive
         \/ at[conn[k].owner] # "session" \/ Superseded(conn[k].owner)

(* What the client is told is registered is registered, with that password.*)
(* main.c calls LOGIN_Q a registration that has succeeded.                 *)
RegisteredIsStored ==
  \A a \in told :
    \/ \E k \in Conn : conn[k].up # <<>> /\ conn[k].up[Len(conn[k].up)].ctl_code = "LOGIN_Q"
    \/ a.name \in Registered /\ accounts[a.name].ciphertext = a.ciphertext

(* The server never meets the token of an account that has none.           *)
ServerSurvives == alive

(* A password is one that was typed as one.                                *)
PasswordAsTyped ==
  \A n \in Registered : accounts[n].ciphertext[1] \in Password

(* A client in a session knows the number of its connection.               *)
DescriptorKnown == \A t \in Terminal : at[t] = "session" => cFd[t] # 0

(* No client is ended by a signal.                                         *)
ClientSurvives == \A t \in Terminal : at[t] # "dead"

(* The prompt shows the directory the client is in.                        *)
PromptShowsCode == \A t \in Terminal : Quiet(t) => shown[t] = login_msg[t].passward

=============================================================================
