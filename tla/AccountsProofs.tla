----------------------------- MODULE AccountsProofs -----------------------------
(***************************************************************************)
(* Three theorems about Accounts, for any terminals, names, passwords and  *)
(* bounds.                                                                 *)
(*   - An account is never taken over, whether or not the users and the    *)
(*     wheel are Timely.  Nothing needs to be known of the messages but    *)
(*     what the server does with them: whatever name and whatever token    *)
(*     they carry, the table keeps its shape.                              *)
(*   - When they are Timely, a session at rest is one the server knows, in *)
(*     the client's directory.  Here every message under way on the own    *)
(*     connection of a client has to be known: SessionsFit.                *)
(*   - When they are Timely, who falls out of a session has lost it to     *)
(*     another terminal.  Here every token in the table has to be followed *)
(*     to the client that holds it: SessionsHeld.                          *)
(***************************************************************************)
EXTENDS Accounts, TLAPS, WellFoundedInduction

(* An entry of the table is an account with its three columns, or none.    *)
Shaped ==
  /\ accounts = [n \in User |-> accounts[n]]
  /\ \A n \in User :
       \/ accounts[n] = NoAccount
       \/ accounts[n] = [salt |-> accounts[n].salt,
                         ciphertext |-> accounts[n].ciphertext,
                         token |-> accounts[n].token]

Kept == \A n \in Registered : /\ n \in Registered'
                              /\ accounts'[n].salt = accounts[n].salt
                              /\ accounts'[n].ciphertext = accounts[n].ciphertext

(* What is set up with three columns is not the empty entry.               *)
LEMMA AccountDiffers ==
  ASSUME NEW s, NEW c, NEW t
  PROVE  [salt |-> s, ciphertext |-> c, token |-> t] # NoAccount
<1> DEFINE r == [salt |-> s, ciphertext |-> c, token |-> t]
<1>1. "token" \in DOMAIN r  OBVIOUS
<1>2. "token" \notin DOMAIN NoAccount  BY DEF NoAccount
<1> QED BY <1>1, <1>2

LEMMA AddUserKeeps ==
  ASSUME Shaped, NEW m, AddUser(m)
  PROVE  Shaped' /\ Kept
<1>1. CASE m.name \in Registered
  BY <1>1 DEF AddUser, Shaped, Kept, Registered
<1>2. CASE m.name \notin Registered
  <2> DEFINE r == [salt |-> m.token, ciphertext |-> m.passward, token |-> NoToken]
  <2>1. accounts' = [accounts EXCEPT ![m.name] = r]
    BY <1>2 DEF AddUser
  <2>2. \A n \in User : accounts'[n] = IF n = m.name THEN r ELSE accounts[n]
    BY <2>1 DEF Shaped
  <2>3. accounts' = [n \in User |-> accounts'[n]]
    BY <2>1 DEF Shaped
  <2>4. r = [salt |-> r.salt, ciphertext |-> r.ciphertext, token |-> r.token]
    OBVIOUS
  <2>5. Shaped'
    BY <2>2, <2>3, <2>4 DEF Shaped
  <2>6. Kept
    BY <1>2, <2>2 DEF Kept, Registered
  <2> QED BY <2>5, <2>6
<1> QED BY <1>1, <1>2

LEMMA MathUserKeeps ==
  ASSUME Shaped, NEW m, Matches(m), MathUser(m)
  PROVE  Shaped' /\ Kept
<1> DEFINE a == accounts[m.name]
           r == [salt |-> a.salt, ciphertext |-> a.ciphertext, token |-> m.token]
<1>1. m.name \in User /\ a # NoAccount
  BY DEF Matches, Registered
<1>2. a = [salt |-> a.salt, ciphertext |-> a.ciphertext, token |-> a.token]
  BY <1>1 DEF Shaped
<1>3. [a EXCEPT !.token = m.token] = r
  BY <1>2
<1>4. accounts' = [accounts EXCEPT ![m.name] = r]
  BY <1>3 DEF MathUser
<1>5. \A n \in User : accounts'[n] = IF n = m.name THEN r ELSE accounts[n]
  BY <1>4 DEF Shaped
<1>6. accounts' = [n \in User |-> accounts'[n]]
  BY <1>4 DEF Shaped
<1>7. r = [salt |-> r.salt, ciphertext |-> r.ciphertext, token |-> r.token]
      /\ r.salt = a.salt /\ r.ciphertext = a.ciphertext
  OBVIOUS
<1>8. r # NoAccount  BY AccountDiffers
<1>9. Shaped'
  BY <1>5, <1>6, <1>7 DEF Shaped
<1>10. Kept
  BY <1>1, <1>5, <1>7, <1>8 DEF Kept, Registered
<1> QED BY <1>9, <1>10

LEMMA Unchanged ==
  ASSUME Shaped, UNCHANGED accounts
  PROVE  Shaped' /\ Kept
BY DEF Shaped, Kept, Registered

(* Only LOGIN_Q and a login with the right password write to the table.    *)
LEMMA StepKeeps ==
  ASSUME Shaped, [Next]_vars
  PROVE  Shaped' /\ Kept
<1>1. ASSUME NEW t \in Terminal, ClientStep(t) \/ UserStep(t)
      PROVE  UNCHANGED accounts
  BY <1>1 DEF ClientStep, UserStep, Refused, LoginPok, RegisterPok, RegisterOk,
     OperateOk, DownloadPok, Reconnect, TokenIdent, Reply, Cd, Gets, Command,
     Registration, Login, Dialogue
<1>2. ASSUME NEW k \in Conn, Serve(k) \/ Timeout(k)
      PROVE  Shaped' /\ Kept
  <2>1. CASE LoginQ(k)
    BY <2>1, AddUserKeeps DEF LoginQ
  <2>2. CASE RegisterQ(k)
    BY <2>2, MathUserKeeps, Unchanged DEF RegisterQ
  <2>3. CASE \/ LoginPre(k) \/ RegisterPre(k) \/ TokenPlese(k) \/ OperateQ(k)
             \/ DownloadPre(k) \/ DownloadQ(k) \/ ClientQuit(k) \/ Timeout(k)
    BY <2>3, Unchanged DEF LoginPre, RegisterPre, TokenPlese, OperateQ,
       DownloadPre, DownloadQ, ClientQuit, Timeout
  <2> QED BY <1>2, <2>1, <2>2, <2>3 DEF Serve
<1>3. CASE UNCHANGED vars
  BY <1>3, Unchanged DEF vars
<1> QED BY <1>1, <1>2, <1>3, Unchanged DEF Next

LEMMA InitShaped == Init => Shaped
<1> SUFFICES ASSUME Init PROVE Shaped
  OBVIOUS
<1> DEFINE S == {NoAccount} \cup
       [salt : Salt, ciphertext : Password \X Salt, token : {NoToken}]
<1>1. accounts \in [User -> S]
  BY DEF Init
<1> QED BY <1>1 DEF Shaped

(* The account of a name is the one that was inserted first: no login, and *)
(* no registration that was begun before it existed, changes its password. *)
THEOREM AccountsAreKept == Spec => AccountKept
<1>1. Shaped /\ [Next]_vars => Shaped'
  BY StepKeeps
<1>2. Shaped /\ [Next]_vars => [Kept]_vars
  BY StepKeeps
<1>3. Spec => [][Kept]_vars
  BY InitShaped, <1>1, <1>2, PTL DEF Spec
<1> QED BY <1>3 DEF AccountKept, Kept

-----------------------------------------------------------------------------
(* A sequence, of whatever elements.                                       *)
IsSeq(s) == Len(s) \in Nat /\ s = [i \in 1..Len(s) |-> s[i]]

(* A connection has its fields.                                            *)
HasFields(c) ==
  /\ c = [owner |-> c.owner, transfer |-> c.transfer, up |-> c.up,
          down |-> c.down, peer |-> c.peer, server |-> c.server,
          state |-> c.state, name |-> c.name, code |-> c.code]
  /\ IsSeq(c.up) /\ IsSeq(c.down)

(* A code, which is sent as it is when it goes with a token.               *)
IsCode(x) == Atoi(x) = x

Commands(s) == \A i \in 1..Len(s) : s[i].ctl_code \in {"OPERATE_Q", "DOWNLOAD_PRE"}

(* The answers to commands and to a token.                                 *)
Answers(s) ==
  \A i \in 1..Len(s) : \/ s[i].ctl_code \in {"DOWNLOAD_POK", "REGISTER_NO"}
                       \/ s[i].ctl_code = "OPERATE_OK" /\ IsCode(s[i].buf)

(* In a dialogue there is one message under way.                           *)
Asking(msg, c) ==
  /\ Len(c.up) = 1 /\ c.down = <<>>
  /\ \/ c.up[1].ctl_code \in {"LOGIN_PRE", "REGISTER_PRE"}
     \/ /\ c.up[1].ctl_code = "REGISTER_Q"
        /\ c.up[1].buf = msg /\ msg.token # NoToken

Answered(msg, c) ==
  /\ c.up = <<>> /\ Len(c.down) = 1
  /\ \/ c.down[1].ctl_code \in {"LOGIN_NO", "LOGIN_POK", "REGISTER_NO", "REGISTER_POK"}
     \/ /\ c.down[1].ctl_code = "REGISTER_OK"
        /\ c.state = 2 /\ c.name = msg.name

(* The token is still to be read; what is behind it are commands.          *)
Proving(msg, c) ==
  /\ c.down = <<>> /\ Len(c.up) > 0
  /\ c.up[1].ctl_code = "TOKEN_PLESE" /\ c.up[1].buf = msg
  /\ \A i \in 2..Len(c.up) : c.up[i].ctl_code \in {"OPERATE_Q", "DOWNLOAD_PRE"}

(* The server has the user, and the directory the client will have when it *)
(* has read the replies: that of the last OPERATE_OK, if there is one.     *)
Known(msg, c) ==
  /\ c.state = 2 /\ c.name = msg.name /\ Commands(c.up)
  /\ \E i \in 0..Len(c.down) :
       /\ i = 0 => c.code = msg.passward
       /\ i > 0 => c.down[i].ctl_code = "OPERATE_OK" /\ c.code = c.down[i].buf
       /\ \A j \in i+1..Len(c.down) : c.down[j].ctl_code = "DOWNLOAD_POK"
  /\ \A i \in 1..Len(c.down) : c.down[i].ctl_code # "REGISTER_NO"

(* The token was refused, and the client will read that first.             *)
Denied(msg, c) ==
  Commands(c.up) /\ Len(c.down) > 0 /\ c.down[1].ctl_code = "REGISTER_NO"

(* A session whose connection the server has open is in one of the three; *)
(* what is written on one it has closed reaches nobody.                    *)
InSession(msg, c) ==
  /\ IsCode(msg.passward) /\ Answers(c.down)
  /\ c.server \in {"open", "fin", "rst", "pipe"}
  /\ c.server = "open" => Proving(msg, c) \/ Known(msg, c) \/ Denied(msg, c)

(* The own connection of the client t, with the place it is at.            *)
Fits(t, where, msg, c) ==
  /\ HasFields(c) /\ c.owner = t /\ c.peer = "open"
  /\ \/ /\ where = "dialogue" /\ c.server = "open" /\ c.code = Root
        /\ Asking(msg, c) \/ Answered(msg, c)
     \/ where = "session" /\ InSession(msg, c)

Live(t) == at[t] \in {"dialogue", "session"}

(* The fields of login_msg.                                                *)
Records(f) == f = [u \in Terminal |-> [name |-> f[u].name, passward |-> f[u].passward,
                                       token |-> f[u].token]]

AreFunctions == /\ conn = [k \in Conn |-> conn[k]]
              /\ cFd = [t \in Terminal |-> cFd[t]]
              /\ at = [t \in Terminal |-> at[t]]
              /\ Records(login_msg)

OwnFits(t) ==
  IF Live(t) THEN cFd[t] \in Conn /\ Fits(t, at[t], login_msg[t], conn[cFd[t]])
  ELSE cFd[t] = 0

(* The inductive invariant.                                                *)
SessionsFit == AreFunctions /\ \A t \in Terminal : OwnFits(t)

LEMMA SeqOf ==
  ASSUME NEW s, IsSeq(s)
  PROVE  s \in Seq({s[i] : i \in 1..Len(s)})
BY DEF IsSeq

LEMMA InSeq ==
  ASSUME NEW S, NEW s \in Seq(S)
  PROVE  IsSeq(s)
BY DEF IsSeq

LEMMA TailOf ==
  ASSUME NEW s, IsSeq(s), s # <<>>
  PROVE  /\ IsSeq(Tail(s)) /\ Len(s) > 0 /\ Len(Tail(s)) = Len(s) - 1
         /\ \A i \in 1..Len(Tail(s)) : Tail(s)[i] = s[i + 1]
         /\ Head(s) = s[1]
<1>1. s \in Seq({s[i] : i \in 1..Len(s)})
  BY SeqOf
<1>2. Tail(s) \in Seq({s[i] : i \in 1..Len(s)})
  BY <1>1
<1>3. IsSeq(Tail(s))
  BY <1>2, InSeq
<1> QED BY <1>1, <1>3 DEF IsSeq

LEMMA AppendOf ==
  ASSUME NEW s, IsSeq(s), NEW m
  PROVE  /\ IsSeq(Append(s, m)) /\ Len(Append(s, m)) = Len(s) + 1
         /\ \A i \in 1..Len(s) : Append(s, m)[i] = s[i]
         /\ Append(s, m)[Len(s) + 1] = m
         /\ s \o <<m>> = Append(s, m) /\ s \o <<>> = s
<1> DEFINE S == {s[i] : i \in 1..Len(s)} \cup {m}
<1>1. s \in Seq(S)
  BY DEF IsSeq
<1>2. Append(s, m) \in Seq(S)
  BY <1>1
<1>3. IsSeq(Append(s, m))
  BY <1>2, InSeq
<1> QED BY <1>1, <1>2, <1>3

LEMMA Short ==
  ASSUME NEW m, NEW n
  PROVE  /\ IsSeq(<<>>) /\ IsSeq(<<m>>) /\ IsSeq(<<m, n>>)
         /\ Len(<<>>) = 0 /\ Len(<<m>>) = 1 /\ <<m>>[1] = m
         /\ Len(<<m, n>>) = 2 /\ <<m, n>>[1] = m /\ <<m, n>>[2] = n
BY DEF IsSeq

LEMMA Empty ==
  ASSUME NEW s, IsSeq(s)
  PROVE  s = <<>> <=> Len(s) = 0
<1>1. s \in Seq({s[i] : i \in 1..Len(s)})
  BY SeqOf
<1> QED BY <1>1

-----------------------------------------------------------------------------
(* The server's steps *)

(* A connection with other state, name and code.                           *)
Entry(c, state, name, code) ==
  [owner |-> c.owner, transfer |-> c.transfer, up |-> c.up, down |-> c.down,
   peer |-> c.peer, server |-> c.server,
   state |-> state, name |-> name, code |-> code]

(* What Answer makes of an entry.                                          *)
Queued(e, replies) ==
  [e EXCEPT !.up = Tail(@),
            !.down = IF e.peer = "open" THEN @ \o replies ELSE @]

(* c with the entry e, when a request has been read.                       *)
Served(c, d, e) ==
  /\ HasFields(d) /\ d.owner = c.owner /\ d.peer = "open" /\ d.server = c.server
  /\ d.state = e.state /\ d.name = e.name /\ d.code = e.code
  /\ d.up = Tail(c.up)

Waiting(c) == HasFields(c) /\ c.peer = "open" /\ c.up # <<>>
Alike(c, e) == e = Entry(c, e.state, e.name, e.code)

LEMMA Queueing ==
  ASSUME NEW c, Waiting(c), NEW e, Alike(c, e),
         NEW replies, IsSeq(c.down \o replies)
  PROVE  /\ Served(c, Queued(e, replies), e)
         /\ Queued(e, replies).down = c.down \o replies
<1>1. PICK o, x, u, d, s, state, name, code :
        /\ o = c.owner /\ x = c.transfer /\ u = c.up /\ d = c.down /\ s = c.server
        /\ state = e.state /\ name = e.name /\ code = e.code
  OBVIOUS
<1> DEFINE v == Tail(u)  w == d \o replies
<1>2. e = [owner |-> o, transfer |-> x, up |-> u, down |-> d, peer |-> "open",
           server |-> s, state |-> state, name |-> name, code |-> code]
  BY <1>1 DEF Alike, Waiting, Entry
<1>3. e.up = u /\ e.down = d /\ e.peer = "open"
  BY <1>2
<1>4. IsSeq(Tail(c.up))
  BY TailOf DEF HasFields, Waiting
<1> HIDE DEF v, w
<1> DEFINE f == [owner |-> o, transfer |-> x, up |-> v, down |-> d, peer |-> "open",
                 server |-> s, state |-> state, name |-> name, code |-> code]
           g == [owner |-> o, transfer |-> x, up |-> v, down |-> w, peer |-> "open",
                 server |-> s, state |-> state, name |-> name, code |-> code]
<1>5. [e EXCEPT !.up = v] = f
  BY <1>2
<1>6. [f EXCEPT !.down = w] = g
  OBVIOUS
<1>7. [e EXCEPT !.up = v, !.down = w] = g
  BY <1>5, <1>6
<1>8. [e EXCEPT !.up = v].down = d
  BY <1>5
<1>9. Queued(e, replies) = [e EXCEPT !.up = v, !.down = w]
  BY <1>3, <1>8 DEF v, w, Queued
<1>10. Queued(e, replies) = g
  BY <1>7, <1>9
<1>11. v = Tail(c.up) /\ w = c.down \o replies /\ IsSeq(v) /\ IsSeq(w)
  BY <1>1, <1>4 DEF v, w
<1> QED BY <1>1, <1>10, <1>11 DEF Served, HasFields, Waiting

LEMMA NoReply ==
  ASSUME NEW c, Waiting(c), NEW e, Alike(c, e)
  PROVE  /\ Served(c, Queued(e, <<>>), e)
         /\ Queued(e, <<>>).down = c.down
<1>1. c.down \o <<>> = c.down /\ IsSeq(c.down)
  BY AppendOf DEF HasFields, Waiting
<1>2. PICK r : r = <<>>
  OBVIOUS
<1>3. c.down \o r = c.down /\ IsSeq(c.down \o r)
  BY <1>1, <1>2, Zenon
<1>4. Served(c, Queued(e, r), e) /\ Queued(e, r).down = c.down \o r
  BY <1>3, Queueing
<1> QED BY <1>2, <1>3, <1>4, Zenon

LEMMA OneReply ==
  ASSUME NEW c, Waiting(c), NEW e, Alike(c, e), NEW m
  PROVE  /\ Served(c, Queued(e, <<m>>), e)
         /\ Queued(e, <<m>>).down = Append(c.down, m)
<1>1. c.down \o <<m>> = Append(c.down, m) /\ IsSeq(Append(c.down, m))
  BY AppendOf DEF HasFields, Waiting
<1>2. PICK r : r = <<m>>
  OBVIOUS
<1>3. c.down \o r = Append(c.down, m) /\ IsSeq(c.down \o r)
  BY <1>1, <1>2, Zenon
<1>4. Served(c, Queued(e, r), e) /\ Queued(e, r).down = c.down \o r
  BY <1>3, Queueing
<1> QED BY <1>2, <1>3, <1>4, Zenon

(* The entries the server answers with.                                    *)
AsUser(c, state, name) == [c EXCEPT !.state = state, !.name = name]
Moved(c, code) == [c EXCEPT !.code = code]
Presented(c, name, code) == [c EXCEPT !.name = name, !.code = code]
Accepted(e) == [e EXCEPT !.state = 2]

LEMMA Entries ==
  ASSUME NEW c, HasFields(c), NEW st, NEW nm, NEW cd
  PROVE  /\ c = Entry(c, c.state, c.name, c.code)
         /\ AsUser(c, st, nm) = Entry(c, st, nm, c.code)
         /\ Moved(c, cd) = Entry(c, c.state, c.name, cd)
         /\ Presented(c, nm, cd) = Entry(c, c.state, nm, cd)
         /\ Accepted(Presented(c, nm, cd)) = Entry(c, 2, nm, cd)
<1>1. c = Entry(c, c.state, c.name, c.code)
  BY DEF HasFields, Entry
<1>2. PICK r : r = c
  OBVIOUS
<1>3. r = [owner |-> c.owner, transfer |-> c.transfer, up |-> c.up,
           down |-> c.down, peer |-> c.peer, server |-> c.server,
           state |-> c.state, name |-> c.name, code |-> c.code]
  BY <1>1, <1>2 DEF Entry
<1>4. /\ [r EXCEPT !.state = st] = Entry(c, st, c.name, c.code)
      /\ [r EXCEPT !.name = nm] = Entry(c, c.state, nm, c.code)
      /\ [r EXCEPT !.code = cd] = Entry(c, c.state, c.name, cd)
  BY <1>3 DEF Entry
<1>5. /\ [Entry(c, st, c.name, c.code) EXCEPT !.name = nm] = Entry(c, st, nm, c.code)
      /\ [Entry(c, c.state, nm, c.code) EXCEPT !.code = cd] = Entry(c, c.state, nm, cd)
      /\ [Entry(c, c.state, nm, cd) EXCEPT !.state = 2] = Entry(c, 2, nm, cd)
  BY DEF Entry
<1>6. /\ [r EXCEPT !.state = st, !.name = nm] = Entry(c, st, nm, c.code)
      /\ [r EXCEPT !.name = nm, !.code = cd] = Entry(c, c.state, nm, cd)
  BY <1>4, <1>5
<1>7. Presented(c, nm, cd) = Entry(c, c.state, nm, cd)
  BY <1>2, <1>6 DEF Presented
<1> QED BY <1>1, <1>2, <1>4, <1>5, <1>6, <1>7 DEF AsUser, Moved, Accepted

LEMMA EntryFields ==
  ASSUME NEW c, NEW e, NEW st, NEW nm, NEW cd, e = Entry(c, st, nm, cd)
  PROVE  Alike(c, e) /\ e.state = st /\ e.name = nm /\ e.code = cd
BY DEF Entry, Alike

(* The first and only request of a dialogue.                               *)
LEMMA DialogueAsks ==
  ASSUME NEW t, NEW msg, NEW c, Fits(t, "dialogue", msg, c), c.up # <<>>
  PROVE  /\ Waiting(c) /\ Asking(msg, c) /\ c.server = "open" /\ c.code = Root
         /\ Head(c.up) = c.up[1] /\ Tail(c.up) = <<>> /\ c.down = <<>>
<1>1. HasFields(c) /\ c.peer = "open" /\ c.server = "open" /\ c.code = Root
      /\ (Asking(msg, c) \/ Answered(msg, c))
  BY DEF Fits
<1>2. Asking(msg, c) /\ Len(c.up) = 1 /\ c.down = <<>>
  BY <1>1 DEF Asking, Answered
<1>3. IsSeq(Tail(c.up)) /\ Len(Tail(c.up)) = 0 /\ Head(c.up) = c.up[1]
  BY <1>1, <1>2, TailOf DEF HasFields
<1>4. Tail(c.up) = <<>>
  BY <1>3, Empty
<1> QED BY <1>1, <1>2, <1>3, <1>4 DEF Waiting

LEMMA DialogueAnswered ==
  ASSUME NEW t, NEW msg, NEW c, Fits(t, "dialogue", msg, c), c.up # <<>>,
         NEW e, NEW d, Served(c, d, e), e.code = Root,
         NEW m, d.down = Append(c.down, m),
         \/ m.ctl_code \in {"LOGIN_NO", "LOGIN_POK", "REGISTER_NO", "REGISTER_POK"}
         \/ m.ctl_code = "REGISTER_OK" /\ e.state = 2 /\ e.name = msg.name
  PROVE  Fits(t, "dialogue", msg, d)
<1>1. d.up = <<>> /\ c.down = <<>> /\ d.server = "open" /\ d.code = Root
      /\ d.state = e.state /\ d.name = e.name /\ HasFields(d) /\ d.peer = "open"
      /\ d.owner = t
  BY DialogueAsks DEF Served, Fits
<1>2. IsSeq(<<>>) /\ Len(<<>>) = 0
  BY Short
<1>3. Len(d.down) = 1 /\ d.down[1] = m
  BY <1>1, <1>2, AppendOf
<1>4. Answered(msg, d)
  BY <1>1, <1>3 DEF Answered
<1> QED BY <1>1, <1>4 DEF Fits

(* A request in a session is a command, or the token that comes first.     *)
LEMMA SessionAsks ==
  ASSUME NEW t, NEW msg, NEW c, Fits(t, "session", msg, c), c.up # <<>>,
         c.server = "open"
  PROVE  /\ Waiting(c) /\ InSession(msg, c) /\ c.owner = t
         /\ Head(c.up) = c.up[1] /\ Commands(Tail(c.up))
         /\ \/ Proving(msg, c) /\ Head(c.up).ctl_code = "TOKEN_PLESE"
            \/ /\ Known(msg, c) \/ Denied(msg, c)
               /\ Head(c.up).ctl_code \in {"OPERATE_Q", "DOWNLOAD_PRE"}
<1>1. HasFields(c) /\ c.peer = "open" /\ c.owner = t /\ InSession(msg, c)
      /\ (Proving(msg, c) \/ Known(msg, c) \/ Denied(msg, c))
  BY DEF Fits, InSession
<1>2. /\ Len(Tail(c.up)) = Len(c.up) - 1 /\ Len(c.up) > 0 /\ Len(c.up) \in Nat
      /\ \A i \in 1..Len(Tail(c.up)) : Tail(c.up)[i] = c.up[i + 1]
      /\ Head(c.up) = c.up[1]
  BY <1>1, TailOf DEF HasFields, IsSeq
<1>3. CASE Proving(msg, c)
  <2>1. Commands(Tail(c.up))
    BY <1>2, <1>3 DEF Commands, Proving
  <2> QED BY <1>1, <1>2, <1>3, <2>1 DEF Proving, Waiting
<1>4. CASE Known(msg, c) \/ Denied(msg, c)
  <2>1. Commands(c.up)
    BY <1>4 DEF Known, Denied
  <2>2. Commands(Tail(c.up)) /\ c.up[1].ctl_code \in {"OPERATE_Q", "DOWNLOAD_PRE"}
    BY <1>2, <2>1 DEF Commands
  <2> QED BY <1>1, <1>2, <1>4, <2>2 DEF Waiting
<1> QED BY <1>1, <1>3, <1>4

LEMMA AnswersAppend ==
  ASSUME NEW s, IsSeq(s), NEW m, Answers(s),
         \/ m.ctl_code \in {"DOWNLOAD_POK", "REGISTER_NO"}
         \/ m.ctl_code = "OPERATE_OK" /\ IsCode(m.buf)
  PROVE  Answers(Append(s, m))
<1>1. /\ Len(Append(s, m)) = Len(s) + 1 /\ Len(s) \in Nat
      /\ \A i \in 1..Len(s) : Append(s, m)[i] = s[i]
      /\ Append(s, m)[Len(s) + 1] = m
  BY AppendOf DEF IsSeq
<1> SUFFICES ASSUME NEW i \in 1..Len(Append(s, m))
             PROVE  LET q == Append(s, m)[i] IN
                    \/ q.ctl_code \in {"DOWNLOAD_POK", "REGISTER_NO"}
                    \/ q.ctl_code = "OPERATE_OK" /\ IsCode(q.buf)
  BY DEF Answers
<1>2. CASE i = Len(s) + 1
  BY <1>1, <1>2
<1>3. CASE i \in 1..Len(s)
  BY <1>1, <1>3 DEF Answers
<1> QED BY <1>1, <1>2, <1>3

LEMMA AnswersTail ==
  ASSUME NEW s, IsSeq(s), s # <<>>, Answers(s)
  PROVE  Answers(Tail(s))
<1>1. /\ Len(Tail(s)) = Len(s) - 1 /\ Len(s) \in Nat
      /\ \A i \in 1..Len(Tail(s)) : Tail(s)[i] = s[i + 1]
  BY TailOf DEF IsSeq
<1> QED BY <1>1 DEF Answers

(* The last OPERATE_OK under way is the directory the server has.          *)
LastCode(msg, c, i) ==
  /\ i = 0 => c.code = msg.passward
  /\ i > 0 => c.down[i].ctl_code = "OPERATE_OK" /\ c.code = c.down[i].buf
  /\ \A j \in i+1..Len(c.down) : c.down[j].ctl_code = "DOWNLOAD_POK"

LEMMA KnownAnswered ==
  ASSUME NEW msg, NEW c, Known(msg, c), Waiting(c), Commands(Tail(c.up)),
         NEW e, NEW d, Served(c, d, e), e.state = 2, e.name = msg.name,
         NEW m, d.down = Append(c.down, m),
         \/ m.ctl_code = "OPERATE_OK" /\ e.code = m.buf
         \/ m.ctl_code = "DOWNLOAD_POK" /\ e.code = c.code
  PROVE  Known(msg, d)
<1>1. /\ Len(d.down) = Len(c.down) + 1 /\ Len(c.down) \in Nat
      /\ \A i \in 1..Len(c.down) : d.down[i] = c.down[i]
      /\ d.down[Len(c.down) + 1] = m
  BY AppendOf DEF Waiting, HasFields, IsSeq
<1>2. d.state = 2 /\ d.name = msg.name /\ d.code = e.code /\ Commands(d.up)
  BY DEF Served
<1>3. \A i \in 1..Len(d.down) : d.down[i].ctl_code # "REGISTER_NO"
  <2> SUFFICES ASSUME NEW i \in 1..Len(d.down)
               PROVE  d.down[i].ctl_code # "REGISTER_NO"
    OBVIOUS
  <2>1. CASE i = Len(c.down) + 1
    BY <1>1, <2>1
  <2>2. CASE i \in 1..Len(c.down)
    BY <1>1, <2>2 DEF Known
  <2> QED BY <1>1, <2>1, <2>2
<1>4. PICK i \in 0..Len(c.down) : LastCode(msg, c, i)
  BY DEF Known, LastCode
<1>5. \E j \in 0..Len(d.down) : LastCode(msg, d, j)
  <2>1. CASE m.ctl_code = "OPERATE_OK" /\ e.code = m.buf
    <3>1. LastCode(msg, d, Len(c.down) + 1)
      BY <1>1, <1>2, <2>1 DEF LastCode
    <3> QED BY <1>1, <3>1
  <2>2. CASE m.ctl_code = "DOWNLOAD_POK" /\ e.code = c.code
    <3>1. i = 0 => d.code = msg.passward
      BY <1>2, <1>4, <2>2 DEF LastCode
    <3>2. i > 0 => d.down[i].ctl_code = "OPERATE_OK" /\ d.code = d.down[i].buf
      BY <1>1, <1>2, <1>4, <2>2 DEF LastCode
    <3>3. ASSUME NEW j \in i+1..Len(d.down)
          PROVE  d.down[j].ctl_code = "DOWNLOAD_POK"
      <4>1. CASE j = Len(c.down) + 1
        BY <1>1, <2>2, <4>1
      <4>2. CASE j \in i+1..Len(c.down)
        BY <1>1, <1>4, <4>2 DEF LastCode
      <4> QED BY <1>1, <4>1, <4>2
    <3>4. LastCode(msg, d, i)
      BY <3>1, <3>2, <3>3 DEF LastCode
    <3> QED BY <1>1, <3>4
  <2> QED BY <2>1, <2>2
<1> QED BY <1>2, <1>3, <1>5 DEF Known, LastCode

LEMMA DeniedAnswered ==
  ASSUME NEW msg, NEW c, Denied(msg, c), Waiting(c), Commands(Tail(c.up)),
         NEW e, NEW d, Served(c, d, e), NEW m, d.down = Append(c.down, m)
  PROVE  Denied(msg, d)
<1>1. /\ Len(d.down) = Len(c.down) + 1 /\ Len(c.down) \in Nat /\ Len(c.down) > 0
      /\ \A i \in 1..Len(c.down) : d.down[i] = c.down[i]
      /\ c.down[1].ctl_code = "REGISTER_NO"
  BY AppendOf DEF Waiting, HasFields, IsSeq, Denied
<1> QED BY <1>1 DEF Denied, Served

(* A command that has been answered.                                       *)
LEMMA CommandAnswered ==
  ASSUME NEW t, NEW msg, NEW c, Fits(t, "session", msg, c), c.up # <<>>,
         c.server = "open", Head(c.up).ctl_code # "TOKEN_PLESE",
         NEW e, NEW d, Served(c, d, e), NEW m, d.down = Append(c.down, m),
         \/ /\ c.state = 2 /\ e.state = 2 /\ e.name = c.name
            /\ m.ctl_code = "OPERATE_OK" /\ IsCode(m.buf) /\ e.code = m.buf
         \/ /\ c.state = 2 /\ e.state = 2 /\ e.name = c.name
            /\ m.ctl_code = "DOWNLOAD_POK" /\ e.code = c.code
         \/ c.state # 2 /\ m.ctl_code = "REGISTER_NO"
  PROVE  Fits(t, "session", msg, d)
<1>1. /\ Waiting(c) /\ InSession(msg, c) /\ c.owner = t /\ Commands(Tail(c.up))
      /\ Known(msg, c) \/ Denied(msg, c)
  BY SessionAsks
<1>2. Answers(d.down)
  BY <1>1, AnswersAppend DEF InSession, Waiting, HasFields
<1>3. Known(msg, d) \/ Denied(msg, d)
  <2>1. CASE Known(msg, c)
    <3>1. c.state = 2 /\ c.name = msg.name
      BY <2>1 DEF Known
    <3> QED BY <1>1, <2>1, <3>1, KnownAnswered
  <2>2. CASE Denied(msg, c)
    BY <1>1, <2>2, DeniedAnswered
  <2> QED BY <1>1, <2>1, <2>2
<1> QED BY <1>1, <1>2, <1>3 DEF Fits, InSession, Served

(* A token that is taken has no answer.                                    *)
LEMMA TokenTaken ==
  ASSUME NEW t, NEW msg, NEW c, Fits(t, "session", msg, c), Proving(msg, c),
         c.up # <<>>, c.server = "open",
         NEW e, NEW d, Served(c, d, e), d.down = c.down,
         e.state = 2, e.name = msg.name, e.code = Atoi(msg.passward)
  PROVE  Fits(t, "session", msg, d)
<1>1. /\ InSession(msg, c) /\ c.owner = t /\ Commands(Tail(c.up))
  BY SessionAsks
<1>2. d.down = <<>> /\ Len(d.down) = 0 /\ e.code = msg.passward
  BY <1>1, Short DEF Proving, InSession, IsCode
<1>3. Known(msg, d) /\ Answers(d.down)
  BY <1>1, <1>2 DEF Known, Served, Answers
<1> QED BY <1>1, <1>3 DEF Fits, InSession, Served

LEMMA TokenRefused ==
  ASSUME NEW t, NEW msg, NEW c, Fits(t, "session", msg, c), Proving(msg, c),
         c.up # <<>>, c.server = "open",
         NEW e, NEW d, Served(c, d, e),
         NEW m, d.down = Append(c.down, m), m.ctl_code = "REGISTER_NO"
  PROVE  Fits(t, "session", msg, d)
<1>1. InSession(msg, c) /\ c.owner = t /\ Commands(Tail(c.up))
  BY SessionAsks
<1>2. IsSeq(<<>>) /\ Len(<<>>) = 0
  BY Short
<1>3. Len(d.down) = 1 /\ d.down[1] = m
  BY <1>2, AppendOf DEF Proving
<1>4. Denied(msg, d) /\ Answers(d.down)
  BY <1>1, <1>3 DEF Denied, Served, Answers
<1> QED BY <1>1, <1>4 DEF Fits, InSession, Served

(* The same of the entry a request leaves.                                 *)
LEMMA DialogueServed ==
  ASSUME NEW t, NEW msg, NEW c, Fits(t, "dialogue", msg, c), c.up # <<>>,
         NEW st, NEW nm, NEW e, e = Entry(c, st, nm, c.code), NEW m,
         \/ m.ctl_code \in {"LOGIN_NO", "LOGIN_POK", "REGISTER_NO", "REGISTER_POK"}
         \/ m.ctl_code = "REGISTER_OK" /\ st = 2 /\ nm = msg.name
  PROVE  Fits(t, "dialogue", msg, Queued(e, <<m>>))
<1>1. Waiting(c) /\ c.code = Root
  BY DialogueAsks
<1>2. Alike(c, e) /\ e.state = st /\ e.name = nm /\ e.code = c.code
  BY EntryFields
<1>3. Served(c, Queued(e, <<m>>), e) /\ Queued(e, <<m>>).down = Append(c.down, m)
  BY <1>1, <1>2, OneReply
<1> QED BY <1>1, <1>2, <1>3, DialogueAnswered

(* One lemma for each request a client makes on its own connection.        *)
LEMMA LoginPreFits ==
  ASSUME NEW t, NEW msg, NEW k \in Conn, Fits(t, "dialogue", msg, conn[k]),
         LoginPre(k)
  PROVE  \E d : conn' = [conn EXCEPT ![k] = d] /\ Fits(t, "dialogue", msg, d)
<1> DEFINE c == conn[k]
           e == Unproved(k, Content(k))
<1>1. c.up # <<>> /\ HasFields(c)
  BY DEF LoginPre, Request, Fits
<1>2. e = AsUser(c, 1, Content(k))
  BY DEF Unproved, AsUser
<1>3. e = Entry(c, 1, Content(k), c.code)
  BY <1>1, <1>2, Entries
<1>4. ASSUME NEW m, m.ctl_code \in {"LOGIN_NO", "LOGIN_POK"}, Answer(k, e, <<m>>)
      PROVE  \E d : conn' = [conn EXCEPT ![k] = d] /\ Fits(t, "dialogue", msg, d)
  <2>1. conn' = [conn EXCEPT ![k] = Queued(e, <<m>>)]
    BY <1>4 DEF Answer, Queued
  <2>2. Fits(t, "dialogue", msg, Queued(e, <<m>>))
    BY <1>1, <1>3, <1>4, DialogueServed
  <2> QED BY <2>1, <2>2
<1>5. CASE Content(k) \in Registered
  <2>1. Answer(k, e, <<Message("LOGIN_NO", None)>>)
    BY <1>5 DEF LoginPre
  <2>2. Message("LOGIN_NO", None).ctl_code = "LOGIN_NO"
    BY DEF Message
  <2> QED BY <1>4, <2>1, <2>2
<1>6. CASE Content(k) \notin Registered
  <2>1. PICK salt \in Salt : Answer(k, e, <<Message("LOGIN_POK", salt)>>)
    BY <1>6 DEF LoginPre
  <2>2. Message("LOGIN_POK", salt).ctl_code = "LOGIN_POK"
    BY DEF Message
  <2> QED BY <1>4, <2>1, <2>2
<1> QED BY <1>5, <1>6

LEMMA RegisterPreFits ==
  ASSUME NEW t, NEW msg, NEW k \in Conn, Fits(t, "dialogue", msg, conn[k]),
         RegisterPre(k)
  PROVE  \E d : conn' = [conn EXCEPT ![k] = d] /\ Fits(t, "dialogue", msg, d)
<1> DEFINE c == conn[k]
           e == Unproved(k, Content(k))
<1>1. c.up # <<>> /\ HasFields(c)
  BY DEF RegisterPre, Request, Fits
<1>2. e = AsUser(c, 1, Content(k))
  BY DEF Unproved, AsUser
<1>3. e = Entry(c, 1, Content(k), c.code)
  BY <1>1, <1>2, Entries
<1>4. ASSUME NEW m, m.ctl_code \in {"REGISTER_NO", "REGISTER_POK"}, Answer(k, e, <<m>>)
      PROVE  \E d : conn' = [conn EXCEPT ![k] = d] /\ Fits(t, "dialogue", msg, d)
  <2>1. conn' = [conn EXCEPT ![k] = Queued(e, <<m>>)]
    BY <1>4 DEF Answer, Queued
  <2>2. Fits(t, "dialogue", msg, Queued(e, <<m>>))
    BY <1>1, <1>3, <1>4, DialogueServed
  <2> QED BY <2>1, <2>2
<1>5. CASE Content(k) \in Registered
  <2> DEFINE m == Message("REGISTER_POK", accounts[Content(k)].salt)
  <2>1. Answer(k, e, <<m>>)
    BY <1>5 DEF RegisterPre
  <2>2. m.ctl_code = "REGISTER_POK"
    BY DEF Message
  <2> HIDE DEF m
  <2> QED BY <1>4, <2>1, <2>2
<1>6. CASE Content(k) \notin Registered
  <2>1. Answer(k, e, <<Message("REGISTER_NO", None)>>)
    BY <1>6 DEF RegisterPre
  <2>2. Message("REGISTER_NO", None).ctl_code = "REGISTER_NO"
    BY DEF Message
  <2> QED BY <1>4, <2>1, <2>2
<1> QED BY <1>5, <1>6

LEMMA RegisterQFits ==
  ASSUME NEW t, NEW msg, NEW k \in Conn, Fits(t, "dialogue", msg, conn[k]),
         RegisterQ(k)
  PROVE  \E d : conn' = [conn EXCEPT ![k] = d] /\ Fits(t, "dialogue", msg, d)
<1> DEFINE c == conn[k]
           n == Content(k).name
<1>1. c.up # <<>> /\ HasFields(c) /\ Head(c.up).ctl_code = "REGISTER_Q"
  BY DEF RegisterQ, Request, Fits
<1>2. n = msg.name
  BY <1>1, DialogueAsks DEF Asking, Content
<1>3. CASE Matches(Content(k))
  <2> DEFINE e == AsUser(c, 2, n)
             m == Message("REGISTER_OK", None)
  <2>1. Answer(k, e, <<m>>)
    BY <1>3 DEF RegisterQ, AsUser
  <2>2. m.ctl_code = "REGISTER_OK"
    BY DEF Message
  <2> HIDE DEF m
  <2>3. conn' = [conn EXCEPT ![k] = Queued(e, <<m>>)]
    BY <2>1 DEF Answer, Queued
  <2>4. e = Entry(c, 2, n, c.code)
    BY <1>1, Entries
  <2>5. Fits(t, "dialogue", msg, Queued(e, <<m>>))
    BY <1>1, <1>2, <2>2, <2>4, DialogueServed
  <2> QED BY <2>3, <2>5
<1>4. CASE ~Matches(Content(k))
  <2> DEFINE m == Message("REGISTER_NO", None)
  <2>1. Answer(k, c, <<m>>)
    BY <1>4 DEF RegisterQ
  <2>2. m.ctl_code = "REGISTER_NO"
    BY DEF Message
  <2> HIDE DEF m
  <2>3. conn' = [conn EXCEPT ![k] = Queued(c, <<m>>)]
    BY <2>1 DEF Answer, Queued
  <2>4. c = Entry(c, c.state, c.name, c.code)
    BY <1>1, Entries
  <2>5. Fits(t, "dialogue", msg, Queued(c, <<m>>))
    BY <1>1, <2>2, <2>4, DialogueServed
  <2> QED BY <2>3, <2>5
<1> QED BY <1>3, <1>4

LEMMA OperateQFits ==
  ASSUME NEW t, NEW msg, NEW k \in Conn, Fits(t, "session", msg, conn[k]),
         OperateQ(k)
  PROVE  \E d : conn' = [conn EXCEPT ![k] = d] /\ Fits(t, "session", msg, d)
<1> DEFINE c == conn[k]
           code == IF Content(k) = "/" THEN Root ELSE <<conn[k].name>>
<1>1. /\ c.up # <<>> /\ HasFields(c) /\ Head(c.up).ctl_code # "TOKEN_PLESE"
      /\ c.server = "open"
  BY DEF OperateQ, Request, Fits
<1>2. Waiting(c)
  BY <1>1, SessionAsks
<1>3. CASE c.state = 2
  <2> DEFINE e == Moved(c, code)
             m == Message("OPERATE_OK", code)
  <2>1. Answer(k, e, <<m>>)
    BY <1>3 DEF OperateQ, Moved
  <2>2. IsCode(code)
    BY DEF IsCode, Atoi, Root
  <2>3. m.ctl_code = "OPERATE_OK" /\ m.buf = code
    BY DEF Message
  <2> HIDE DEF m, code
  <2>4. conn' = [conn EXCEPT ![k] = Queued(e, <<m>>)]
    BY <2>1 DEF Answer, Queued
  <2>5. e = Entry(c, c.state, c.name, code)
    BY <1>1, Entries
  <2> HIDE DEF e
  <2>6. Alike(c, e) /\ e.state = 2 /\ e.name = c.name /\ e.code = code
    BY <1>3, <2>5, EntryFields
  <2>7. Served(c, Queued(e, <<m>>), e) /\ Queued(e, <<m>>).down = Append(c.down, m)
    BY <1>2, <2>6, OneReply
  <2>8. Fits(t, "session", msg, Queued(e, <<m>>))
    BY <1>1, <1>3, <2>2, <2>3, <2>6, <2>7, CommandAnswered
  <2> QED BY <2>4, <2>8
<1>4. CASE c.state # 2
  <2> DEFINE m == Message("REGISTER_NO", None)
  <2>1. Answer(k, c, <<m>>)
    BY <1>4 DEF OperateQ
  <2>2. m.ctl_code = "REGISTER_NO"
    BY DEF Message
  <2> HIDE DEF m
  <2>3. conn' = [conn EXCEPT ![k] = Queued(c, <<m>>)]
    BY <2>1 DEF Answer, Queued
  <2>4. Alike(c, c)
    BY <1>1, Entries, EntryFields
  <2>5. Served(c, Queued(c, <<m>>), c) /\ Queued(c, <<m>>).down = Append(c.down, m)
    BY <1>2, <2>4, OneReply
  <2>6. Fits(t, "session", msg, Queued(c, <<m>>))
    BY <1>1, <1>4, <2>2, <2>5, CommandAnswered
  <2> QED BY <2>3, <2>6
<1> QED BY <1>3, <1>4

LEMMA DownloadPreFits ==
  ASSUME NEW t, NEW msg, NEW k \in Conn, Fits(t, "session", msg, conn[k]),
         DownloadPre(k)
  PROVE  \E d : conn' = [conn EXCEPT ![k] = d] /\ Fits(t, "session", msg, d)
<1> DEFINE c == conn[k]
           m == IF c.state = 2 THEN Message("DOWNLOAD_POK", None)
                               ELSE Message("REGISTER_NO", None)
<1>1. /\ c.up # <<>> /\ HasFields(c) /\ Head(c.up).ctl_code # "TOKEN_PLESE"
      /\ c.server = "open"
  BY DEF DownloadPre, Request, Fits
<1>2. Waiting(c)
  BY <1>1, SessionAsks
<1>3. Answer(k, c, <<m>>)
  <2>1. CASE c.state = 2
    BY <2>1 DEF DownloadPre
  <2>2. CASE c.state # 2
    BY <2>2 DEF DownloadPre
  <2> QED BY <2>1, <2>2
<1>4. IF c.state = 2 THEN m.ctl_code = "DOWNLOAD_POK" ELSE m.ctl_code = "REGISTER_NO"
  BY DEF Message
<1> HIDE DEF m
<1>5. conn' = [conn EXCEPT ![k] = Queued(c, <<m>>)]
  BY <1>3 DEF Answer, Queued
<1>6. Alike(c, c)
  BY <1>1, Entries, EntryFields
<1>7. Served(c, Queued(c, <<m>>), c) /\ Queued(c, <<m>>).down = Append(c.down, m)
  BY <1>2, <1>6, OneReply
<1>8. Fits(t, "session", msg, Queued(c, <<m>>))
  BY <1>1, <1>4, <1>7, CommandAnswered
<1> QED BY <1>5, <1>8

LEMMA TokenPleseFits ==
  ASSUME NEW t, NEW msg, NEW k \in Conn, Fits(t, "session", msg, conn[k]),
         conn = [j \in Conn |-> conn[j]], TokenPlese(k)
  PROVE  \E d : conn' = [conn EXCEPT ![k] = d] /\ Fits(t, "session", msg, d)
<1> DEFINE c == conn[k]
           q == Content(k)
           known == q.name \in Registered
           entry == Presented(c, q.name, Atoi(q.passward))
           taken == Accepted(entry)
           m == Message("REGISTER_NO", None)
<1>1. /\ c.up # <<>> /\ HasFields(c) /\ Head(c.up).ctl_code = "TOKEN_PLESE"
      /\ c.server = "open"
  BY DEF TokenPlese, Request, Fits
<1>2. Waiting(c) /\ Proving(msg, c) /\ q = msg
  BY <1>1, SessionAsks DEF Proving, Content
<1>3. \/ UNCHANGED conn
      \/ Answer(k, taken, <<>>)
      \/ Answer(k, entry, <<m>>)
  BY DEF TokenPlese, TokenEntry, Presented, Accepted
<1>4. CASE UNCHANGED conn
  <2>1. conn' = [conn EXCEPT ![k] = c]
    BY <1>4
  <2> QED BY <2>1
<1>5. CASE Answer(k, taken, <<>>)
  <2>1. conn' = [conn EXCEPT ![k] = Queued(taken, <<>>)]
    BY <1>5 DEF Answer, Queued
  <2>2. taken = Entry(c, 2, q.name, Atoi(q.passward))
    BY <1>1, Entries
  <2> HIDE DEF taken
  <2>3. Alike(c, taken) /\ taken.state = 2 /\ taken.name = msg.name
        /\ taken.code = Atoi(msg.passward)
    BY <1>2, <2>2, EntryFields
  <2>4. Served(c, Queued(taken, <<>>), taken) /\ Queued(taken, <<>>).down = c.down
    BY <1>2, <2>3, NoReply
  <2>5. Fits(t, "session", msg, Queued(taken, <<>>))
    BY <1>1, <1>2, <2>3, <2>4, TokenTaken
  <2> QED BY <2>1, <2>5
<1>6. CASE Answer(k, entry, <<m>>)
  <2>1. conn' = [conn EXCEPT ![k] = Queued(entry, <<m>>)]
    BY <1>6 DEF Answer, Queued
  <2>2. entry = Entry(c, c.state, q.name, Atoi(q.passward))
    BY <1>1, Entries
  <2>3. m.ctl_code = "REGISTER_NO"
    BY DEF Message
  <2> HIDE DEF entry, m
  <2>4. Alike(c, entry)
    BY <2>2, EntryFields
  <2>5. Served(c, Queued(entry, <<m>>), entry) /\ Queued(entry, <<m>>).down = Append(c.down, m)
    BY <1>2, <2>4, OneReply
  <2>6. Fits(t, "session", msg, Queued(entry, <<m>>))
    BY <1>1, <1>2, <2>3, <2>5, TokenRefused
  <2> QED BY <2>1, <2>6
<1> QED BY <1>3, <1>4, <1>5, <1>6

(* The other requests are never on the own connection of a client.         *)
LEMMA ServeFits ==
  ASSUME NEW t, NEW where, NEW msg, NEW k \in Conn, Fits(t, where, msg, conn[k]),
         conn = [j \in Conn |-> conn[j]], Serve(k)
  PROVE  \E d : conn' = [conn EXCEPT ![k] = d] /\ Fits(t, where, msg, d)
<1> DEFINE c == conn[k]
           ctl == Head(c.up).ctl_code
<1>1. CASE where = "dialogue"
  <2>1. c.up # <<>> => ctl \in {"LOGIN_PRE", "REGISTER_PRE", "REGISTER_Q"}
    BY <1>1, DialogueAsks DEF Asking
  <2>2. LoginPre(k) \/ RegisterPre(k) \/ RegisterQ(k)
    BY <2>1 DEF Serve, Fits, LoginQ, TokenPlese, OperateQ, DownloadPre,
       DownloadQ, ClientQuit, Request
  <2> QED BY <1>1, <2>2, LoginPreFits, RegisterPreFits, RegisterQFits
<1>2. CASE where = "session"
  <2>1. c.up # <<>> /\ c.server = "open"
          => ctl \in {"TOKEN_PLESE", "OPERATE_Q", "DOWNLOAD_PRE"}
    BY <1>2, SessionAsks
  <2>2. TokenPlese(k) \/ OperateQ(k) \/ DownloadPre(k)
    BY <2>1 DEF Serve, Fits, LoginPre, LoginQ, RegisterPre, RegisterQ,
       DownloadQ, ClientQuit, Request
  <2> QED BY <1>2, <2>2, TokenPleseFits, OperateQFits, DownloadPreFits
<1> QED BY <1>1, <1>2 DEF Fits

(* The wheel closes the connection of a session.                           *)
LEMMA ExpiredFits ==
  ASSUME NEW t, NEW msg, NEW c, Fits(t, "session", msg, c)
  PROVE  Fits(t, "session", msg, Expired(c))
<1> DEFINE s == IF c.up = <<>> THEN "fin" ELSE "rst"
           d == [owner |-> c.owner, transfer |-> c.transfer, up |-> <<>>,
                 down |-> c.down, peer |-> c.peer, server |-> s,
                 state |-> 0, name |-> c.name, code |-> Root]
<1>1. HasFields(c) /\ c.peer = "open" /\ c.owner = t /\ InSession(msg, c)
  BY DEF Fits
<1>2. Expired(c) = d
  BY <1>1 DEF Expired, HasFields
<1>3. IsSeq(<<>>)
  BY Short
<1>4. HasFields(d)
  BY <1>1, <1>3 DEF HasFields
<1>5. InSession(msg, d)
  BY <1>1 DEF InSession
<1> QED BY <1>1, <1>2, <1>4, <1>5 DEF Fits

-----------------------------------------------------------------------------
(* Whose connection changes *)

(* A step of the server changes one connection and no client.              *)
LEMMA ServerStep ==
  ASSUME NEW k \in Conn, Serve(k) \/ Timeout(k), AreFunctions
  PROVE  /\ UNCHANGED <<at, login_msg, cFd>>
         /\ \E d : conn' = [conn EXCEPT ![k] = d]
<1>1. UNCHANGED <<at, login_msg, cFd>>
  BY DEF Serve, Timeout, LoginPre, LoginQ, RegisterPre, RegisterQ, TokenPlese,
     OperateQ, DownloadPre, DownloadQ, ClientQuit, Request, clientVars
<1>2. UNCHANGED conn => conn' = [conn EXCEPT ![k] = conn[k]]
  BY DEF AreFunctions
<1>3. \E d : conn' = [conn EXCEPT ![k] = d]
  BY <1>2 DEF Serve, Timeout, LoginPre, LoginQ, RegisterPre, RegisterQ, TokenPlese,
     OperateQ, DownloadPre, DownloadQ, ClientQuit, Answer
<1> QED BY <1>1, <1>3

(* Whichever connection the server takes up, all clients still fit.        *)
LEMMA ServerKeeps ==
  ASSUME Timely, SessionsFit, NEW k \in Conn, Serve(k) \/ Timeout(k)
  PROVE  SessionsFit'
<1>1. UNCHANGED <<at, login_msg, cFd>>
  BY ServerStep DEF SessionsFit
<1>2. PICK d : conn' = [conn EXCEPT ![k] = d]
  BY ServerStep DEF SessionsFit
<1>3. AreFunctions'
  BY <1>1, <1>2 DEF SessionsFit, AreFunctions
<1>4. ASSUME NEW t \in Terminal, Live(t), cFd[t] = k
      PROVE  Fits(t, at[t], login_msg[t], d)
  <2>1. Fits(t, at[t], login_msg[t], conn[k]) /\ conn = [j \in Conn |-> conn[j]]
    BY <1>4 DEF SessionsFit, OwnFits, AreFunctions
  <2>2. conn'[k] = d
    BY <1>2, <2>1
  <2>3. CASE Serve(k)
    <3>1. PICK e : conn' = [conn EXCEPT ![k] = e] /\ Fits(t, at[t], login_msg[t], e)
      BY <2>1, <2>3, ServeFits
    <3>2. conn'[k] = e
      BY <3>1, <2>1
    <3> QED BY <2>2, <3>1, <3>2
  <2>4. CASE Timeout(k)
    <3>1. conn[k].owner = t /\ ~InDialogue(k) /\ conn'[k] = Expired(conn[k])
      BY <2>1, <2>4 DEF Timeout, Fits
    <3>2. at[t] = "session"
      BY <1>4, <3>1 DEF InDialogue, Live
    <3> QED BY <2>1, <2>2, <3>1, <3>2, ExpiredFits
  <2> QED BY <2>3, <2>4
<1>5. ASSUME NEW t \in Terminal PROVE OwnFits(t)'
  <2>1. CASE Live(t) /\ cFd[t] = k
    BY <1>1, <1>2, <1>4, <2>1 DEF OwnFits, Live, SessionsFit, AreFunctions
  <2>2. CASE Live(t) /\ cFd[t] # k
    <3>1. cFd[t] \in Conn /\ Fits(t, at[t], login_msg[t], conn[cFd[t]])
      BY <2>2 DEF SessionsFit, OwnFits
    <3>2. conn'[cFd[t]] = conn[cFd[t]]
      BY <1>2, <2>2, <3>1 DEF SessionsFit, AreFunctions
    <3> QED BY <1>1, <2>2, <3>1, <3>2 DEF OwnFits, Live
  <2>3. CASE ~Live(t)
    BY <1>1, <2>3 DEF OwnFits, Live, SessionsFit
  <2> QED BY <2>1, <2>2, <2>3
<1> QED BY <1>3, <1>5 DEF SessionsFit

(* A step of a client changes nothing of the others.                       *)
LEMMA ClientFrame ==
  ASSUME SessionsFit, NEW t \in Terminal, AreFunctions', OwnFits(t)',
         \A u \in Terminal \ {t} : /\ at'[u] = at[u] /\ cFd'[u] = cFd[u]
                                   /\ login_msg'[u] = login_msg[u],
         \A j \in Conn : conn[j].owner \notin {t, None} => conn'[j] = conn[j]
  PROVE  SessionsFit'
<1> SUFFICES ASSUME NEW u \in Terminal, u # t  PROVE OwnFits(u)'
  BY DEF SessionsFit
<1>1. CASE Live(u)
  <2>1. cFd[u] \in Conn /\ Fits(u, at[u], login_msg[u], conn[cFd[u]])
    BY <1>1 DEF SessionsFit, OwnFits
  <2>2. conn[cFd[u]].owner = u /\ u # None
    BY <2>1, AccountsAssumption DEF Fits
  <2>3. conn'[cFd[u]] = conn[cFd[u]]
    BY <2>1, <2>2
  <2> QED BY <1>1, <2>1, <2>3 DEF OwnFits, Live
<1>2. CASE ~Live(u)
  BY <1>2 DEF OwnFits, Live, SessionsFit
<1> QED BY <1>1, <1>2

(* The number a client or a thread gets is of a connection that is not in  *)
(* use.                                                                    *)
LEMMA LeastFree ==
  ASSUME Free # {}
  PROVE  Least(Free) \in Conn /\ conn[Least(Free)] = NoConn
<1>1. Free \subseteq Nat
  BY AccountsAssumption DEF Free
<1>2. PICK x \in Free : \A y \in Free : <<y, x>> \notin OpToRel(<, Nat)
  BY <1>1, WFMin, NatLessThanWellFounded, Zenon
<1>3. \A y \in Free : ~(y < x)
  BY <1>1, <1>2 DEF OpToRel
<1>4. \A y \in Free : x <= y
  BY <1>1, <1>3
<1>5. Least(Free) \in Free
  BY <1>4 DEF Least
<1> QED BY <1>5 DEF Free

-----------------------------------------------------------------------------
(* The client's steps *)

(* What a client reads from.                                               *)
LEMMA Replying ==
  ASSUME SessionsFit, NEW t \in Terminal, Live(t), conn[cFd[t]].down # <<>>
  PROVE  LET c == conn[cFd[t]] IN
         /\ cFd[t] \in Conn /\ HasFields(c) /\ c.owner = t /\ c.peer = "open"
         /\ Head(c.down) = c.down[1] /\ Len(c.down) > 0
         /\ \/ /\ at[t] = "dialogue" /\ c.server = "open" /\ c.code = Root
               /\ Answered(login_msg[t], c)
            \/ at[t] = "session" /\ InSession(login_msg[t], c)
<1>1. cFd[t] \in Conn /\ Fits(t, at[t], login_msg[t], conn[cFd[t]])
  BY DEF SessionsFit, OwnFits
<1>2. Head(conn[cFd[t]].down) = conn[cFd[t]].down[1] /\ Len(conn[cFd[t]].down) > 0
  BY <1>1, TailOf DEF Fits, HasFields
<1> QED BY <1>1, <1>2 DEF Fits, Asking

(* The connection when its first reply has been read.                      *)
Read(c) == [c EXCEPT !.down = Tail(@)]

LEMMA ReadIs ==
  ASSUME NEW c, HasFields(c), c.down # <<>>
  PROVE  /\ HasFields(Read(c)) /\ Read(c).owner = c.owner /\ Read(c).peer = c.peer
         /\ Read(c).server = c.server /\ Read(c).state = c.state
         /\ Read(c).name = c.name /\ Read(c).code = c.code /\ Read(c).up = c.up
         /\ Read(c).down = Tail(c.down)
<1>1. PICK v : v = Tail(c.down)
  OBVIOUS
<1>2. IsSeq(v)
  BY <1>1, TailOf DEF HasFields
<1>3. Read(c) = [c EXCEPT !.down = v]
  BY <1>1 DEF Read
<1>4. PICK r : r = c
  OBVIOUS
<1>5. r = [owner |-> c.owner, transfer |-> c.transfer, up |-> c.up,
           down |-> c.down, peer |-> c.peer, server |-> c.server,
           state |-> c.state, name |-> c.name, code |-> c.code]
  BY <1>4 DEF HasFields
<1>6. [r EXCEPT !.down = v] =
        [owner |-> c.owner, transfer |-> c.transfer, up |-> c.up,
         down |-> v, peer |-> c.peer, server |-> c.server,
         state |-> c.state, name |-> c.name, code |-> c.code]
  BY <1>5
<1>7. Read(c) = [owner |-> c.owner, transfer |-> c.transfer, up |-> c.up,
         down |-> v, peer |-> c.peer, server |-> c.server,
         state |-> c.state, name |-> c.name, code |-> c.code]
  BY <1>3, <1>4, <1>6
<1> QED BY <1>1, <1>2, <1>7 DEF HasFields

LEMMA ReadDialogue ==
  ASSUME NEW msg, NEW c, HasFields(c), Answered(msg, c)
  PROVE  Tail(c.down) = <<>> /\ c.up = <<>>
<1>1. c.down # <<>> /\ Len(c.down) = 1
  BY Short DEF Answered
<1>2. IsSeq(Tail(c.down)) /\ Len(Tail(c.down)) = 0
  BY <1>1, TailOf DEF HasFields
<1> QED BY <1>2, Empty DEF Answered

(* A reply to a command, and where it leaves the client and the server.    *)
LEMMA ReadSession ==
  ASSUME NEW t, NEW msg, NEW c, Fits(t, "session", msg, c), c.down # <<>>,
         NEW new, new.name = msg.name,
         \/ /\ c.down[1].ctl_code = "OPERATE_OK"
            /\ new.passward = c.down[1].buf
         \/ c.down[1].ctl_code = "DOWNLOAD_POK" /\ new.passward = msg.passward
  PROVE  Fits(t, "session", new, Read(c))
<1> DEFINE d == Read(c)
<1>1. HasFields(c) /\ c.owner = t /\ c.peer = "open" /\ InSession(msg, c)
  BY DEF Fits
<1>2. /\ HasFields(d) /\ d.owner = c.owner /\ d.peer = c.peer
      /\ d.server = c.server /\ d.state = c.state
      /\ d.name = c.name /\ d.code = c.code /\ d.up = c.up
      /\ d.down = Tail(c.down)
  BY <1>1, ReadIs
<1> HIDE DEF d
<1>3. /\ Len(d.down) = Len(c.down) - 1 /\ Len(c.down) \in Nat /\ Len(c.down) > 0
      /\ \A i \in 1..Len(d.down) : d.down[i] = c.down[i + 1]
  BY <1>1, <1>2, TailOf DEF HasFields, IsSeq
<1>4. Answers(d.down)
  BY <1>1, <1>2, AnswersTail DEF InSession, HasFields
<1>5. IsCode(new.passward)
  BY <1>1, <1>3 DEF InSession, Answers
<1>6. ASSUME c.server = "open"  PROVE Known(new, d)
  <2>1. Known(msg, c)
    BY <1>1, <1>6 DEF InSession, Proving, Denied
  <2>2. PICK i \in 0..Len(c.down) : LastCode(msg, c, i)
    BY <2>1 DEF Known, LastCode
  <2>3. \E j \in 0..Len(d.down) : LastCode(new, d, j)
    <3>1. CASE i > 1
      <4>1. i - 1 \in 0..Len(d.down) /\ i - 1 \in 1..Len(d.down)
        BY <1>3, <3>1
      <4>2. d.down[i - 1] = c.down[i]
        BY <1>3, <4>1
      <4>3. ASSUME NEW j \in (i - 1) + 1..Len(d.down)
            PROVE  d.down[j].ctl_code = "DOWNLOAD_POK"
        <5>1. j \in 1..Len(d.down) /\ j + 1 \in i + 1..Len(c.down)
          BY <1>3, <3>1
        <5> QED BY <1>3, <2>2, <5>1 DEF LastCode
      <4>4. LastCode(new, d, i - 1)
        BY <1>2, <2>2, <3>1, <4>2, <4>3 DEF LastCode
      <4> QED BY <4>1, <4>4
    <3>2. CASE i = 1 \/ i = 0
      <4>1. d.code = new.passward
        BY <1>2, <1>3, <2>2, <3>2 DEF LastCode
      <4>2. ASSUME NEW j \in 1..Len(d.down)
            PROVE  d.down[j].ctl_code = "DOWNLOAD_POK"
        <5>1. j + 1 \in i + 1..Len(c.down)
          BY <1>3, <3>2
        <5> QED BY <1>3, <2>2, <5>1 DEF LastCode
      <4>3. LastCode(new, d, 0)
        BY <4>1, <4>2 DEF LastCode
      <4> QED BY <1>3, <4>3
    <3> QED BY <3>1, <3>2
  <2>4. \A j \in 1..Len(d.down) : d.down[j].ctl_code # "REGISTER_NO"
    BY <1>3, <2>1 DEF Known
  <2> QED BY <1>2, <2>1, <2>3, <2>4 DEF Known, LastCode
<1> QED BY <1>1, <1>2, <1>4, <1>5, <1>6 DEF Fits, InSession, d

LEMMA ConnectionIs ==
  ASSUME NEW t, NEW transfer, NEW ms, IsSeq(ms), NEW c, c = Connection(t, transfer, ms)
  PROVE  /\ HasFields(c) /\ c.owner = t /\ c.peer = "open" /\ c.server = "open"
         /\ c.up = ms /\ c.down = <<>> /\ c.code = Root
<1>1. PICK e, no : e = <<>> /\ no = FALSE
  OBVIOUS
<1> DEFINE r0 == [owner |-> None, transfer |-> no, up |-> e, down |-> e,
                     peer |-> "closed", server |-> "closed", state |-> 0,
                     name |-> None, code |-> Root]
           r1 == [owner |-> t, transfer |-> no, up |-> e, down |-> e,
                     peer |-> "closed", server |-> "closed", state |-> 0,
                     name |-> None, code |-> Root]
           r2 == [owner |-> t, transfer |-> transfer, up |-> e, down |-> e,
                     peer |-> "closed", server |-> "closed", state |-> 0,
                     name |-> None, code |-> Root]
           r3 == [owner |-> t, transfer |-> transfer, up |-> ms, down |-> e,
                     peer |-> "closed", server |-> "closed", state |-> 0,
                     name |-> None, code |-> Root]
           r4 == [owner |-> t, transfer |-> transfer, up |-> ms, down |-> e,
                     peer |-> "open", server |-> "closed", state |-> 0,
                     name |-> None, code |-> Root]
           r5 == [owner |-> t, transfer |-> transfer, up |-> ms, down |-> e,
                     peer |-> "open", server |-> "open", state |-> 0,
                     name |-> None, code |-> Root]
           r6 == [owner |-> t, transfer |-> transfer, up |-> ms, down |-> e,
                     peer |-> "open", server |-> "open", state |-> 1,
                     name |-> None, code |-> Root]
<1>2. NoConn = r0
  BY <1>1 DEF NoConn
<1>3. [r0 EXCEPT !.owner = t] = r1
  OBVIOUS
<1>4. [r1 EXCEPT !.transfer = transfer] = r2
  OBVIOUS
<1>5. [r2 EXCEPT !.up = ms] = r3
  OBVIOUS
<1>6. /\ [r3 EXCEPT !.peer = "open"] = r4
      /\ [r4 EXCEPT !.server = "open"] = r5
      /\ [r5 EXCEPT !.state = 1] = r6
  OBVIOUS
<1>7. Connection(t, transfer, ms) = [r0 EXCEPT !.owner = t, !.transfer = transfer,
        !.up = ms, !.peer = "open", !.server = "open", !.state = 1]
  BY <1>2 DEF Connection
<1> HIDE DEF r0, r1, r2, r3, r4, r5
<1>8. c = r6
  BY <1>5, <1>6, <1>7, <1>3, <1>4
<1>9. IsSeq(e)
  BY <1>1, Short
<1> QED BY <1>1, <1>8, <1>9 DEF HasFields

(* A connection made anew begins with the token.                           *)
Anew(t, ms) == Connection(t, FALSE, ms)

LEMMA RenewedFits ==
  ASSUME NEW t, NEW msg, IsCode(msg.passward), NEW ms, IsSeq(ms), Len(ms) > 0,
         ms[1].ctl_code = "TOKEN_PLESE", ms[1].buf = msg,
         \A i \in 2..Len(ms) : ms[i].ctl_code \in {"OPERATE_Q", "DOWNLOAD_PRE"}
  PROVE  Fits(t, "session", msg, Anew(t, ms))
<1>1. PICK no, c : no = FALSE /\ c = Connection(t, no, ms)
  OBVIOUS
<1>2. c = Anew(t, ms)
  BY <1>1, Zenon DEF Anew
<1>3. /\ HasFields(c) /\ c.owner = t /\ c.peer = "open" /\ c.server = "open"
      /\ c.up = ms /\ c.down = <<>> /\ c.code = Root
  BY <1>1, ConnectionIs
<1>4. Proving(msg, c) /\ Answers(c.down)
  BY <1>3, Short DEF Proving, Answers
<1>5. Fits(t, "session", msg, c)
  BY <1>3, <1>4 DEF Fits, InSession
<1> QED BY <1>2, <1>5, Zenon

(* A command that is sent on a connection that is open.                    *)
LEMMA SentFits ==
  ASSUME NEW t, NEW msg, NEW c, Fits(t, "session", msg, c), c.server = "open",
         NEW m, m.ctl_code \in {"OPERATE_Q", "DOWNLOAD_PRE"}
  PROVE  Fits(t, "session", msg, Sent(c, m))
<1>1. HasFields(c) /\ c.owner = t /\ c.peer = "open" /\ InSession(msg, c)
  BY DEF Fits
<1>2. PICK v : v = Append(c.up, m)
  OBVIOUS
<1>3. /\ IsSeq(v) /\ Len(v) = Len(c.up) + 1 /\ Len(c.up) \in Nat
      /\ \A i \in 1..Len(c.up) : v[i] = c.up[i]
      /\ v[Len(c.up) + 1] = m
  BY <1>1, <1>2, AppendOf DEF HasFields, IsSeq
<1>4. PICK d : d = [owner |-> c.owner, transfer |-> c.transfer, up |-> v,
                    down |-> c.down, peer |-> c.peer, server |-> c.server,
                    state |-> c.state, name |-> c.name, code |-> c.code]
  OBVIOUS
<1>5. Sent(c, m) = d
  <2>1. PICK r : r = c
    OBVIOUS
  <2>2. r = [owner |-> c.owner, transfer |-> c.transfer, up |-> c.up,
             down |-> c.down, peer |-> c.peer, server |-> c.server,
             state |-> c.state, name |-> c.name, code |-> c.code]
    BY <1>1, <2>1 DEF HasFields
  <2>3. [r EXCEPT !.up = v] = d
    BY <1>4, <2>2
  <2>4. Sent(c, m) = [c EXCEPT !.up = v]
    BY <1>2 DEF Sent
  <2> QED BY <2>1, <2>3, <2>4
<1>6. HasFields(d)
  BY <1>1, <1>3, <1>4 DEF HasFields
<1>7. d.up = v /\ d.down = c.down /\ d.server = c.server /\ d.state = c.state
      /\ d.name = c.name /\ d.code = c.code /\ d.owner = c.owner /\ d.peer = c.peer
  BY <1>4
<1>8. Commands(c.up) => Commands(d.up)
  <2> SUFFICES ASSUME Commands(c.up), NEW i \in 1..Len(v)
               PROVE  v[i].ctl_code \in {"OPERATE_Q", "DOWNLOAD_PRE"}
    BY <1>7 DEF Commands
  <2>1. CASE i = Len(c.up) + 1
    BY <1>3, <2>1
  <2>2. CASE i \in 1..Len(c.up)
    BY <1>3, <2>2 DEF Commands
  <2> QED BY <1>3, <2>1, <2>2
<1>9. CASE Proving(msg, c)
  <2>1. \A i \in 2..Len(v) : v[i].ctl_code \in {"OPERATE_Q", "DOWNLOAD_PRE"}
    <3> SUFFICES ASSUME NEW i \in 2..Len(v)
                 PROVE  v[i].ctl_code \in {"OPERATE_Q", "DOWNLOAD_PRE"}
      OBVIOUS
    <3>1. CASE i = Len(c.up) + 1
      BY <1>3, <3>1
    <3>2. CASE i \in 2..Len(c.up)
      BY <1>3, <1>9, <3>2 DEF Proving
    <3> QED BY <1>3, <3>1, <3>2
  <2>2. Proving(msg, d)
    BY <1>3, <1>7, <1>9, <2>1 DEF Proving
  <2> QED BY <1>1, <1>5, <1>6, <1>7, <2>2 DEF Fits, InSession
<1>10. CASE Known(msg, c) \/ Denied(msg, c)
  <2>1. Known(msg, d) \/ Denied(msg, d)
    BY <1>7, <1>8, <1>10 DEF Known, Denied
  <2> QED BY <1>1, <1>5, <1>6, <1>7, <2>1 DEF Fits, InSession
<1> QED BY <1>1, <1>9, <1>10 DEF InSession

Changed(f, g, t, name, passward, token) ==
  g = [f EXCEPT ![t] = [name |-> name, passward |-> passward, token |-> token]]
WithToken(f, t, v) == [f EXCEPT ![t].token = v]
WithPassward(f, t, v) == [f EXCEPT ![t].passward = v]
WithName(f, t, v) == [f EXCEPT ![t].name = v]

LEMMA Fields ==
  ASSUME NEW f, Records(f), NEW t \in Terminal, NEW v
  PROVE  /\ Records(WithToken(f, t, v)) /\ WithToken(f, t, v)[t].name = f[t].name
         /\ WithToken(f, t, v)[t].passward = f[t].passward
         /\ WithToken(f, t, v)[t].token = v
         /\ Records(WithPassward(f, t, v)) /\ WithPassward(f, t, v)[t].name = f[t].name
         /\ WithPassward(f, t, v)[t].passward = v
         /\ WithPassward(f, t, v)[t].token = f[t].token
         /\ Records(WithName(f, t, v))
         /\ \A u \in Terminal \ {t} : /\ WithToken(f, t, v)[u] = f[u]
                                      /\ WithPassward(f, t, v)[u] = f[u]
                                      /\ WithName(f, t, v)[u] = f[u]
<1>1. f[t] = [name |-> f[t].name, passward |-> f[t].passward, token |-> f[t].token]
      /\ f = [u \in Terminal |-> f[u]]
      /\ \A u \in Terminal : f[u] = [name |-> f[u].name, passward |-> f[u].passward,
                                       token |-> f[u].token]
  BY DEF Records
<1>2. PICK n, p, k : n = f[t].name /\ p = f[t].passward /\ k = f[t].token
  OBVIOUS
<1>3. f[t] = [name |-> n, passward |-> p, token |-> k]
  BY <1>1, <1>2
<1>4. WithToken(f, t, v) = [f EXCEPT ![t] = [name |-> n, passward |-> p, token |-> v]]
  <2>1. [f[t] EXCEPT !.token = v] = [name |-> n, passward |-> p, token |-> v]
    BY <1>3
  <2> QED BY <2>1 DEF WithToken
<1>5. WithPassward(f, t, v) = [f EXCEPT ![t] = [name |-> n, passward |-> v, token |-> k]]
  <2>1. [f[t] EXCEPT !.passward = v] = [name |-> n, passward |-> v, token |-> k]
    BY <1>3
  <2> QED BY <2>1 DEF WithPassward
<1>6. WithName(f, t, v) = [f EXCEPT ![t] = [name |-> v, passward |-> p, token |-> k]]
  <2>1. [f[t] EXCEPT !.name = v] = [name |-> v, passward |-> p, token |-> k]
    BY <1>3
  <2> QED BY <2>1 DEF WithName
<1>7. ASSUME NEW g, NEW a, NEW b, NEW c,
             Changed(f, g, t, a, b, c)
      PROVE  /\ Records(g) /\ g[t].name = a /\ g[t].passward = b /\ g[t].token = c
             /\ \A u \in Terminal \ {t} : g[u] = f[u]
  <2>1. g[t] = [name |-> a, passward |-> b, token |-> c]
    BY <1>1, <1>7 DEF Changed
  <2>2. \A u \in Terminal \ {t} : g[u] = f[u]
    BY <1>1, <1>7 DEF Changed
  <2>3. g = [u \in Terminal |-> g[u]]
    BY <1>1, <1>7 DEF Changed
  <2>4. \A u \in Terminal : g[u] = [name |-> g[u].name, passward |-> g[u].passward,
                                     token |-> g[u].token]
    BY <1>1, <2>1, <2>2
  <2>5. Records(g)
    BY <2>3, <2>4 DEF Records
  <2> QED BY <2>1, <2>2, <2>5
<1>8. /\ Changed(f, WithToken(f, t, v), t, n, p, v)
       /\ Changed(f, WithPassward(f, t, v), t, n, v, k)
       /\ Changed(f, WithName(f, t, v), t, v, p, k)
  BY <1>4, <1>5, <1>6 DEF Changed
<1>9. PICK g : g = WithToken(f, t, v)
  OBVIOUS
<1>10. PICK h : h = WithPassward(f, t, v)
  OBVIOUS
<1>11. PICK i : i = WithName(f, t, v)
  OBVIOUS
<1>12. Records(g) /\ g[t].name = n /\ g[t].passward = p /\ g[t].token = v
       /\ \A u \in Terminal \ {t} : g[u] = f[u]
  BY <1>8, <1>7, <1>9
<1>13. Records(h) /\ h[t].name = n /\ h[t].passward = v /\ h[t].token = k
       /\ \A u \in Terminal \ {t} : h[u] = f[u]
  BY <1>8, <1>7, <1>10
<1>14. Records(i) /\ \A u \in Terminal \ {t} : i[u] = f[u]
  BY <1>8, <1>7, <1>11
<1> QED BY <1>2, <1>9, <1>10, <1>11, <1>12, <1>13, <1>14

-----------------------------------------------------------------------------
(* The actions of the client *)

(* A step that changes t and the own connection of t.                      *)
LEMMA OwnChange ==
  ASSUME SessionsFit, NEW t \in Terminal, Live(t),
         NEW d, conn' = [conn EXCEPT ![cFd[t]] = d],
         cFd' = cFd, at' = [at EXCEPT ![t] = at'[t]],
         Records(login_msg'),
         \A u \in Terminal \ {t} : login_msg'[u] = login_msg[u],
         at'[t] \in {"dialogue", "session"}, Fits(t, at'[t], login_msg'[t], d)
  PROVE  SessionsFit'
<1>1. cFd[t] \in Conn /\ conn[cFd[t]].owner = t
  BY DEF SessionsFit, OwnFits, Fits
<1>2. AreFunctions'
  BY DEF SessionsFit, AreFunctions
<1>3. OwnFits(t)'
  BY <1>1 DEF OwnFits, Live, SessionsFit, AreFunctions
<1>4. \A u \in Terminal \ {t} : at'[u] = at[u] /\ cFd'[u] = cFd[u]
  BY DEF SessionsFit, AreFunctions
<1>5. \A j \in Conn : conn[j].owner \notin {t, None} => conn'[j] = conn[j]
  BY <1>1 DEF SessionsFit, AreFunctions
<1> QED BY <1>2, <1>3, <1>4, <1>5, ClientFrame

(* A step with which t leaves.                                             *)
LEMMA Leaving ==
  ASSUME SessionsFit, NEW t \in Terminal,
         conn' = [j \in Conn |-> conn'[j]],
         \A j \in Conn : conn[j].owner \notin {t, None} => conn'[j] = conn[j],
         cFd' = [cFd EXCEPT ![t] = 0], at' = [at EXCEPT ![t] = at'[t]],
         at'[t] \in {"menu", "dead"}, Records(login_msg'),
         \A u \in Terminal \ {t} : login_msg'[u] = login_msg[u]
  PROVE  SessionsFit'
<1>1. AreFunctions'
  BY DEF SessionsFit, AreFunctions
<1>2. OwnFits(t)'
  BY DEF OwnFits, Live, SessionsFit, AreFunctions
<1>3. \A u \in Terminal \ {t} : at'[u] = at[u] /\ cFd'[u] = cFd[u]
  BY DEF SessionsFit, AreFunctions
<1> QED BY <1>1, <1>2, <1>3, ClientFrame

(* One lemma for each action of a client.                                  *)
LEMMA RefusedKeeps ==
  ASSUME SessionsFit, NEW t \in Terminal, Refused(t) \/ LoginPok(t)
  PROVE  SessionsFit'
<1>1. Live(t)
  BY DEF Refused, LoginPok, Reply, Live
<1>2. cFd[t] \in Conn /\ conn[cFd[t]].owner = t /\ Records(login_msg)
  BY <1>1 DEF SessionsFit, OwnFits, Fits, AreFunctions
<1>3. PICK d : conn' = [conn EXCEPT ![cFd[t]] = d]
  BY DEF Refused, LoginPok, LoginBegin
<1>4. cFd' = [cFd EXCEPT ![t] = 0] /\ at' = [at EXCEPT ![t] = "menu"]
  BY DEF Refused, LoginPok, LoginBegin
<1>5. Records(login_msg') /\ \A u \in Terminal \ {t} : login_msg'[u] = login_msg[u]
  <2>1. CASE Refused(t)
    BY <1>2, <2>1 DEF Refused
  <2>2. CASE LoginPok(t)
    <3> DEFINE v == Replied(t)  w == Crypt(buf[t], Replied(t))
               f == WithToken(login_msg, t, v)
    <3>1. login_msg' = WithPassward(f, t, w)
      BY <2>2 DEF LoginPok, WithToken, WithPassward
    <3>2. Records(f) /\ \A u \in Terminal \ {t} : f[u] = login_msg[u]
      BY <1>2, Fields
    <3> HIDE DEF f, v, w
    <3> QED BY <3>1, <3>2, Fields
  <2> QED BY <2>1, <2>2
<1>6. \A j \in Conn : conn[j].owner \notin {t, None} => conn'[j] = conn[j]
  BY <1>2, <1>3 DEF SessionsFit, AreFunctions
<1>7. conn' = [j \in Conn |-> conn'[j]] /\ at'[t] = "menu"
  BY <1>3, <1>4 DEF SessionsFit, AreFunctions
<1>8. at' = [at EXCEPT ![t] = at'[t]]
  BY <1>4, <1>7
<1> QED BY <1>4, <1>5, <1>6, <1>7, <1>8, Leaving

LEMMA DownloadPokKeeps ==
  ASSUME SessionsFit, NEW t \in Terminal, DownloadPok(t)
  PROVE  SessionsFit'
<1> DEFINE c == conn[cFd[t]]
<1>1. Live(t) /\ c.down # <<>> /\ Head(c.down).ctl_code = "DOWNLOAD_POK"
  BY DEF DownloadPok, Reply, Live
<1>2. at[t] = "session" /\ c.down[1].ctl_code = "DOWNLOAD_POK"
  BY <1>1, Replying DEF Answered
<1>3. Fits(t, "session", login_msg[t], c)
  BY <1>1, <1>2 DEF SessionsFit, OwnFits
<1>4. Fits(t, "session", login_msg[t], Read(c))
  BY <1>1, <1>2, <1>3, ReadSession
<1>5. conn' = [conn EXCEPT ![cFd[t]] = Read(c)] /\ UNCHANGED <<at, login_msg, cFd>>
  BY DEF DownloadPok, Consumed, Rest, Read
<1>6. at' = [at EXCEPT ![t] = at'[t]] /\ Records(login_msg')
  BY <1>5 DEF SessionsFit, AreFunctions
<1> QED BY <1>1, <1>2, <1>4, <1>5, <1>6, OwnChange

LEMMA OperateOkKeeps ==
  ASSUME SessionsFit, NEW t \in Terminal, OperateOk(t)
  PROVE  SessionsFit'
<1> DEFINE c == conn[cFd[t]]
<1>1. Live(t) /\ c.down # <<>> /\ Head(c.down).ctl_code = "OPERATE_OK"
  BY DEF OperateOk, Reply, Live
<1>2. at[t] = "session" /\ Head(c.down) = c.down[1]
      /\ c.down[1].ctl_code = "OPERATE_OK"
  BY <1>1, Replying DEF Answered
<1>3. Fits(t, "session", login_msg[t], c)
  BY <1>1, <1>2 DEF SessionsFit, OwnFits
<1>4. login_msg' = WithPassward(login_msg, t, c.down[1].buf)
  BY <1>2 DEF OperateOk, Replied, WithPassward
<1>5. /\ Records(login_msg') /\ login_msg'[t].name = login_msg[t].name
      /\ login_msg'[t].passward = c.down[1].buf
      /\ \A u \in Terminal \ {t} : login_msg'[u] = login_msg[u]
  BY <1>4, Fields DEF SessionsFit, AreFunctions
<1>6. Fits(t, "session", login_msg'[t], Read(c))
  BY <1>1, <1>2, <1>3, <1>5, ReadSession
<1>7. conn' = [conn EXCEPT ![cFd[t]] = Read(c)] /\ UNCHANGED <<at, cFd>>
  BY DEF OperateOk, Consumed, Rest, Read
<1>8. at' = [at EXCEPT ![t] = at'[t]]
  BY <1>7 DEF SessionsFit, AreFunctions
<1> QED BY <1>1, <1>2, <1>5, <1>6, <1>7, <1>8, OwnChange

(* A message sent on a connection with nothing under way.                  *)
LEMMA SentAlone ==
  ASSUME NEW c, HasFields(c), c.up = <<>>, c.server = "open", NEW m
  PROVE  LET d == Sent(c, m)
         IN /\ HasFields(d) /\ d.owner = c.owner /\ d.peer = c.peer
            /\ d.server = "open" /\ d.code = c.code /\ d.down = c.down
            /\ Len(d.up) = 1 /\ d.up[1] = m
<1>1. PICK v : v = Append(c.up, m)
  OBVIOUS
<1>2. Len(<<>>) = 0
  BY Short
<1>3. IsSeq(v) /\ Len(v) = 1 /\ v[1] = m
  <2>1. Len(c.up) = 0 /\ IsSeq(c.up)
    BY <1>2 DEF HasFields
  <2>2. IsSeq(v) /\ Len(v) = Len(c.up) + 1 /\ v[Len(c.up) + 1] = m
    BY <1>1, <2>1, AppendOf
  <2> QED BY <2>1, <2>2
<1>4. PICK r : r = c
  OBVIOUS
<1>5. r = [owner |-> c.owner, transfer |-> c.transfer, up |-> c.up,
           down |-> c.down, peer |-> c.peer, server |-> c.server,
           state |-> c.state, name |-> c.name, code |-> c.code]
  BY <1>4 DEF HasFields
<1>6. [r EXCEPT !.up = v] =
        [owner |-> c.owner, transfer |-> c.transfer, up |-> v,
         down |-> c.down, peer |-> c.peer, server |-> c.server,
         state |-> c.state, name |-> c.name, code |-> c.code]
  BY <1>5
<1>7. Sent(c, m) = [c EXCEPT !.up = v]
  BY <1>1 DEF Sent
<1> QED BY <1>3, <1>4, <1>6, <1>7 DEF HasFields

LEMMA RegisterPokKeeps ==
  ASSUME SessionsFit, NEW t \in Terminal, RegisterPok(t)
  PROVE  SessionsFit'
<1> DEFINE c == conn[cFd[t]]
           f == WithPassward(login_msg, t, Crypt(buf[t], Replied(t)))
           m == Message("REGISTER_Q", login_msg'[t])
<1>1. Live(t) /\ c.down # <<>> /\ Head(c.down).ctl_code = "REGISTER_POK"
  BY DEF RegisterPok, Reply, Live
<1>2. /\ at[t] = "dialogue" /\ HasFields(c) /\ c.owner = t /\ c.peer = "open"
      /\ c.server = "open" /\ c.code = Root /\ Answered(login_msg[t], c)
  <2>1. /\ cFd[t] \in Conn /\ HasFields(c) /\ c.owner = t /\ c.peer = "open"
        /\ Head(c.down) = c.down[1] /\ Len(c.down) > 0
        /\ \/ /\ at[t] = "dialogue" /\ c.server = "open" /\ c.code = Root
              /\ Answered(login_msg[t], c)
           \/ at[t] = "session" /\ InSession(login_msg[t], c)
    BY <1>1, Replying
  <2>2. Len(c.down) \in Nat
    BY <2>1 DEF HasFields, IsSeq
  <2>3. ~InSession(login_msg[t], c)
    BY <1>1, <2>1, <2>2 DEF InSession, Answers
  <2> QED BY <2>1, <2>3
<1>3. login_msg' = WithToken(f, t, <<login_msg[t].name, now'>>)
  BY DEF RegisterPok, WithToken, WithPassward
<1>4. /\ Records(login_msg') /\ login_msg'[t].name = login_msg[t].name
      /\ login_msg'[t].token # NoToken
      /\ \A u \in Terminal \ {t} : login_msg'[u] = login_msg[u]
  <2>1. Records(f) /\ f[t].name = login_msg[t].name
        /\ \A u \in Terminal \ {t} : f[u] = login_msg[u]
    BY Fields DEF SessionsFit, AreFunctions
  <2>2. PICK v : v = <<login_msg[t].name, now'>>
    OBVIOUS
  <2>3. v # NoToken
    BY <2>2 DEF NoToken
  <2> HIDE DEF f
  <2> QED BY <1>3, <2>1, <2>2, <2>3, Fields
<1>5. conn' = [conn EXCEPT ![cFd[t]] = Sent(Read(c), m)]
      /\ UNCHANGED <<at, cFd>>
  BY DEF RegisterPok, Rest, Read
<1>6. m.ctl_code = "REGISTER_Q" /\ m.buf = login_msg'[t]
  BY DEF Message
<1> HIDE DEF m
<1>7. /\ HasFields(Read(c)) /\ Read(c).owner = t /\ Read(c).peer = "open"
      /\ Read(c).server = "open" /\ Read(c).code = Root /\ Read(c).up = <<>>
      /\ Read(c).down = <<>>
  <2>1. Tail(c.down) = <<>> /\ c.up = <<>>
    BY <1>2, ReadDialogue
  <2> QED BY <1>1, <1>2, <2>1, ReadIs
<1>8. PICK d : d = Sent(Read(c), m)
  OBVIOUS
<1>9. /\ HasFields(d) /\ d.owner = t /\ d.peer = "open" /\ d.server = "open"
      /\ d.code = Root /\ d.down = <<>> /\ Len(d.up) = 1 /\ d.up[1] = m
  BY <1>7, <1>8, SentAlone
<1>10. Asking(login_msg'[t], d)
  BY <1>4, <1>6, <1>9 DEF Asking
<1>11. Fits(t, "dialogue", login_msg'[t], d)
  BY <1>9, <1>10 DEF Fits
<1>12. at' = [at EXCEPT ![t] = at'[t]]
  BY <1>5 DEF SessionsFit, AreFunctions
<1> QED BY <1>1, <1>2, <1>4, <1>5, <1>8, <1>11, <1>12, OwnChange

LEMMA RegisterOkKeeps ==
  ASSUME SessionsFit, NEW t \in Terminal, RegisterOk(t)
  PROVE  SessionsFit'
<1> DEFINE c == conn[cFd[t]]
<1>1. Live(t) /\ c.down # <<>> /\ Head(c.down).ctl_code = "REGISTER_OK"
  BY DEF RegisterOk, Reply, Live
<1>2. /\ HasFields(c) /\ c.owner = t /\ c.peer = "open" /\ c.server = "open"
      /\ c.code = Root /\ Answered(login_msg[t], c)
      /\ c.down[1].ctl_code = "REGISTER_OK"
  <2>1. /\ cFd[t] \in Conn /\ HasFields(c) /\ c.owner = t /\ c.peer = "open"
        /\ Head(c.down) = c.down[1] /\ Len(c.down) > 0
        /\ \/ /\ at[t] = "dialogue" /\ c.server = "open" /\ c.code = Root
              /\ Answered(login_msg[t], c)
           \/ at[t] = "session" /\ InSession(login_msg[t], c)
    BY <1>1, Replying
  <2>2. Len(c.down) \in Nat
    BY <2>1 DEF HasFields, IsSeq
  <2>3. ~InSession(login_msg[t], c)
    BY <1>1, <2>1, <2>2 DEF InSession, Answers
  <2> QED BY <1>1, <2>1, <2>3
<1>3. c.state = 2 /\ c.name = login_msg[t].name
  BY <1>2 DEF Answered
<1>4. login_msg' = WithPassward(login_msg, t, Root)
  BY DEF RegisterOk, WithPassward
<1>5. /\ Records(login_msg') /\ login_msg'[t].name = login_msg[t].name
      /\ login_msg'[t].passward = Root
      /\ \A u \in Terminal \ {t} : login_msg'[u] = login_msg[u]
  BY <1>4, Fields DEF SessionsFit, AreFunctions
<1>6. PICK d : d = Read(c)
  OBVIOUS
<1>7. conn' = [conn EXCEPT ![cFd[t]] = d] /\ cFd' = cFd
      /\ at' = [at EXCEPT ![t] = "session"]
  BY <1>6 DEF RegisterOk, Consumed, Rest, Read
<1>8. /\ HasFields(d) /\ d.owner = t /\ d.peer = "open" /\ d.server = "open"
      /\ d.code = Root /\ d.up = <<>> /\ d.down = <<>> /\ d.state = 2
      /\ d.name = login_msg'[t].name
  <2>1. Tail(c.down) = <<>> /\ c.up = <<>>
    BY <1>2, ReadDialogue
  <2> QED BY <1>1, <1>2, <1>3, <1>5, <1>6, <2>1, ReadIs
<1>9. Len(<<>>) = 0
  BY Short
<1>10. Known(login_msg'[t], d) /\ Answers(d.down) /\ IsCode(Root)
  BY <1>5, <1>8, <1>9 DEF Known, Commands, Answers, IsCode, Atoi, Root
<1>11. Fits(t, "session", login_msg'[t], d)
  BY <1>5, <1>8, <1>10 DEF Fits, InSession
<1>12. at'[t] = "session" /\ at' = [at EXCEPT ![t] = at'[t]]
  BY <1>7 DEF SessionsFit, AreFunctions
<1> QED BY <1>1, <1>5, <1>7, <1>11, <1>12, OwnChange

(* In a session the client can go back to its directory.                   *)
LEMMA SessionToken ==
  ASSUME SessionsFit, NEW t \in Terminal, at[t] = "session"
  PROVE  /\ cFd[t] \in Conn /\ Fits(t, "session", login_msg[t], conn[cFd[t]])
         /\ IsCode(login_msg[t].passward)
         /\ Token(t).ctl_code = "TOKEN_PLESE" /\ Token(t).buf = login_msg[t]
BY DEF SessionsFit, OwnFits, Live, Fits, InSession, Token, Message

LEMMA ReconnectKeeps ==
  ASSUME SessionsFit, NEW t \in Terminal, Reconnect(t)
  PROVE  SessionsFit'
<1>1. Live(t) /\ conn[cFd[t]].server = "fin"
  BY DEF Reconnect, Live
<1>2. at[t] = "session"
  BY <1>1 DEF SessionsFit, OwnFits, Fits
<1> DEFINE ms == <<Token(t)>>
<1>3. IsSeq(ms) /\ Len(ms) = 1 /\ ms[1] = Token(t)
  BY Short
<1>4. UNCHANGED <<at, login_msg, cFd>>
      /\ conn' = [conn EXCEPT ![cFd[t]] = Anew(t, ms)]
  BY DEF Reconnect, Renewed, Greeting, clientVars, Anew
<1> HIDE DEF ms
<1>5. Fits(t, "session", login_msg[t], Anew(t, ms))
  BY <1>2, <1>3, SessionToken, RenewedFits
<1>6. at' = [at EXCEPT ![t] = at'[t]] /\ Records(login_msg')
  BY <1>4 DEF SessionsFit, AreFunctions
<1> QED BY <1>1, <1>2, <1>4, <1>5, <1>6, OwnChange

LEMMA TokenIdentKeeps ==
  ASSUME SessionsFit, NEW t \in Terminal, TokenIdent(t)
  PROVE  SessionsFit'
<1> DEFINE k == Least(Free)
<1>1. k \in Conn /\ conn[k].owner = None
  BY LeastFree DEF TokenIdent, NoConn
<1> HIDE DEF k
<1>2. PICK d : conn' = [conn EXCEPT ![k] = d]
  BY DEF TokenIdent, k
<1>3. UNCHANGED <<at, login_msg, cFd>>
  BY DEF TokenIdent
<1>4. AreFunctions'
  BY <1>2, <1>3 DEF SessionsFit, AreFunctions
<1>5. ASSUME NEW u \in Terminal PROVE OwnFits(u)'
  <2>1. CASE Live(u)
    <3>1. cFd[u] \in Conn /\ Fits(u, at[u], login_msg[u], conn[cFd[u]])
      BY <2>1 DEF SessionsFit, OwnFits
    <3>2. cFd[u] # k
      BY <1>1, <3>1, AccountsAssumption DEF Fits
    <3>3. conn'[cFd[u]] = conn[cFd[u]]
      BY <1>2, <3>1, <3>2 DEF SessionsFit, AreFunctions
    <3> QED BY <1>3, <2>1, <3>1, <3>3 DEF OwnFits, Live
  <2>2. CASE ~Live(u)
    BY <1>3, <2>2 DEF OwnFits, Live, SessionsFit
  <2> QED BY <2>1, <2>2
<1> QED BY <1>4, <1>5 DEF SessionsFit

LEMMA PipeFits ==
  ASSUME NEW t, NEW msg, NEW c, Fits(t, "session", msg, c)
  PROVE  Fits(t, "session", msg, [c EXCEPT !.server = "pipe"])
<1>1. HasFields(c) /\ c.peer = "open" /\ c.owner = t /\ InSession(msg, c)
  BY DEF Fits
<1>2. PICK r : r = c
  OBVIOUS
<1>3. r = [owner |-> c.owner, transfer |-> c.transfer, up |-> c.up,
           down |-> c.down, peer |-> c.peer, server |-> c.server,
           state |-> c.state, name |-> c.name, code |-> c.code]
  BY <1>1, <1>2 DEF HasFields
<1>4. PICK d : d = [owner |-> c.owner, transfer |-> c.transfer, up |-> c.up,
         down |-> c.down, peer |-> c.peer, server |-> "pipe",
         state |-> c.state, name |-> c.name, code |-> c.code]
  OBVIOUS
<1>5. [r EXCEPT !.server = "pipe"] = d
  BY <1>3, <1>4
<1>6. HasFields(d) /\ InSession(msg, d) /\ d.owner = t /\ d.peer = "open"
  BY <1>1, <1>4 DEF HasFields, InSession
<1>7. Fits(t, "session", msg, d)
  BY <1>6 DEF Fits
<1> QED BY <1>2, <1>5, <1>7

LEMMA CommandKeeps ==
  ASSUME Timely, SessionsFit, NEW t \in Terminal, NEW m,
         m.ctl_code \in {"OPERATE_Q", "DOWNLOAD_PRE"},
         Ssend(t, m), at[t] = "session", login_msg' = login_msg
  PROVE  SessionsFit'
<1> DEFINE k == cFd[t]
           c == conn[k]
<1>1. /\ k \in Conn /\ Fits(t, "session", login_msg[t], c)
      /\ Live(t) /\ Records(login_msg') /\ c.owner = t
  BY SessionToken DEF SessionsFit, AreFunctions, Live, Fits
<1>2. ASSUME NEW d, conn' = [conn EXCEPT ![k] = d], UNCHANGED <<at, cFd>>,
             Fits(t, "session", login_msg[t], d)
      PROVE  SessionsFit'
  <2>1. at' = [at EXCEPT ![t] = at'[t]] /\ at'[t] = "session"
    BY <1>2 DEF SessionsFit, AreFunctions
  <2> QED BY <1>1, <1>2, <2>1, OwnChange
<1>3. CASE c.server = "open"
  <2>1. conn' = [conn EXCEPT ![k] = Sent(c, m)] /\ UNCHANGED <<at, cFd>>
    BY <1>3 DEF Ssend
  <2>2. Fits(t, "session", login_msg[t], Sent(c, m))
    BY <1>1, <1>3, SentFits
  <2> QED BY <1>2, <2>1, <2>2
<1>4. CASE c.server = "fin"
  <2>1. \/ UNCHANGED conn
        \/ conn' = [conn EXCEPT ![k] = [c EXCEPT !.server = "pipe"]]
    BY <1>4 DEF Ssend
  <2>2. UNCHANGED <<at, cFd>>
    BY <1>4 DEF Ssend
  <2>3. CASE UNCHANGED conn
    <3>1. conn' = [conn EXCEPT ![k] = c]
      BY <2>3 DEF SessionsFit, AreFunctions
    <3> QED BY <1>1, <1>2, <2>2, <3>1
  <2>4. CASE conn' = [conn EXCEPT ![k] = [c EXCEPT !.server = "pipe"]]
    <3>1. PICK d : d = [c EXCEPT !.server = "pipe"]
      OBVIOUS
    <3>2. Fits(t, "session", login_msg[t], d)
      BY <1>1, <3>1, PipeFits, Zenon
    <3> QED BY <1>2, <2>2, <2>4, <3>1, <3>2
  <2> QED BY <2>1, <2>3, <2>4
<1>5. CASE c.server = "pipe"
  <2>1. /\ at' = [at EXCEPT ![t] = "dead"] /\ cFd' = [cFd EXCEPT ![t] = 0]
        /\ conn' = [j \in Conn |-> IF conn[j].owner = t THEN Closed(conn[j])
                                                       ELSE conn[j]]
    BY <1>5 DEF Ssend
  <2>2. at'[t] = "dead" /\ at' = [at EXCEPT ![t] = at'[t]]
    BY <2>1 DEF SessionsFit, AreFunctions
  <2>3. /\ conn' = [j \in Conn |-> conn'[j]]
        /\ \A j \in Conn : conn[j].owner \notin {t, None} => conn'[j] = conn[j]
    BY <2>1
  <2> QED BY <1>1, <2>1, <2>2, <2>3, Leaving
<1>6. CASE c.server = "rst"
  <2> DEFINE ms == <<Token(t), m>>
  <2>1. conn' = [conn EXCEPT ![k] = Anew(t, ms)]
        /\ cFd' = [cFd EXCEPT ![t] = k] /\ UNCHANGED at
    BY <1>6 DEF Ssend, Renewed, Resent, Anew
  <2>2. IsSeq(ms) /\ Len(ms) = 2 /\ ms[1] = Token(t) /\ ms[2] = m
    BY Short
  <2> HIDE DEF ms
  <2>3. Fits(t, "session", login_msg[t], Anew(t, ms))
    BY <2>2, SessionToken, RenewedFits
  <2>4. cFd' = cFd
    BY <2>1 DEF SessionsFit, AreFunctions
  <2> QED BY <1>2, <2>1, <2>3, <2>4
<1> QED BY <1>3, <1>4, <1>5, <1>6 DEF Ssend

LEMMA DialogueKeeps ==
  ASSUME SessionsFit, NEW t \in Terminal, NEW n, NEW password,
         NEW ctl_code \in {"LOGIN_PRE", "REGISTER_PRE"},
         Dialogue(t, n, password, ctl_code)
  PROVE  SessionsFit'
<1> DEFINE k == Least(Free)
           m == Message(ctl_code, n)
           ms == <<m>>
<1>1. k \in Conn /\ conn[k].owner = None
  BY LeastFree DEF Dialogue, NoConn
<1> HIDE DEF k
<1>2. IsSeq(ms) /\ Len(ms) = 1 /\ ms[1].ctl_code = ctl_code
  BY Short DEF Message
<1>3. /\ conn' = [conn EXCEPT ![k] = Connection(t, FALSE, ms)]
      /\ cFd' = [cFd EXCEPT ![t] = k] /\ at' = [at EXCEPT ![t] = "dialogue"]
      /\ login_msg' = WithName(login_msg, t, n)
  BY DEF Dialogue, k, WithName
<1> HIDE DEF ms
<1>4. PICK no, d : no = FALSE /\ d = Connection(t, no, ms)
  OBVIOUS
<1>5. d = Connection(t, FALSE, ms)
  BY <1>4, Zenon
<1>6. /\ HasFields(d) /\ d.owner = t /\ d.peer = "open" /\ d.server = "open"
      /\ d.up = ms /\ d.down = <<>> /\ d.code = Root
  BY <1>2, <1>4, ConnectionIs
<1>7. Fits(t, "dialogue", login_msg'[t], d)
  BY <1>2, <1>6 DEF Fits, Asking
<1>8. Records(login_msg') /\ \A u \in Terminal \ {t} : login_msg'[u] = login_msg[u]
  BY <1>3, Fields DEF SessionsFit, AreFunctions
<1>9. AreFunctions'
  BY <1>3, <1>8 DEF SessionsFit, AreFunctions
<1>10. conn'[k] = d /\ cFd'[t] = k /\ at'[t] = "dialogue"
  BY <1>1, <1>3, <1>5 DEF SessionsFit, AreFunctions
<1>11. OwnFits(t)'
  BY <1>1, <1>7, <1>10 DEF OwnFits, Live
<1>12. \A u \in Terminal \ {t} : at'[u] = at[u] /\ cFd'[u] = cFd[u]
  BY <1>3 DEF SessionsFit, AreFunctions
<1>13. \A j \in Conn : conn[j].owner \notin {t, None} => conn'[j] = conn[j]
  BY <1>1, <1>3 DEF SessionsFit, AreFunctions
<1> QED BY <1>8, <1>9, <1>11, <1>12, <1>13, ClientFrame

LEMMA ClientKeeps ==
  ASSUME Timely, SessionsFit, NEW t \in Terminal, ClientStep(t) \/ UserStep(t)
  PROVE  SessionsFit'
<1>1. CASE ClientStep(t)
  BY <1>1, RefusedKeeps, RegisterPokKeeps, RegisterOkKeeps, OperateOkKeeps,
     DownloadPokKeeps, ReconnectKeeps, TokenIdentKeeps DEF ClientStep
<1>2. ASSUME NEW n \in User, NEW password \in Password,
             Registration(t, n, password) \/ Login(t, n, password)
      PROVE  SessionsFit'
  BY <1>2, DialogueKeeps DEF Registration, Login
<1>3. ASSUME NEW m, m.ctl_code \in {"OPERATE_Q", "DOWNLOAD_PRE"}, Command(t, m)
      PROVE  SessionsFit'
  <2>1. Ssend(t, m) /\ at[t] = "session" /\ login_msg' = login_msg
    BY <1>3 DEF Command
  <2> QED BY <1>3, <2>1, CommandKeeps
<1>4. CASE Cd(t) \/ Gets(t)
  BY <1>3, <1>4 DEF Cd, Gets, Message
<1> QED BY <1>1, <1>2, <1>4 DEF UserStep

LEMMA SessionsKeep ==
  ASSUME Timely, SessionsFit, [Next]_vars
  PROVE  SessionsFit'
<1>1. CASE UNCHANGED vars
  BY <1>1 DEF vars, clientVars, SessionsFit, AreFunctions, Records, OwnFits, Live
<1> QED BY <1>1, ServerKeeps, ClientKeeps DEF Next

LEMMA SessionsBegin == Init => SessionsFit
BY DEF Init, SessionsFit, AreFunctions, Records, OwnFits, Live

LEMMA FitAgrees ==
  ASSUME SessionsFit, NEW t \in Terminal, Quiet(t)
  PROVE  LET c == conn[cFd[t]]
         IN c.state = 2 /\ c.name = login_msg[t].name /\ c.code = login_msg[t].passward
<1> DEFINE c == conn[cFd[t]]
<1>1. InSession(login_msg[t], c) /\ c.server = "open" /\ c.up = <<>> /\ c.down = <<>>
  BY DEF Quiet, SessionsFit, OwnFits, Live, Fits
<1>2. Len(<<>>) = 0
  BY Short
<1>3. Known(login_msg[t], c)
  BY <1>1, <1>2 DEF InSession, Proving, Denied
<1> QED BY <1>1, <1>2, <1>3 DEF Known

(* When no user types and the wheel does not come round in the middle of a *)
(* dialogue, a session at rest is one the server knows, in the client's    *)
(* directory: for any terminals, names, passwords and bounds, however      *)
(* often the wheel closes connections, and whatever the commands under way *)
(* were when it did.                                                       *)
THEOREM SessionsAgree == Timely /\ Spec => []SessionAgrees
<1> SUFFICES ASSUME Timely  PROVE Spec => []SessionAgrees
  OBVIOUS
<1>1. SessionsFit /\ [Next]_vars => SessionsFit'
  BY SessionsKeep
<1>2. SessionsFit => SessionAgrees
  BY FitAgrees DEF SessionAgrees
<1> QED BY <1>1, <1>2, SessionsBegin, PTL DEF Spec

-----------------------------------------------------------------------------
(* What the server leaves of a connection *)

(* A request is read from any connection, that of a thread or of a client  *)
(* that has left among them.                                               *)
Taken(c, d) ==
  /\ HasFields(d)
  /\ d.up = c.up \/ d.up = <<>> \/ (c.up # <<>> /\ d.up = Tail(c.up))

Leaves(k) == \E d : conn' = [conn EXCEPT ![k] = d] /\ Taken(conn[k], d)

LEMMA QueueingClosed ==
  ASSUME NEW c, HasFields(c), c.up # <<>>, c.peer # "open", NEW e, Alike(c, e),
         NEW replies
  PROVE  Taken(c, Queued(e, replies))
<1>1. PICK o, x, u, d, p, s, state, name, code :
        /\ o = c.owner /\ x = c.transfer /\ u = c.up /\ d = c.down /\ s = c.server
        /\ p = c.peer /\ state = e.state /\ name = e.name /\ code = e.code
  OBVIOUS
<1> DEFINE v == Tail(u)
<1>2. e = [owner |-> o, transfer |-> x, up |-> u, down |-> d, peer |-> p,
           server |-> s, state |-> state, name |-> name, code |-> code]
  BY <1>1 DEF Alike, Entry
<1>3. e.up = u /\ e.down = d /\ e.peer # "open"
  BY <1>1, <1>2
<1>4. IsSeq(Tail(c.up))
  BY TailOf DEF HasFields
<1> HIDE DEF v
<1> DEFINE f == [owner |-> o, transfer |-> x, up |-> v, down |-> d, peer |-> p,
                 server |-> s, state |-> state, name |-> name, code |-> code]
<1>5. [e EXCEPT !.up = v] = f
  BY <1>2
<1>6. [f EXCEPT !.down = d] = f
  OBVIOUS
<1>7. [e EXCEPT !.up = v, !.down = d] = f
  BY <1>5, <1>6
<1>8. [e EXCEPT !.up = v].down = d
  BY <1>5
<1>9. Queued(e, replies) = [e EXCEPT !.up = v, !.down = d]
  BY <1>3, <1>8 DEF v, Queued
<1>10. Queued(e, replies) = f
  BY <1>7, <1>9
<1>11. v = Tail(c.up) /\ IsSeq(v) /\ IsSeq(d)
  BY <1>1, <1>4 DEF v, HasFields
<1> QED BY <1>10, <1>11 DEF Taken, HasFields

LEMMA Answering ==
  ASSUME NEW k \in Conn, HasFields(conn[k]), conn[k].up # <<>>,
         NEW e, NEW st, NEW nm, NEW cd, e = Entry(conn[k], st, nm, cd)
  PROVE  /\ Answer(k, e, <<>>) => Leaves(k)
         /\ \A m : Answer(k, e, <<m>>) => Leaves(k)
<1> DEFINE c == conn[k]
<1>1. Alike(c, e)
  BY EntryFields
<1>2. ASSUME NEW replies, Answer(k, e, replies)
      PROVE  conn' = [conn EXCEPT ![k] = Queued(e, replies)]
  BY <1>2 DEF Answer, Queued
<1>3. Taken(c, Queued(e, <<>>)) /\ \A m : Taken(c, Queued(e, <<m>>))
  <2>1. CASE c.peer = "open"
    BY <1>1, <2>1, NoReply, OneReply DEF Waiting, Served, Taken
  <2>2. CASE c.peer # "open"
    BY <1>1, <2>2, QueueingClosed
  <2> QED BY <2>1, <2>2
<1> QED BY <1>2, <1>3 DEF Leaves

LEMMA NoConnHasFields == HasFields(NoConn) /\ NoConn.up = <<>>
<1>1. PICK e : e = <<>>
  OBVIOUS
<1>2. IsSeq(e)
  BY <1>1, Short
<1>3. PICK c : c = NoConn
  OBVIOUS
<1>4. c = [owner |-> None, transfer |-> FALSE, up |-> e, down |-> e,
           peer |-> "closed", server |-> "closed", state |-> 0,
           name |-> None, code |-> Root]
  BY <1>1, <1>3 DEF NoConn
<1>5. HasFields(c) /\ c.up = e
  BY <1>2, <1>4 DEF HasFields
<1> QED BY <1>1, <1>3, <1>5

LEMMA ExpiredTaken ==
  ASSUME NEW c, HasFields(c)
  PROVE  Taken(c, Expired(c)) /\ (c.peer = "open" => Expired(c).down = c.down)
<1> DEFINE s == IF c.up = <<>> THEN "fin" ELSE "rst"
           d == [owner |-> c.owner, transfer |-> c.transfer, up |-> <<>>,
                 down |-> c.down, peer |-> c.peer, server |-> s,
                 state |-> 0, name |-> c.name, code |-> Root]
<1>1. CASE c.peer = "closed"
  BY <1>1, NoConnHasFields DEF Expired, Taken
<1>2. CASE c.peer # "closed"
  <2>1. Expired(c) = d
    BY <1>2 DEF Expired, HasFields
  <2>2. IsSeq(<<>>)
    BY Short
  <2>3. HasFields(d) /\ d.up = <<>> /\ d.down = c.down
    BY <2>2 DEF HasFields
  <2> QED BY <2>1, <2>3 DEF Taken
<1> QED BY <1>1, <1>2

(* Whatever the server does, nothing is added to what it has to read.      *)
LEMMA ServeLeaves ==
  ASSUME NEW k \in Conn, HasFields(conn[k]), AreFunctions, Serve(k) \/ Timeout(k)
  PROVE  Leaves(k)
<1> DEFINE c == conn[k]
           q == Content(k)
<1>1. Serve(k) => \/ ClientQuit(k)
                  \/ c.up # <<>> /\ ~ClientQuit(k)
  BY DEF Serve, LoginPre, LoginQ, RegisterPre, RegisterQ, TokenPlese, OperateQ,
     DownloadPre, DownloadQ, Request
<1>2. CASE ClientQuit(k)
  BY <1>2, NoConnHasFields DEF ClientQuit, Leaves, Taken
<1>3. CASE Timeout(k)
  BY <1>3, ExpiredTaken DEF Timeout, Leaves
<1>4. UNCHANGED conn => Leaves(k)
  <2>1. SUFFICES ASSUME UNCHANGED conn PROVE Leaves(k)
    OBVIOUS
  <2>2. conn' = [conn EXCEPT ![k] = c]
    BY <2>1 DEF AreFunctions
  <2> QED BY <2>2 DEF Leaves, Taken
<1>5. ASSUME c.up # <<>>, Serve(k)  PROVE Leaves(k)
  <2>1. c = Entry(c, c.state, c.name, c.code)
    BY Entries
  <2>2. CASE LoginPre(k) \/ RegisterPre(k)
    <3>1. Unproved(k, q) = Entry(c, 1, q, c.code)
      BY Entries DEF Unproved, AsUser
    <3>2. \E m : Answer(k, Unproved(k, q), <<m>>)
      <4>1. CASE RegisterPre(k)
        <5>1. CASE q \in Registered
          BY <4>1, <5>1 DEF RegisterPre
        <5>2. CASE q \notin Registered
          BY <4>1, <5>2 DEF RegisterPre
        <5> QED BY <5>1, <5>2
      <4>2. CASE LoginPre(k)
        <5>1. CASE q \in Registered
          BY <4>2, <5>1 DEF LoginPre
        <5>2. CASE q \notin Registered
          BY <4>2, <5>2 DEF LoginPre
        <5> QED BY <5>1, <5>2
      <4> QED BY <2>2, <4>1, <4>2
    <3> QED BY <1>5, <3>1, <3>2, Answering
  <2>3. CASE LoginQ(k)
    <3>1. Answer(k, c, <<>>)
      BY <2>3 DEF LoginQ
    <3> QED BY <1>5, <2>1, <3>1, Answering
  <2>4. CASE RegisterQ(k)
    <3>1. AsUser(c, 2, q.name) = Entry(c, 2, q.name, c.code)
      BY Entries
    <3>2. \E m : Answer(k, AsUser(c, 2, q.name), <<m>>) \/ Answer(k, c, <<m>>)
      <4>1. CASE Matches(q)
        BY <2>4, <4>1 DEF RegisterQ, AsUser
      <4>2. CASE ~Matches(q)
        BY <2>4, <4>2 DEF RegisterQ
      <4> QED BY <4>1, <4>2
    <3> QED BY <1>5, <2>1, <3>1, <3>2, Answering
  <2>5. CASE TokenPlese(k)
    <3> DEFINE entry == Presented(c, q.name, Atoi(q.passward))
    <3>1. \/ UNCHANGED conn
          \/ Answer(k, Accepted(entry), <<>>)
          \/ Answer(k, entry, <<Message("REGISTER_NO", None)>>)
      BY <2>5 DEF TokenPlese, TokenEntry, Presented, Accepted
    <3>2. /\ entry = Entry(c, c.state, q.name, Atoi(q.passward))
          /\ Accepted(entry) = Entry(c, 2, q.name, Atoi(q.passward))
      BY Entries
    <3> HIDE DEF entry
    <3> QED BY <1>4, <1>5, <3>1, <3>2, Answering
  <2>6. CASE OperateQ(k)
    <3> DEFINE code == IF q = "/" THEN Root ELSE <<c.name>>
    <3>1. Moved(c, code) = Entry(c, c.state, c.name, code)
      BY Entries
    <3>2. \E m : Answer(k, Moved(c, code), <<m>>) \/ Answer(k, c, <<m>>)
      <4>1. CASE c.state = 2
        BY <2>6, <4>1 DEF OperateQ, Moved
      <4>2. CASE c.state # 2
        BY <2>6, <4>2 DEF OperateQ
      <4> QED BY <4>1, <4>2
    <3> HIDE DEF code
    <3> QED BY <1>5, <2>1, <3>1, <3>2, Answering
  <2>7. CASE DownloadPre(k)
    <3>1. \E m : Answer(k, c, <<m>>)
      <4>1. CASE c.state = 2
        BY <2>7, <4>1 DEF DownloadPre
      <4>2. CASE c.state # 2
        BY <2>7, <4>2 DEF DownloadPre
      <4> QED BY <4>1, <4>2
    <3> QED BY <1>5, <2>1, <3>1, Answering
  <2>8. CASE DownloadQ(k)
    <3>1. CASE c.state = 2
      BY <2>8, <3>1, NoConnHasFields DEF DownloadQ, Leaves, Taken
    <3>2. CASE c.state # 2
      <4>1. Answer(k, c, <<>>)
        BY <2>8, <3>2 DEF DownloadQ
      <4> QED BY <1>5, <2>1, <4>1, Answering
    <3> QED BY <3>1, <3>2
  <2> QED BY <1>2, <1>5, <2>2, <2>3, <2>4, <2>5, <2>6, <2>7, <2>8 DEF Serve
<1> QED BY <1>1, <1>2, <1>3, <1>5


-----------------------------------------------------------------------------
(* Logins under way *)

NoLogin(s) == \A i \in 1..Len(s) : s[i].ctl_code # "REGISTER_Q"

(* A login is only under way on the connection of a dialogue.              *)
LoginsOwn ==
  \A k \in Conn :
    /\ HasFields(conn[k])
    /\ NoLogin(conn[k].up) \/ \E t \in Terminal : at[t] = "dialogue" /\ cFd[t] = k

LEMMA NoLoginShort ==
  ASSUME NEW m, NEW n
  PROVE  /\ NoLogin(<<>>)
         /\ m.ctl_code # "REGISTER_Q" => NoLogin(<<m>>)
         /\ m.ctl_code # "REGISTER_Q" /\ n.ctl_code # "REGISTER_Q" => NoLogin(<<m, n>>)
BY Short DEF NoLogin

LEMMA NoLoginTail ==
  ASSUME NEW s, IsSeq(s), s # <<>>, NoLogin(s)
  PROVE  NoLogin(Tail(s))
<1>1. /\ Len(Tail(s)) = Len(s) - 1 /\ Len(s) \in Nat
      /\ \A i \in 1..Len(Tail(s)) : Tail(s)[i] = s[i + 1]
  BY TailOf DEF IsSeq
<1> QED BY <1>1 DEF NoLogin

LEMMA NoLoginAppend ==
  ASSUME NEW s, IsSeq(s), NoLogin(s), NEW m, m.ctl_code # "REGISTER_Q"
  PROVE  NoLogin(Append(s, m))
<1>1. /\ Len(Append(s, m)) = Len(s) + 1 /\ Len(s) \in Nat
      /\ \A i \in 1..Len(s) : Append(s, m)[i] = s[i]
      /\ Append(s, m)[Len(s) + 1] = m
  BY AppendOf DEF IsSeq
<1> SUFFICES ASSUME NEW i \in 1..Len(Append(s, m))
             PROVE  Append(s, m)[i].ctl_code # "REGISTER_Q"
  BY DEF NoLogin
<1>2. CASE i = Len(s) + 1
  BY <1>1, <1>2
<1>3. CASE i \in 1..Len(s)
  BY <1>1, <1>3 DEF NoLogin
<1> QED BY <1>1, <1>2, <1>3

LEMMA ServerLogins ==
  ASSUME SessionsFit, LoginsOwn, NEW k \in Conn, Serve(k) \/ Timeout(k)
  PROVE  LoginsOwn'
<1>1. UNCHANGED <<at, login_msg, cFd>>
  BY ServerStep DEF SessionsFit
<1>2. HasFields(conn[k]) /\ AreFunctions
  BY DEF SessionsFit, LoginsOwn
<1>3. PICK d : conn' = [conn EXCEPT ![k] = d] /\ Taken(conn[k], d)
  BY <1>2, ServeLeaves DEF Leaves
<1>4. NoLogin(conn[k].up) => NoLogin(d.up)
  BY <1>2, <1>3, NoLoginTail, NoLoginShort DEF Taken, HasFields
<1>5. conn'[k] = d /\ \A j \in Conn \ {k} : conn'[j] = conn[j]
  BY <1>2, <1>3 DEF AreFunctions
<1> SUFFICES ASSUME NEW j \in Conn
             PROVE  /\ HasFields(conn'[j])
                    /\ NoLogin(conn'[j].up)
                       \/ \E t \in Terminal : at[t] = "dialogue" /\ cFd[t] = j
  BY <1>1 DEF LoginsOwn
<1>6. CASE j = k
  BY <1>3, <1>4, <1>5, <1>6 DEF LoginsOwn, Taken
<1>7. CASE j # k
  BY <1>5, <1>7 DEF LoginsOwn
<1> QED BY <1>6, <1>7

(* A step of a client changes its own connections and those nobody has.    *)
LEMMA ClientLogins ==
  ASSUME SessionsFit, LoginsOwn, NEW t \in Terminal,
         \A u \in Terminal \ {t} : at'[u] = at[u] /\ cFd'[u] = cFd[u],
         \A j \in Conn :
           \/ conn'[j] = conn[j] /\ ~(at[t] = "dialogue" /\ cFd[t] = j)
           \/ /\ HasFields(conn'[j])
              /\ NoLogin(conn'[j].up) \/ (at'[t] = "dialogue" /\ cFd'[t] = j)
  PROVE  LoginsOwn'
<1> SUFFICES ASSUME NEW j \in Conn
             PROVE  /\ HasFields(conn'[j])
                    /\ NoLogin(conn'[j].up)
                       \/ \E u \in Terminal : at'[u] = "dialogue" /\ cFd'[u] = j
  BY DEF LoginsOwn
<1>1. CASE conn'[j] = conn[j] /\ ~(at[t] = "dialogue" /\ cFd[t] = j)
  BY <1>1 DEF LoginsOwn
<1>2. CASE /\ HasFields(conn'[j])
           /\ NoLogin(conn'[j].up) \/ (at'[t] = "dialogue" /\ cFd'[t] = j)
  BY <1>2
<1> QED BY <1>1, <1>2

(* On the connection of a session no login is under way.                   *)
LEMMA SessionNoLogin ==
  ASSUME SessionsFit, LoginsOwn, NEW t \in Terminal, at[t] = "session",
         NEW j \in Conn, conn[j].owner = t
  PROVE  NoLogin(conn[j].up)
<1> SUFFICES ASSUME NEW u \in Terminal, at[u] = "dialogue", cFd[u] = j
             PROVE  FALSE
  BY DEF LoginsOwn
<1>1. conn[j].owner = u
  BY DEF SessionsFit, OwnFits, Live, Fits
<1> QED BY <1>1

-----------------------------------------------------------------------------
(* Who holds the token *)

NotRefused(s) == \A i \in 1..Len(s) : s[i].ctl_code # "REGISTER_NO"

(* The answer to the login of t is under way, and it is that t may enter.  *)
Admitted(t) == /\ at[t] = "dialogue" /\ conn[cFd[t]].down # <<>>
               /\ conn[cFd[t]].down[1].ctl_code = "REGISTER_OK"

(* t has a session, or is about to, and has not been told otherwise; or it *)
(* was ended by a signal in one.                                           *)
Holds(t) == \/ Admitted(t)
            \/ at[t] = "session" /\ NotRefused(conn[cFd[t]].down)
            \/ at[t] = "dead"

HolderOf(n, w) == /\ login_msg[w].name = n /\ login_msg[w].token = accounts[n].token
                  /\ Holds(w)

(* Every token in the table is that of a client that holds it.             *)
TokensHeld == \A n \in Registered : accounts[n].token # NoToken
                => \E w \in Terminal : HolderOf(n, w)

Inside(t) == at[t] = "session" \/ Admitted(t)

(* A client in a session has an account that was logged in to.             *)
SessionsNamed ==
  \A t \in Terminal : Inside(t) => /\ login_msg[t].name \in Registered
                                   /\ accounts[login_msg[t].name].token # NoToken

(* The invariant.                                                          *)
SessionsHeld == SessionsFit /\ LoginsOwn /\ TokensHeld /\ SessionsNamed

TokensKept ==
  /\ \A n \in Registered : n \in Registered' /\ accounts'[n].token = accounts[n].token
  /\ \A n \in Registered' : n \notin Registered => accounts'[n].token = NoToken

(* What t holds it still holds, and it is not inside if it was not.        *)
Steady(t) ==
  /\ HolderOf(login_msg[t].name, t)
       => /\ Holds(t)' /\ login_msg'[t].name = login_msg[t].name
          /\ login_msg'[t].token = login_msg[t].token
  /\ Inside(t)' => Inside(t) /\ login_msg'[t].name = login_msg[t].name

LEMMA AllSteady ==
  ASSUME TokensHeld, SessionsNamed, TokensKept, \A t \in Terminal : Steady(t)
  PROVE  TokensHeld' /\ SessionsNamed'
<1>1. ASSUME NEW n \in Registered', accounts'[n].token # NoToken
      PROVE  \E w \in Terminal : HolderOf(n, w)'
  <2>1. n \in Registered /\ accounts'[n].token = accounts[n].token
    BY <1>1 DEF TokensKept
  <2>2. PICK w \in Terminal : HolderOf(n, w)
    BY <1>1, <2>1 DEF TokensHeld
  <2>3. n = login_msg[w].name
    BY <2>2 DEF HolderOf
  <2>4. /\ Holds(w)' /\ login_msg'[w].name = n
        /\ login_msg'[w].token = login_msg[w].token
    BY <2>2, <2>3 DEF Steady
  <2> QED BY <2>1, <2>2, <2>4 DEF HolderOf
<1>2. ASSUME NEW t \in Terminal, Inside(t)'
      PROVE  /\ login_msg'[t].name \in Registered'
             /\ accounts'[login_msg'[t].name].token # NoToken
  BY <1>2 DEF Steady, SessionsNamed, TokensKept
<1> QED BY <1>1, <1>2 DEF TokensHeld, SessionsNamed

LEMMA Aside ==
  ASSUME NEW t, at'[t] = at[t], cFd'[t] = cFd[t], login_msg'[t] = login_msg[t],
         Live(t) => conn'[cFd[t]] = conn[cFd[t]]
  PROVE  Steady(t)
<1>1. CASE Live(t)
  <2>1. /\ Admitted(t)' <=> Admitted(t)
        /\ Holds(t)' <=> Holds(t)
    BY <1>1 DEF Holds, Admitted
  <2> QED BY <2>1 DEF Steady, Inside, HolderOf
<1>2. CASE ~Live(t)
  <2>1. at[t] # "dialogue" /\ at[t] # "session"
    BY <1>2 DEF Live
  <2>2. ~Admitted(t)' /\ (Holds(t) => Holds(t)')
    BY <2>1 DEF Holds, Admitted
  <2> QED BY <2>1, <2>2 DEF Steady, Inside, HolderOf
<1> QED BY <1>1, <1>2

LEMMA TableAside ==
  ASSUME UNCHANGED accounts  PROVE TokensKept
BY DEF TokensKept, Registered


(* The server's steps *)

LEMMA AddUserTokens ==
  ASSUME Shaped, NEW m, AddUser(m)
  PROVE  TokensKept
<1>1. CASE m.name \in Registered
  BY <1>1, TableAside DEF AddUser
<1>2. CASE m.name \notin Registered
  <2> DEFINE r == [salt |-> m.token, ciphertext |-> m.passward, token |-> NoToken]
  <2>1. accounts' = [accounts EXCEPT ![m.name] = r]
    BY <1>2 DEF AddUser
  <2>2. \A n \in User : accounts'[n] = IF n = m.name THEN r ELSE accounts[n]
    BY <2>1 DEF Shaped
  <2>3. r.token = NoToken
    OBVIOUS
  <2> HIDE DEF r
  <2> QED BY <1>2, <2>2, <2>3 DEF TokensKept, Registered
<1> QED BY <1>1, <1>2

(* The table after a login.                                                *)
LEMMA MathUserTokens ==
  ASSUME Shaped, NEW m, Matches(m), MathUser(m)
  PROVE  /\ m.name \in Registered' /\ accounts'[m.name].token = m.token
         /\ Registered' = Registered
         /\ \A n \in Registered : n # m.name => accounts'[n].token = accounts[n].token
<1> DEFINE a == accounts[m.name]
           r == [salt |-> a.salt, ciphertext |-> a.ciphertext, token |-> m.token]
<1>1. m.name \in User /\ a # NoAccount
  BY DEF Matches, Registered
<1>2. a = [salt |-> a.salt, ciphertext |-> a.ciphertext, token |-> a.token]
  BY <1>1 DEF Shaped
<1>3. [a EXCEPT !.token = m.token] = r
  BY <1>2
<1>4. accounts' = [accounts EXCEPT ![m.name] = r]
  BY <1>3 DEF MathUser
<1>5. \A n \in User : accounts'[n] = IF n = m.name THEN r ELSE accounts[n]
  BY <1>4 DEF Shaped
<1>6. r.token = m.token
  OBVIOUS
<1>7. r # NoAccount  BY AccountDiffers
<1> HIDE DEF r
<1>8. Registered' = Registered
  BY <1>1, <1>5, <1>7 DEF Registered
<1>9. m.name \in Registered
  BY <1>1 DEF Registered
<1>10. \A n \in Registered : n # m.name => accounts'[n].token = accounts[n].token
  BY <1>5 DEF Registered
<1> QED BY <1>1, <1>5, <1>6, <1>8, <1>9, <1>10

(* What the client of a connection will read when a request is answered.   *)
LEMMA Heard ==
  ASSUME NEW k \in Conn, conn = [j \in Conn |-> conn[j]], Waiting(conn[k]),
         NEW e, NEW st, NEW nm, NEW cd, e = Entry(conn[k], st, nm, cd)
  PROVE  /\ Answer(k, e, <<>>) => conn'[k].down = conn[k].down
         /\ \A m : Answer(k, e, <<m>>) => conn'[k].down = Append(conn[k].down, m)
<1>1. Alike(conn[k], e)
  BY EntryFields
<1>2. ASSUME NEW replies, Answer(k, e, replies)
      PROVE  conn'[k] = Queued(e, replies)
  BY <1>2 DEF Answer, Queued
<1>3. /\ Queued(e, <<>>).down = conn[k].down
      /\ \A m : Queued(e, <<m>>).down = Append(conn[k].down, m)
  BY <1>1, NoReply, OneReply
<1> QED BY <1>2, <1>3

LEMMA NotRefusedAppend ==
  ASSUME NEW s, IsSeq(s), NotRefused(s), NEW m, m.ctl_code # "REGISTER_NO"
  PROVE  NotRefused(Append(s, m))
<1>1. /\ Len(Append(s, m)) = Len(s) + 1 /\ Len(s) \in Nat
      /\ \A i \in 1..Len(s) : Append(s, m)[i] = s[i]
      /\ Append(s, m)[Len(s) + 1] = m
  BY AppendOf DEF IsSeq
<1> SUFFICES ASSUME NEW i \in 1..Len(Append(s, m))
             PROVE  Append(s, m)[i].ctl_code # "REGISTER_NO"
  BY DEF NotRefused
<1>2. CASE i = Len(s) + 1
  BY <1>1, <1>2
<1>3. CASE i \in 1..Len(s)
  BY <1>1, <1>3 DEF NotRefused
<1> QED BY <1>1, <1>2, <1>3

(* A reply that goes on the connection of a dialogue, and does not admit.  *)
LEMMA DialogueSteady ==
  ASSUME NEW t, UNCHANGED <<at, login_msg, cFd>>, at[t] = "dialogue",
         conn[cFd[t]].down = <<>>,
         NEW m, m.ctl_code # "REGISTER_OK",
         conn'[cFd[t]].down = Append(conn[cFd[t]].down, m)
  PROVE  Steady(t)
<1>1. IsSeq(<<>>) /\ Len(<<>>) = 0
  BY Short
<1>2. conn'[cFd[t]].down[1] = m
  BY <1>1, AppendOf
<1>3. ~Inside(t) /\ ~Inside(t)' /\ ~Holds(t)
  BY <1>2 DEF Inside, Admitted, Holds
<1> QED BY <1>3 DEF Steady, HolderOf

(* A session that is told nothing, or nothing that ends it.                *)
LEMMA SessionSteady ==
  ASSUME NEW t, UNCHANGED <<at, login_msg, cFd>>, at[t] = "session",
         HolderOf(login_msg[t].name, t) /\ NotRefused(conn[cFd[t]].down)
           => NotRefused(conn'[cFd[t]].down)
  PROVE  Steady(t)
<1>1. Inside(t)
  BY DEF Inside
<1>2. HolderOf(login_msg[t].name, t) => NotRefused(conn[cFd[t]].down)
  BY DEF HolderOf, Holds, Admitted
<1>3. HolderOf(login_msg[t].name, t) => Holds(t)'
  BY <1>2 DEF Holds
<1> QED BY <1>1, <1>3 DEF Steady


(* The own connection of a client with a request to be served.             *)
LEMMA OwnAsks ==
  ASSUME SessionsFit, NEW t \in Terminal, Live(t), NEW k, k = cFd[t],
         conn[k].up # <<>>, conn[k].server = "open"
  PROVE  /\ k \in Conn /\ conn = [j \in Conn |-> conn[j]] /\ Waiting(conn[k])
         /\ HasFields(conn[k]) /\ Fits(t, at[t], login_msg[t], conn[k])
BY DEF SessionsFit, AreFunctions, OwnFits, Fits, Waiting

LEMMA PreSteady ==
  ASSUME SessionsFit, NEW t \in Terminal, at[t] = "dialogue", NEW k, k = cFd[t],
         LoginPre(k) \/ RegisterPre(k)
  PROVE  Steady(t)
<1> DEFINE c == conn[k]
           q == Content(k)
<1>1. c.up # <<>> /\ c.server = "open" /\ Live(t) /\ UNCHANGED <<at, login_msg, cFd>>
  BY DEF LoginPre, RegisterPre, Request, Live, clientVars
<1>2. k \in Conn /\ conn = [j \in Conn |-> conn[j]] /\ Waiting(c) /\ HasFields(c)
      /\ c.down = <<>>
  BY <1>1, OwnAsks, DialogueAsks
<1>3. Unproved(k, q) = Entry(c, 1, q, c.code)
  <2>1. AsUser(c, 1, q) = Entry(c, 1, q, c.code)
    BY <1>2, Entries
  <2>2. Unproved(k, q) = AsUser(c, 1, q)
    BY DEF Unproved, AsUser
  <2> QED BY <2>1, <2>2
<1>4. \E m : m.ctl_code # "REGISTER_OK" /\ Answer(k, Unproved(k, q), <<m>>)
  <2>1. CASE RegisterPre(k)
    <3>1. CASE q \in Registered
      BY <2>1, <3>1 DEF RegisterPre, Message
    <3>2. CASE q \notin Registered
      BY <2>1, <3>2 DEF RegisterPre, Message
    <3> QED BY <3>1, <3>2
  <2>2. CASE LoginPre(k)
    <3>1. CASE q \in Registered
      BY <2>2, <3>1 DEF LoginPre, Message
    <3>2. CASE q \notin Registered
      BY <2>2, <3>2 DEF LoginPre, Message
    <3> QED BY <3>1, <3>2
  <2> QED BY <2>1, <2>2
<1>5. PICK m : m.ctl_code # "REGISTER_OK" /\ Answer(k, Unproved(k, q), <<m>>)
  BY <1>4
<1>6. conn'[k].down = Append(c.down, m)
  BY <1>2, <1>3, <1>5, Heard
<1> QED BY <1>1, <1>2, <1>5, <1>6, DialogueSteady

(* A login with a password that is wrong.                                  *)
LEMMA RefusedSteady ==
  ASSUME SessionsFit, NEW t \in Terminal, at[t] = "dialogue", NEW k, k = cFd[t],
         RegisterQ(k), ~Matches(Content(k))
  PROVE  Steady(t) /\ UNCHANGED accounts
<1> DEFINE c == conn[k]
           m == Message("REGISTER_NO", None)
<1>1. c.up # <<>> /\ c.server = "open" /\ Live(t) /\ UNCHANGED <<at, login_msg, cFd>>
  BY DEF RegisterQ, Request, Live, clientVars
<1>2. k \in Conn /\ conn = [j \in Conn |-> conn[j]] /\ Waiting(c) /\ HasFields(c)
      /\ c.down = <<>>
  BY <1>1, OwnAsks, DialogueAsks
<1>3. Answer(k, c, <<m>>) /\ UNCHANGED accounts
  BY DEF RegisterQ
<1>4. m.ctl_code # "REGISTER_OK"
  BY DEF Message
<1> HIDE DEF m
<1>5. c = Entry(c, c.state, c.name, c.code)
  BY <1>2, Entries
<1>6. conn'[k].down = Append(c.down, m)
  BY <1>2, <1>3, <1>5, Heard
<1> QED BY <1>1, <1>2, <1>3, <1>4, <1>6, DialogueSteady

(* The token of a client that holds it is not refused.                     *)
LEMMA TokenSteady ==
  ASSUME SessionsFit, SessionsNamed,
         NEW t \in Terminal, at[t] = "session", NEW k, k = cFd[t], TokenPlese(k)
  PROVE  Steady(t)
<1> DEFINE c == conn[k]
           q == Content(k)
           known == q.name \in Registered
           entry == Presented(c, q.name, Atoi(q.passward))
           m == Message("REGISTER_NO", None)
<1>1. c.up # <<>> /\ c.server = "open" /\ Live(t) /\ UNCHANGED <<at, login_msg, cFd>>
      /\ Head(c.up).ctl_code = "TOKEN_PLESE"
  BY DEF TokenPlese, Request, Live, clientVars
<1>2. k \in Conn /\ conn = [j \in Conn |-> conn[j]] /\ Waiting(c) /\ HasFields(c)
      /\ Fits(t, "session", login_msg[t], c)
  BY <1>1, OwnAsks
<1>3. q = login_msg[t]
  BY <1>1, <1>2, SessionAsks DEF Proving, Content
<1>4. known /\ accounts[q.name].token # NoToken
  BY <1>3 DEF SessionsNamed, Inside
<1> SUFFICES ASSUME HolderOf(login_msg[t].name, t), NotRefused(c.down)
             PROVE  NotRefused(conn'[k].down)
  BY <1>1, SessionSteady
<1>5. accounts[q.name].token = q.token
  BY <1>3 DEF HolderOf
<1>6. Answer(k, Accepted(entry), <<>>)
  BY <1>4, <1>5 DEF TokenPlese, TokenEntry, Presented, Accepted
<1>7. Accepted(entry) = Entry(c, 2, q.name, Atoi(q.passward))
  BY <1>2, Entries
<1> HIDE DEF entry
<1>8. conn'[k].down = c.down
  BY <1>2, <1>6, <1>7, Heard
<1> QED BY <1>8

LEMMA DeniedRefused ==
  ASSUME NEW msg, NEW c, HasFields(c), Denied(msg, c)
  PROVE  ~NotRefused(c.down)
BY DEF HasFields, IsSeq, Denied, NotRefused

(* A command is refused only after the token was.                          *)
LEMMA CommandSteady ==
  ASSUME SessionsFit, NEW t \in Terminal, at[t] = "session", NEW k, k = cFd[t],
         OperateQ(k) \/ DownloadPre(k)
  PROVE  Steady(t)
<1> DEFINE c == conn[k]
           code == IF Content(k) = "/" THEN Root ELSE <<c.name>>
<1>1. c.up # <<>> /\ c.server = "open" /\ Live(t) /\ UNCHANGED <<at, login_msg, cFd>>
      /\ Head(c.up).ctl_code # "TOKEN_PLESE"
  BY DEF OperateQ, DownloadPre, Request, Live, clientVars
<1>2. k \in Conn /\ conn = [j \in Conn |-> conn[j]] /\ Waiting(c) /\ HasFields(c)
      /\ Fits(t, "session", login_msg[t], c)
  BY <1>1, OwnAsks
<1> SUFFICES ASSUME NotRefused(c.down)
             PROVE  NotRefused(conn'[k].down)
  BY <1>1, SessionSteady
<1>3. c.state = 2
  BY <1>1, <1>2, SessionAsks, DeniedRefused DEF Known
<1>4. PICK e, m : /\ e = c \/ e = Moved(c, code)
                  /\ Answer(k, e, <<m>>) /\ m.ctl_code # "REGISTER_NO"
  <2>1. CASE OperateQ(k)
    <3>1. Answer(k, Moved(c, code), <<Message("OPERATE_OK", code)>>)
      BY <1>3, <2>1 DEF OperateQ, Moved
    <3>2. Message("OPERATE_OK", code).ctl_code # "REGISTER_NO"
      BY DEF Message
    <3> QED BY <3>1, <3>2
  <2>2. CASE DownloadPre(k)
    <3>1. Answer(k, c, <<Message("DOWNLOAD_POK", None)>>)
      BY <1>3, <2>2 DEF DownloadPre
    <3>2. Message("DOWNLOAD_POK", None).ctl_code # "REGISTER_NO"
      BY DEF Message
    <3> QED BY <3>1, <3>2
  <2> QED BY <1>1, <2>1, <2>2
<1>5. \E st, nm, cd : e = Entry(c, st, nm, cd)
  BY <1>2, <1>4, Entries
<1>6. conn'[k].down = Append(c.down, m)
  BY <1>2, <1>4, <1>5, Heard
<1> QED BY <1>2, <1>4, <1>6, NotRefusedAppend DEF HasFields

LEMMA TimeoutSteady ==
  ASSUME SessionsFit, Timely, NEW t \in Terminal, Live(t), NEW k, k = cFd[t], Timeout(k)
  PROVE  Steady(t)
<1>1. k \in Conn /\ Fits(t, at[t], login_msg[t], conn[k])
  BY DEF SessionsFit, OwnFits
<1>2. conn[k].owner = t /\ conn[k].peer = "open" /\ HasFields(conn[k])
  BY <1>1 DEF Fits
<1>3. at[t] = "session"
  BY <1>2 DEF Timeout, InDialogue, Live
<1>4. UNCHANGED <<at, login_msg, cFd>> /\ conn'[k] = Expired(conn[k])
  BY <1>1 DEF Timeout, clientVars, SessionsFit, AreFunctions
<1>5. conn'[k].down = conn[k].down
  BY <1>2, <1>4, ExpiredTaken
<1> QED BY <1>3, <1>4, <1>5, SessionSteady

(* A login with the right password: the client holds the new token.        *)
LEMMA LoginHeld ==
  ASSUME Shaped, SessionsHeld, NEW t \in Terminal, at[t] = "dialogue",
         NEW k, k = cFd[t], RegisterQ(k), Matches(Content(k))
  PROVE  TokensHeld' /\ SessionsNamed'
<1> DEFINE c == conn[k]
           q == Content(k)
           m == Message("REGISTER_OK", None)
<1>1. /\ c.up # <<>> /\ c.server = "open" /\ Live(t)
      /\ UNCHANGED <<at, login_msg, cFd>> /\ Head(c.up).ctl_code = "REGISTER_Q"
  BY DEF RegisterQ, Request, Live, clientVars
<1>2. /\ SessionsFit /\ TokensHeld /\ SessionsNamed
  BY DEF SessionsHeld
<1>3. k \in Conn /\ conn = [j \in Conn |-> conn[j]] /\ Waiting(c) /\ HasFields(c)
      /\ Fits(t, "dialogue", login_msg[t], c) /\ c.down = <<>> /\ c.owner = t
  BY <1>1, <1>2, OwnAsks, DialogueAsks DEF Fits
<1>4. q = login_msg[t] /\ login_msg[t].token # NoToken
  BY <1>1, <1>3, DialogueAsks DEF Asking, Content
<1>5. Answer(k, AsUser(c, 2, q.name), <<m>>) /\ MathUser(q)
  BY DEF RegisterQ, AsUser
<1>6. m.ctl_code = "REGISTER_OK"
  BY DEF Message
<1> HIDE DEF m
<1>7. AsUser(c, 2, q.name) = Entry(c, 2, q.name, c.code)
  BY <1>3, Entries
<1>8. conn'[k].down = Append(c.down, m)
  BY <1>3, <1>5, <1>7, Heard
<1>9. conn'[k].down # <<>> /\ conn'[k].down[1] = m
  <2>1. IsSeq(<<>>) /\ Len(<<>>) = 0
    BY Short
  <2>2. Len(conn'[k].down) = 1 /\ conn'[k].down[1] = m
    BY <1>3, <1>8, <2>1, AppendOf
  <2> QED BY <2>1, <2>2
<1>10. Admitted(t)'
  BY <1>1, <1>6, <1>9 DEF Admitted
<1>11. /\ q.name \in Registered' /\ accounts'[q.name].token = q.token
       /\ Registered' = Registered
       /\ \A n \in Registered : n # q.name => accounts'[n].token = accounts[n].token
  BY <1>5, MathUserTokens
<1>12. ASSUME NEW n, n = q.name  PROVE HolderOf(n, t)'
  <2>1. login_msg'[t].name = n /\ login_msg'[t].token = accounts'[n].token
    BY <1>1, <1>4, <1>11, <1>12
  <2> QED BY <1>10, <2>1 DEF HolderOf, Holds
<1>13. ASSUME NEW u \in Terminal, u # t
       PROVE  (Holds(u) => Holds(u)') /\ (Inside(u)' => Inside(u))
  <2>1. Live(u) => cFd[u] \in Conn /\ conn[cFd[u]].owner = u
    BY <1>2 DEF SessionsFit, OwnFits, Fits
  <2>2. Live(u) => cFd[u] # k
    BY <1>3, <1>13, <2>1
  <2>3. \A j \in Conn \ {k} : conn'[j] = conn[j]
    BY <1>3, <1>5 DEF Answer
  <2>4. Live(u) => conn'[cFd[u]] = conn[cFd[u]]
    BY <2>1, <2>2, <2>3
  <2>5. CASE Live(u)
    <3>1. Admitted(u)' <=> Admitted(u)
      BY <1>1, <2>4, <2>5 DEF Admitted
    <3> QED BY <1>1, <2>4, <2>5, <3>1 DEF Holds, Inside
  <2>6. CASE ~Live(u)
    BY <1>1, <2>6 DEF Holds, Inside, Admitted, Live
  <2> QED BY <2>5, <2>6
<1>14. TokensHeld'
  <2> SUFFICES ASSUME NEW n \in Registered', accounts'[n].token # NoToken
               PROVE  \E w \in Terminal : HolderOf(n, w)'
    BY DEF TokensHeld
  <2>1. CASE n = q.name
    BY <1>12, <2>1
  <2>2. CASE n # q.name
    <3>1. n \in Registered /\ accounts'[n].token = accounts[n].token
      BY <1>11, <2>2
    <3>2. PICK w \in Terminal : HolderOf(n, w)
      BY <1>2, <3>1 DEF TokensHeld
    <3>3. w # t
      BY <1>4, <2>2, <3>2 DEF HolderOf
    <3> QED BY <1>1, <1>13, <3>1, <3>2, <3>3 DEF HolderOf
  <2> QED BY <2>1, <2>2
<1>15. SessionsNamed'
  <2> SUFFICES ASSUME NEW u \in Terminal, Inside(u)'
               PROVE  /\ login_msg[u].name \in Registered'
                      /\ accounts'[login_msg[u].name].token # NoToken
    BY <1>1 DEF SessionsNamed
  <2>1. CASE login_msg[u].name = q.name
    BY <1>4, <1>11, <2>1
  <2>2. CASE login_msg[u].name # q.name
    <3>1. Inside(u)
      BY <1>4, <1>13, <2>2
    <3> QED BY <1>2, <1>11, <2>2, <3>1 DEF SessionsNamed
  <2> QED BY <2>1, <2>2
<1> QED BY <1>14, <1>15


LEMMA ServerHeld ==
  ASSUME Timely, Shaped, SessionsHeld, NEW k \in Conn, Serve(k) \/ Timeout(k)
  PROVE  TokensHeld' /\ SessionsNamed'
<1> DEFINE c == conn[k]
           q == Content(k)
<1>1. SessionsFit /\ LoginsOwn /\ TokensHeld /\ SessionsNamed
  BY DEF SessionsHeld
<1>2. CASE RegisterQ(k) /\ Matches(q)
  <2>1. HasFields(c) /\ c.up # <<>> /\ Head(c.up).ctl_code = "REGISTER_Q"
    BY <1>1, <1>2 DEF RegisterQ, Request, LoginsOwn
  <2>2. Len(c.up) \in Nat /\ Len(c.up) > 0 /\ Head(c.up) = c.up[1]
    BY <2>1, TailOf DEF HasFields, IsSeq
  <2>3. ~NoLogin(c.up)
    BY <2>1, <2>2 DEF NoLogin
  <2>4. PICK t \in Terminal : at[t] = "dialogue" /\ cFd[t] = k
    BY <1>1, <2>3 DEF LoginsOwn
  <2> QED BY <1>2, <2>4, LoginHeld
<1>3. CASE ~(RegisterQ(k) /\ Matches(q))
  <2>1. UNCHANGED <<at, login_msg, cFd>> /\ AreFunctions
    BY <1>1, ServerStep DEF SessionsFit
  <2>2. PICK d : conn' = [conn EXCEPT ![k] = d]
    BY <2>1, ServerStep
  <2>3. TokensKept
    <3>1. CASE LoginQ(k)
      BY <3>1, AddUserTokens DEF LoginQ
    <3>2. CASE RegisterQ(k)
      <4>1. UNCHANGED accounts
        BY <1>3, <3>2 DEF RegisterQ
      <4> QED BY <4>1, TableAside
    <3>3. CASE ~LoginQ(k) /\ ~RegisterQ(k)
      <4>1. UNCHANGED accounts
        BY <3>3 DEF Serve, Timeout, LoginPre, RegisterPre, TokenPlese, OperateQ,
           DownloadPre, DownloadQ, ClientQuit
      <4> QED BY <4>1, TableAside
    <3> QED BY <3>1, <3>2, <3>3
  <2>4. ASSUME NEW t \in Terminal  PROVE Steady(t)
    <3>1. CASE Live(t) /\ cFd[t] = k
      <4>1. Fits(t, at[t], login_msg[t], c)
        BY <1>1, <3>1 DEF SessionsFit, OwnFits
      <4>2. CASE Timeout(k)
        BY <1>1, <3>1, <4>2, TimeoutSteady
      <4>3. CASE Serve(k) /\ at[t] = "dialogue"
        <5>1. c.up # <<>> => Head(c.up).ctl_code \in {"LOGIN_PRE", "REGISTER_PRE", "REGISTER_Q"}
          BY <4>1, <4>3, DialogueAsks DEF Asking
        <5>2. LoginPre(k) \/ RegisterPre(k) \/ RegisterQ(k)
          BY <4>1, <4>3, <5>1 DEF Serve, Fits, LoginQ, TokenPlese, OperateQ,
             DownloadPre, DownloadQ, ClientQuit, Request
        <5> QED BY <1>1, <1>3, <3>1, <4>3, <5>2, PreSteady, RefusedSteady
      <4>4. CASE Serve(k) /\ at[t] = "session"
        <5>1. c.up # <<>> /\ c.server = "open"
                => Head(c.up).ctl_code \in {"TOKEN_PLESE", "OPERATE_Q", "DOWNLOAD_PRE"}
          BY <4>1, <4>4, SessionAsks
        <5>2. TokenPlese(k) \/ OperateQ(k) \/ DownloadPre(k)
          BY <4>1, <4>4, <5>1 DEF Serve, Fits, LoginPre, LoginQ, RegisterPre,
             RegisterQ, DownloadQ, ClientQuit, Request
        <5> QED BY <1>1, <3>1, <4>4, <5>2, TokenSteady, CommandSteady
      <4> QED BY <3>1, <4>2, <4>3, <4>4 DEF Live
    <3>2. CASE ~(Live(t) /\ cFd[t] = k)
      <4>1. Live(t) => cFd[t] \in Conn
        BY <1>1 DEF SessionsFit, OwnFits
      <4>2. Live(t) => conn'[cFd[t]] = conn[cFd[t]]
        BY <2>1, <2>2, <3>2, <4>1 DEF AreFunctions
      <4> QED BY <2>1, <4>2, Aside
    <3> QED BY <3>1, <3>2
  <2> QED BY <1>1, <2>3, <2>4, AllSteady
<1> QED BY <1>2, <1>3

LEMMA ServerSessions ==
  ASSUME Timely, Shaped, SessionsHeld, NEW k \in Conn, Serve(k) \/ Timeout(k)
  PROVE  SessionsHeld'
BY ServerKeeps, ServerLogins, ServerHeld DEF SessionsHeld

-----------------------------------------------------------------------------
(* The client's steps *)

(* What t leaves of the connection j.                                      *)
Fine(t, j) ==
  \/ conn'[j] = conn[j] /\ ~(at[t] = "dialogue" /\ cFd[t] = j)
  \/ /\ HasFields(conn'[j])
     /\ NoLogin(conn'[j].up) \/ (at'[t] = "dialogue" /\ cFd'[t] = j)

LEMMA ClientSessions ==
  ASSUME SessionsHeld, NEW t \in Terminal, UNCHANGED accounts,
         \A u \in Terminal \ {t} : /\ at'[u] = at[u] /\ cFd'[u] = cFd[u]
                                   /\ login_msg'[u] = login_msg[u],
         \A j \in Conn : conn[j].owner \notin {t, None} => conn'[j] = conn[j],
         Steady(t), \A j \in Conn : Fine(t, j), SessionsFit'
  PROVE  SessionsHeld'
<1>1. SessionsFit /\ LoginsOwn /\ TokensHeld /\ SessionsNamed
  BY DEF SessionsHeld
<1>2. LoginsOwn'
  BY <1>1, ClientLogins DEF Fine
<1>3. ASSUME NEW u \in Terminal, u # t  PROVE Steady(u)
  <2>1. ASSUME Live(u)  PROVE conn'[cFd[u]] = conn[cFd[u]]
    <3>1. cFd[u] \in Conn /\ conn[cFd[u]].owner = u
      BY <1>1, <2>1 DEF SessionsFit, OwnFits, Fits
    <3> QED BY <1>3, <3>1, AccountsAssumption
  <2> QED BY <1>3, <2>1, Aside
<1>4. TokensKept
  BY TableAside
<1>5. TokensHeld' /\ SessionsNamed'
  BY <1>1, <1>3, <1>4, AllSteady
<1> QED BY <1>2, <1>5 DEF SessionsHeld

(* The same for a step that changes the own connection of t.               *)
LEMMA OwnSessions ==
  ASSUME SessionsHeld, NEW t \in Terminal, Live(t), UNCHANGED accounts,
         NEW d, conn' = [conn EXCEPT ![cFd[t]] = d], HasFields(d),
         NoLogin(d.up) \/ (at'[t] = "dialogue" /\ cFd'[t] = cFd[t]),
         \A u \in Terminal \ {t} : /\ at'[u] = at[u] /\ cFd'[u] = cFd[u]
                                   /\ login_msg'[u] = login_msg[u],
         Steady(t), SessionsFit'
  PROVE  SessionsHeld'
<1>1. cFd[t] \in Conn /\ conn[cFd[t]].owner = t /\ AreFunctions
  BY DEF SessionsHeld, SessionsFit, OwnFits, Fits
<1>2. conn'[cFd[t]] = d /\ \A j \in Conn \ {cFd[t]} : conn'[j] = conn[j]
  BY <1>1 DEF AreFunctions
<1>3. \A j \in Conn : Fine(t, j)
  BY <1>2 DEF Fine
<1>4. \A j \in Conn : conn[j].owner \notin {t, None} => conn'[j] = conn[j]
  BY <1>1, <1>2
<1> QED BY <1>3, <1>4, ClientSessions

LEMMA ClosedHas ==
  ASSUME NEW c, HasFields(c)
  PROVE  HasFields(Closed(c)) /\ (Closed(c).up = <<>> \/ Closed(c).up = c.up)
<1>1. CASE c.server # "open"
  BY <1>1, NoConnHasFields DEF Closed
<1>2. CASE c.server = "open"
  <2>1. PICK r, e : r = c /\ e = <<>>
    OBVIOUS
  <2>2. r = [owner |-> c.owner, transfer |-> c.transfer, up |-> c.up,
             down |-> c.down, peer |-> c.peer, server |-> c.server,
             state |-> c.state, name |-> c.name, code |-> c.code]
    BY <2>1 DEF HasFields
  <2>3. PICK d : d = [owner |-> c.owner, transfer |-> c.transfer, up |-> c.up,
             down |-> e, peer |-> "closed", server |-> c.server,
             state |-> c.state, name |-> c.name, code |-> c.code]
    OBVIOUS
  <2>4. [r EXCEPT !.peer = "closed", !.down = e] = d
    <3>1. PICK f : f = [owner |-> c.owner, transfer |-> c.transfer, up |-> c.up,
             down |-> c.down, peer |-> "closed", server |-> c.server,
             state |-> c.state, name |-> c.name, code |-> c.code]
      OBVIOUS
    <3>2. [r EXCEPT !.peer = "closed"] = f
      BY <2>2, <3>1
    <3>3. [f EXCEPT !.down = e] = d
      BY <2>3, <3>1
    <3> QED BY <3>2, <3>3
  <2>5. Closed(c) = d
    BY <1>2, <2>1, <2>4 DEF Closed
  <2>6. IsSeq(e)
    BY <2>1, Short
  <2>7. HasFields(d) /\ d.up = c.up
    BY <2>3, <2>6 DEF HasFields
  <2> QED BY <2>5, <2>7
<1> QED BY <1>1, <1>2

(* What no login is behind.                                                *)
LEMMA OwnNoLogin ==
  ASSUME SessionsHeld, NEW t \in Terminal, Live(t),
         at[t] = "session" \/ Answered(login_msg[t], conn[cFd[t]])
  PROVE  NoLogin(conn[cFd[t]].up)
<1>1. cFd[t] \in Conn /\ conn[cFd[t]].owner = t /\ SessionsFit /\ LoginsOwn
  BY DEF SessionsHeld, SessionsFit, OwnFits, Fits
<1>2. CASE at[t] = "session"
  BY <1>1, <1>2, SessionNoLogin
<1>3. CASE Answered(login_msg[t], conn[cFd[t]])
  BY <1>3, NoLoginShort DEF Answered
<1> QED BY <1>2, <1>3

LEMMA NotRefusedTail ==
  ASSUME NEW s, IsSeq(s), s # <<>>
  PROVE  /\ NotRefused(s) => NotRefused(Tail(s))
         /\ Head(s).ctl_code = "REGISTER_NO" => ~NotRefused(s)
<1>1. /\ Len(Tail(s)) = Len(s) - 1 /\ Len(s) \in Nat /\ Len(s) > 0
      /\ \A i \in 1..Len(Tail(s)) : Tail(s)[i] = s[i + 1] /\ Head(s) = s[1]
      /\ Head(s) = s[1]
  BY TailOf DEF IsSeq
<1>2. NotRefused(s) => NotRefused(Tail(s))
  BY <1>1 DEF NotRefused
<1>3. 1 \in 1..Len(s)
  BY <1>1
<1> QED BY <1>1, <1>2, <1>3 DEF NotRefused


(* One lemma for each action of a client.                                  *)
LEMMA RefusedHeld ==
  ASSUME SessionsHeld, NEW t \in Terminal, Refused(t) \/ LoginPok(t)
  PROVE  SessionsHeld' /\ ~Holds(t)
<1> DEFINE c == conn[cFd[t]]
           m == Message("LOGIN_Q", login_msg'[t])
<1>1. /\ Live(t) /\ c.down # <<>> /\ SessionsFit /\ UNCHANGED accounts
      /\ Head(c.down).ctl_code \in {"LOGIN_NO", "REGISTER_NO", "LOGIN_POK"}
      /\ LoginPok(t) => Head(c.down).ctl_code = "LOGIN_POK"
  BY DEF Refused, LoginPok, Reply, Live, SessionsHeld
<1>2. SessionsFit'
  BY <1>1, RefusedKeeps
<1>3. /\ HasFields(c) /\ c.owner = t /\ Head(c.down) = c.down[1] /\ Len(c.down) > 0
      /\ \/ /\ at[t] = "dialogue" /\ c.server = "open"
            /\ Answered(login_msg[t], c)
         \/ at[t] = "session" /\ InSession(login_msg[t], c)
  BY <1>1, Replying
<1>4. IsSeq(c.down) /\ 1 \in 1..Len(c.down)
  BY <1>3 DEF HasFields, IsSeq
<1>5. ~Holds(t)
  <2>1. CASE at[t] = "dialogue"
    BY <1>1, <1>3, <2>1 DEF Holds, Admitted
  <2>2. CASE at[t] = "session" /\ InSession(login_msg[t], c)
    <3>1. c.down[1].ctl_code = "REGISTER_NO"
      BY <1>1, <1>3, <1>4, <2>2 DEF InSession, Answers
    <3> QED BY <1>3, <1>4, <2>2, <3>1 DEF Holds, Admitted, NotRefused
  <2> QED BY <1>3, <2>1, <2>2
<1>6. /\ cFd' = [cFd EXCEPT ![t] = 0] /\ at' = [at EXCEPT ![t] = "menu"]
      /\ \E d : conn' = [conn EXCEPT ![cFd[t]] = Closed(d)]
      /\ Refused(t) => conn' = [conn EXCEPT ![cFd[t]] = Closed(Read(c))]
      /\ LoginPok(t) => conn' = [conn EXCEPT ![cFd[t]] = Closed(Sent(Read(c), m))]
  BY DEF Refused, LoginPok, LoginBegin, Rest, Read
<1>7. at'[t] = "menu" /\ \A u \in Terminal \ {t} : at'[u] = at[u] /\ cFd'[u] = cFd[u]
  BY <1>1, <1>6 DEF SessionsFit, AreFunctions
<1>8. \A u \in Terminal \ {t} : login_msg'[u] = login_msg[u]
  <2>1. CASE Refused(t)
    BY <2>1 DEF Refused
  <2>2. CASE LoginPok(t)
    <3> DEFINE v == Replied(t)  w == Crypt(buf[t], Replied(t))
               f == WithToken(login_msg, t, v)
    <3>1. login_msg' = WithPassward(f, t, w)
      BY <2>2 DEF LoginPok, WithToken, WithPassward
    <3>2. Records(f) /\ \A u \in Terminal \ {t} : f[u] = login_msg[u]
      BY <1>1, Fields DEF SessionsFit, AreFunctions
    <3> HIDE DEF f, v, w
    <3> QED BY <3>1, <3>2, Fields
  <2> QED BY <2>1, <2>2
<1>9. /\ HasFields(Read(c)) /\ Read(c).up = c.up /\ Read(c).server = c.server
      /\ NoLogin(c.up)
  BY <1>1, <1>3, ReadIs, OwnNoLogin
<1>10. PICK d : conn' = [conn EXCEPT ![cFd[t]] = Closed(d)] /\ HasFields(d) /\ NoLogin(d.up)
  <2>1. CASE Refused(t)
    BY <1>6, <1>9, <2>1
  <2>2. CASE LoginPok(t)
    <3>1. at[t] = "dialogue" /\ c.server = "open" /\ Answered(login_msg[t], c)
      BY <1>1, <1>3, <1>4, <2>2 DEF InSession, Answers
    <3>2. Read(c).up = <<>> /\ Read(c).server = "open"
      BY <1>3, <1>9, <3>1, ReadDialogue
    <3>3. m.ctl_code = "LOGIN_Q"
      BY DEF Message
    <3> HIDE DEF m
    <3>4. PICK e : e = Sent(Read(c), m)
      OBVIOUS
    <3>5. HasFields(e) /\ Len(e.up) = 1 /\ e.up[1] = m
      BY <1>9, <3>2, <3>4, SentAlone
    <3>6. NoLogin(e.up)
      BY <3>3, <3>5 DEF NoLogin
    <3> QED BY <1>6, <2>2, <3>4, <3>5, <3>6
  <2> QED BY <2>1, <2>2
<1>11. HasFields(Closed(d)) /\ NoLogin(Closed(d).up)
  BY <1>10, ClosedHas, NoLoginShort
<1>12. Steady(t)
  BY <1>5, <1>7 DEF Steady, HolderOf, Inside, Admitted
<1> QED BY <1>1, <1>2, <1>5, <1>7, <1>8, <1>10, <1>11, <1>12, OwnSessions

LEMMA RegisterPokHeld ==
  ASSUME SessionsHeld, NEW t \in Terminal, RegisterPok(t)
  PROVE  SessionsHeld'
<1> DEFINE c == conn[cFd[t]]
           m == Message("REGISTER_Q", login_msg'[t])
<1>1. /\ Live(t) /\ c.down # <<>> /\ SessionsFit /\ UNCHANGED <<accounts, at, cFd>>
      /\ Head(c.down).ctl_code = "REGISTER_POK"
  BY DEF RegisterPok, Reply, Live, SessionsHeld
<1>2. SessionsFit'
  BY <1>1, RegisterPokKeeps
<1>3. /\ HasFields(c) /\ c.owner = t /\ Head(c.down) = c.down[1] /\ Len(c.down) > 0
      /\ \/ /\ at[t] = "dialogue" /\ c.server = "open"
            /\ Answered(login_msg[t], c)
         \/ at[t] = "session" /\ InSession(login_msg[t], c)
  BY <1>1, Replying
<1>4. IsSeq(c.down) /\ 1 \in 1..Len(c.down)
  BY <1>3 DEF HasFields, IsSeq
<1>5. at[t] = "dialogue" /\ c.server = "open" /\ Answered(login_msg[t], c)
  BY <1>1, <1>3, <1>4 DEF InSession, Answers
<1>6. /\ HasFields(Read(c)) /\ Read(c).up = <<>> /\ Read(c).down = <<>>
      /\ Read(c).server = "open"
  <2>1. Tail(c.down) = <<>> /\ c.up = <<>>
    BY <1>3, <1>5, ReadDialogue
  <2> QED BY <1>1, <1>3, <1>5, <2>1, ReadIs
<1> HIDE DEF m
<1>7. PICK d : d = Sent(Read(c), m)
  OBVIOUS
<1>8. HasFields(d) /\ d.down = <<>>
  BY <1>6, <1>7, SentAlone
<1>9. conn' = [conn EXCEPT ![cFd[t]] = d]
  BY <1>7 DEF RegisterPok, Rest, Read, m
<1>10. \A u \in Terminal \ {t} : login_msg'[u] = login_msg[u]
  <2> DEFINE f == WithPassward(login_msg, t, Crypt(buf[t], Replied(t)))
  <2>1. login_msg' = WithToken(f, t, <<login_msg[t].name, now'>>)
    BY DEF RegisterPok, WithToken, WithPassward
  <2>2. Records(f) /\ \A u \in Terminal \ {t} : f[u] = login_msg[u]
    BY <1>1, Fields DEF SessionsFit, AreFunctions
  <2> HIDE DEF f
  <2> QED BY <2>1, <2>2, Fields
<1>11. conn'[cFd'[t]].down = <<>>
  BY <1>1, <1>8, <1>9 DEF SessionsFit, OwnFits, AreFunctions
<1>12. ~Holds(t) /\ ~Inside(t)'
  BY <1>1, <1>3, <1>5, <1>11 DEF Holds, Inside, Admitted
<1>13. Steady(t)
  BY <1>12 DEF Steady, HolderOf
<1> QED BY <1>1, <1>2, <1>5, <1>8, <1>9, <1>10, <1>13, OwnSessions

LEMMA RegisterOkHeld ==
  ASSUME SessionsHeld, NEW t \in Terminal, RegisterOk(t)
  PROVE  SessionsHeld'
<1> DEFINE c == conn[cFd[t]]
<1>1. /\ Live(t) /\ c.down # <<>> /\ SessionsFit /\ UNCHANGED <<accounts, cFd>>
      /\ Head(c.down).ctl_code = "REGISTER_OK"
  BY DEF RegisterOk, Reply, Live, SessionsHeld
<1>2. SessionsFit'
  BY <1>1, RegisterOkKeeps
<1>3. /\ HasFields(c) /\ Head(c.down) = c.down[1] /\ Len(c.down) > 0
      /\ \/ at[t] = "dialogue" /\ Answered(login_msg[t], c)
         \/ at[t] = "session" /\ InSession(login_msg[t], c)
  BY <1>1, Replying
<1>4. IsSeq(c.down) /\ 1 \in 1..Len(c.down)
  BY <1>3 DEF HasFields, IsSeq
<1>5. at[t] = "dialogue" /\ Answered(login_msg[t], c)
  BY <1>1, <1>3, <1>4 DEF InSession, Answers
<1>6. PICK d : d = Read(c)
  OBVIOUS
<1>7. HasFields(d) /\ d.up = <<>> /\ d.down = <<>>
  <2>1. Tail(c.down) = <<>> /\ c.up = <<>>
    BY <1>3, <1>5, ReadDialogue
  <2> QED BY <1>1, <1>3, <1>6, <2>1, ReadIs
<1>8. conn' = [conn EXCEPT ![cFd[t]] = d] /\ at' = [at EXCEPT ![t] = "session"]
  BY <1>6 DEF RegisterOk, Consumed, Rest, Read
<1>9. /\ login_msg'[t].name = login_msg[t].name /\ login_msg'[t].token = login_msg[t].token
      /\ \A u \in Terminal \ {t} : login_msg'[u] = login_msg[u]
  <2>1. login_msg' = WithPassward(login_msg, t, Root)
    BY DEF RegisterOk, WithPassward
  <2> QED BY <1>1, <2>1, Fields DEF SessionsFit, AreFunctions
<1>10. at'[t] = "session" /\ \A u \in Terminal \ {t} : at'[u] = at[u]
  BY <1>1, <1>8 DEF SessionsFit, AreFunctions
<1>11. conn'[cFd'[t]].down = <<>>
  BY <1>1, <1>7, <1>8 DEF SessionsFit, OwnFits, AreFunctions
<1>12. Admitted(t)
  BY <1>1, <1>3, <1>5 DEF Admitted
<1>13. Holds(t)'
  BY <1>10, <1>11, Short DEF Holds, NotRefused
<1>14. Steady(t)
  BY <1>9, <1>12, <1>13 DEF Steady, Inside
<1>15. NoLogin(d.up)
  BY <1>7, NoLoginShort
<1> QED BY <1>1, <1>2, <1>7, <1>8, <1>9, <1>10, <1>14, <1>15, OwnSessions

(* A reply to a command.                                                   *)
LEMMA ReadHeld ==
  ASSUME SessionsHeld, NEW t \in Terminal, OperateOk(t) \/ DownloadPok(t)
  PROVE  SessionsHeld'
<1> DEFINE c == conn[cFd[t]]
<1>1. /\ Live(t) /\ c.down # <<>> /\ SessionsFit /\ UNCHANGED <<accounts, at, cFd>>
      /\ Head(c.down).ctl_code \in {"OPERATE_OK", "DOWNLOAD_POK"}
  BY DEF OperateOk, DownloadPok, Reply, Live, SessionsHeld
<1>2. SessionsFit'
  BY <1>1, OperateOkKeeps, DownloadPokKeeps
<1>3. at[t] = "session" /\ HasFields(c)
  BY <1>1, Replying DEF Answered
<1>4. PICK d : d = Read(c)
  OBVIOUS
<1>5. HasFields(d) /\ d.up = c.up /\ d.down = Tail(c.down)
  BY <1>1, <1>3, <1>4, ReadIs
<1>6. conn' = [conn EXCEPT ![cFd[t]] = d]
  BY <1>4 DEF OperateOk, DownloadPok, Consumed, Rest, Read
<1>7. /\ login_msg'[t].name = login_msg[t].name /\ login_msg'[t].token = login_msg[t].token
      /\ \A u \in Terminal \ {t} : login_msg'[u] = login_msg[u]
  <2>1. CASE OperateOk(t)
    <3>1. login_msg' = WithPassward(login_msg, t, Replied(t))
      BY <2>1 DEF OperateOk, WithPassward
    <3> QED BY <1>1, <3>1, Fields DEF SessionsFit, AreFunctions
  <2>2. CASE DownloadPok(t)
    BY <2>2 DEF DownloadPok
  <2> QED BY <2>1, <2>2
<1>8. conn'[cFd'[t]].down = Tail(c.down)
  BY <1>1, <1>5, <1>6 DEF SessionsFit, OwnFits, AreFunctions
<1>9. Holds(t) => Holds(t)'
  BY <1>1, <1>3, <1>8, NotRefusedTail DEF Holds, Admitted, HasFields
<1>10. Steady(t)
  BY <1>3, <1>7, <1>9 DEF Steady, HolderOf, Inside
<1>11. NoLogin(d.up)
  BY <1>1, <1>3, <1>5, OwnNoLogin
<1> QED BY <1>1, <1>2, <1>5, <1>6, <1>7, <1>10, <1>11, OwnSessions


LEMMA ReconnectHeld ==
  ASSUME SessionsHeld, NEW t \in Terminal, Reconnect(t)
  PROVE  SessionsHeld'
<1>1. /\ Live(t) /\ SessionsFit /\ conn[cFd[t]].server = "fin"
      /\ UNCHANGED <<accounts, at, login_msg, cFd>>
  BY DEF Reconnect, Live, clientVars, SessionsHeld
<1>2. SessionsFit' /\ at[t] = "session"
  BY <1>1, ReconnectKeeps DEF SessionsFit, OwnFits, Fits
<1>3. PICK no, ms, d : no = FALSE /\ ms = <<Token(t)>> /\ d = Connection(t, no, ms)
  OBVIOUS
<1>4. IsSeq(ms) /\ NoLogin(ms)
  <2>1. Token(t).ctl_code # "REGISTER_Q"
    BY DEF Token, Message
  <2> QED BY <1>3, <2>1, Short, NoLoginShort
<1>5. conn' = [conn EXCEPT ![cFd[t]] = d]
  BY <1>3 DEF Reconnect, Renewed, Greeting
<1>6. HasFields(d) /\ d.up = ms /\ d.down = <<>>
  BY <1>3, <1>4, ConnectionIs
<1>7. conn'[cFd'[t]].down = <<>>
  BY <1>1, <1>5, <1>6 DEF SessionsFit, OwnFits, AreFunctions
<1>8. Holds(t)'
  BY <1>1, <1>2, <1>7, Short DEF Holds, NotRefused
<1>9. Steady(t)
  BY <1>1, <1>2, <1>8 DEF Steady, Inside
<1> QED BY <1>1, <1>2, <1>4, <1>5, <1>6, <1>9, OwnSessions

LEMMA TokenIdentHeld ==
  ASSUME SessionsHeld, NEW t \in Terminal, TokenIdent(t)
  PROVE  SessionsHeld'
<1>1. SessionsFit /\ UNCHANGED <<accounts, at, login_msg, cFd>>
  BY DEF TokenIdent, SessionsHeld
<1>2. SessionsFit'
  BY <1>1, TokenIdentKeeps
<1>3. PICK k : k = Least(Free)
  OBVIOUS
<1>4. k \in Conn /\ conn[k].owner = None
  BY <1>3, LeastFree DEF TokenIdent, NoConn
<1>5. PICK yes, a, m, ms, d :
        /\ yes = TRUE /\ a = Token(t) /\ m = Message("DOWNLOAD_Q", None)
        /\ ms = <<a, m>> /\ d = Connection(t, yes, ms)
  OBVIOUS
<1>6. IsSeq(ms) /\ NoLogin(ms)
  <2>1. a.ctl_code # "REGISTER_Q" /\ m.ctl_code # "REGISTER_Q"
    BY <1>5 DEF Token, Message
  <2> QED BY <1>5, <2>1, Short, NoLoginShort
<1>7. conn' = [conn EXCEPT ![k] = d]
  <2>1. conn' = [conn EXCEPT ![k] = Connection(t, TRUE, Transfer(t))]
    BY <1>3 DEF TokenIdent
  <2>2. Transfer(t) = ms
    BY <1>5 DEF Transfer
  <2>3. d = Connection(t, TRUE, ms)
    BY <1>5, Zenon
  <2> QED BY <2>1, <2>2, <2>3, Zenon
<1>8. HasFields(d) /\ d.up = ms
  <2>1. d = Connection(t, yes, ms)
    BY <1>5
  <2> QED BY <1>6, <2>1, ConnectionIs
<1>9. conn'[k] = d /\ \A j \in Conn \ {k} : conn'[j] = conn[j]
  BY <1>1, <1>4, <1>7 DEF SessionsFit, AreFunctions
<1>10. Live(t) => cFd[t] \in Conn /\ cFd[t] # k
  BY <1>1, <1>4, AccountsAssumption DEF SessionsFit, OwnFits, Fits
<1>11. Steady(t)
  BY <1>1, <1>9, <1>10, Aside
<1>12. ASSUME NEW j \in Conn  PROVE Fine(t, j)
  <2>1. CASE j = k
    BY <1>6, <1>8, <1>9, <2>1 DEF Fine
  <2>2. CASE j # k /\ ~(at[t] = "dialogue" /\ cFd[t] = j)
    BY <1>9, <2>2 DEF Fine
  <2>3. CASE j # k /\ at[t] = "dialogue" /\ cFd[t] = j
    <3>1. HasFields(conn[j])
      BY DEF SessionsHeld, LoginsOwn
    <3> QED BY <1>1, <1>9, <2>3, <3>1 DEF Fine
  <2> QED BY <2>1, <2>2, <2>3
<1>13. \A j \in Conn : conn[j].owner \notin {t, None} => conn'[j] = conn[j]
  BY <1>4, <1>9
<1> QED BY <1>1, <1>2, <1>11, <1>12, <1>13, ClientSessions

LEMMA DialogueHeld ==
  ASSUME SessionsHeld, NEW t \in Terminal, NEW n, NEW password,
         NEW ctl_code \in {"LOGIN_PRE", "REGISTER_PRE"},
         Dialogue(t, n, password, ctl_code)
  PROVE  SessionsHeld'
<1>1. SessionsFit /\ UNCHANGED accounts /\ at[t] = "menu"
  BY DEF Dialogue, SessionsHeld
<1>2. SessionsFit'
  BY <1>1, DialogueKeeps
<1>3. PICK k : k = Least(Free)
  OBVIOUS
<1>4. k \in Conn /\ conn[k].owner = None
  BY <1>3, LeastFree DEF Dialogue, NoConn
<1>5. PICK no, m, ms, d : /\ no = FALSE /\ m = Message(ctl_code, n)
                          /\ ms = <<m>> /\ d = Connection(t, no, ms)
  OBVIOUS
<1>6. IsSeq(ms)
  BY <1>5, Short
<1>7. /\ conn' = [conn EXCEPT ![k] = d]
      /\ cFd' = [cFd EXCEPT ![t] = k] /\ at' = [at EXCEPT ![t] = "dialogue"]
      /\ login_msg' = WithName(login_msg, t, n)
  BY <1>3, <1>5 DEF Dialogue, WithName
<1>8. HasFields(d) /\ d.down = <<>>
  BY <1>5, <1>6, ConnectionIs
<1>9. conn'[k] = d /\ \A j \in Conn \ {k} : conn'[j] = conn[j]
  BY <1>1, <1>4, <1>7 DEF SessionsFit, AreFunctions
<1>10. cFd'[t] = k /\ at'[t] = "dialogue"
       /\ \A u \in Terminal \ {t} : at'[u] = at[u] /\ cFd'[u] = cFd[u]
  BY <1>1, <1>7 DEF SessionsFit, AreFunctions
<1>11. \A u \in Terminal \ {t} : login_msg'[u] = login_msg[u]
  BY <1>1, <1>7, Fields DEF SessionsFit, AreFunctions
<1>12. Steady(t)
  BY <1>1, <1>8, <1>9, <1>10 DEF Steady, HolderOf, Holds, Inside, Admitted
<1>13. \A j \in Conn : Fine(t, j)
  BY <1>1, <1>8, <1>9, <1>10 DEF Fine
<1>14. \A j \in Conn : conn[j].owner \notin {t, None} => conn'[j] = conn[j]
  BY <1>4, <1>9
<1> QED BY <1>1, <1>2, <1>10, <1>11, <1>12, <1>13, <1>14, ClientSessions

(* A command that is written, whatever has become of the connection.       *)
LEMMA SentNoLogin ==
  ASSUME NEW c, HasFields(c), NoLogin(c.up), NEW m, m.ctl_code # "REGISTER_Q"
  PROVE  LET d == Sent(c, m)
         IN HasFields(d) /\ NoLogin(d.up) /\ d.down = c.down
<1>1. PICK v : v = Append(c.up, m)
  OBVIOUS
<1>2. IsSeq(v) /\ NoLogin(v)
  BY <1>1, AppendOf, NoLoginAppend DEF HasFields
<1>3. PICK r : r = c
  OBVIOUS
<1>4. r = [owner |-> c.owner, transfer |-> c.transfer, up |-> c.up,
           down |-> c.down, peer |-> c.peer, server |-> c.server,
           state |-> c.state, name |-> c.name, code |-> c.code]
  BY <1>3 DEF HasFields
<1>5. [r EXCEPT !.up = v] =
        [owner |-> c.owner, transfer |-> c.transfer, up |-> v,
         down |-> c.down, peer |-> c.peer, server |-> c.server,
         state |-> c.state, name |-> c.name, code |-> c.code]
  BY <1>4
<1>6. Sent(c, m) = [r EXCEPT !.up = v] \/ Sent(c, m) = c
  BY <1>1, <1>3 DEF Sent
<1> QED BY <1>2, <1>5, <1>6 DEF HasFields

LEMMA PipeHas ==
  ASSUME NEW c, HasFields(c)
  PROVE  LET d == [c EXCEPT !.server = "pipe"]
         IN HasFields(d) /\ d.up = c.up /\ d.down = c.down
<1>1. PICK r : r = c
  OBVIOUS
<1>2. r = [owner |-> c.owner, transfer |-> c.transfer, up |-> c.up,
           down |-> c.down, peer |-> c.peer, server |-> c.server,
           state |-> c.state, name |-> c.name, code |-> c.code]
  BY <1>1 DEF HasFields
<1>3. PICK d : d = [owner |-> c.owner, transfer |-> c.transfer, up |-> c.up,
         down |-> c.down, peer |-> c.peer, server |-> "pipe",
         state |-> c.state, name |-> c.name, code |-> c.code]
  OBVIOUS
<1>4. [r EXCEPT !.server = "pipe"] = d
  BY <1>2, <1>3
<1>5. HasFields(d) /\ d.up = c.up /\ d.down = c.down
  BY <1>3 DEF HasFields
<1> QED BY <1>1, <1>4, <1>5

LEMMA CommandHeld ==
  ASSUME Timely, SessionsHeld, NEW t \in Terminal, NEW m,
         m.ctl_code \in {"OPERATE_Q", "DOWNLOAD_PRE"},
         Ssend(t, m), at[t] = "session", login_msg' = login_msg, UNCHANGED accounts
  PROVE  SessionsHeld'
<1>1. SessionsFit /\ Live(t) /\ m.ctl_code # "REGISTER_Q"
  BY DEF SessionsHeld, Live
<1>2. SessionsFit'
  BY <1>1, CommandKeeps
<1>3. PICK k, c : k = cFd[t] /\ c = conn[k]
  OBVIOUS
<1>4. k \in Conn /\ HasFields(c) /\ c.owner = t /\ k # 0
      /\ c.server \in {"open", "fin", "rst", "pipe"}
  BY <1>1, <1>3, AccountsAssumption DEF SessionsFit, OwnFits, Fits, InSession
<1>5. NoLogin(c.up)
  BY <1>1, <1>3, OwnNoLogin
<1>6. ASSUME NEW d, conn' = [conn EXCEPT ![k] = d], UNCHANGED <<at, cFd>>,
             HasFields(d), NoLogin(d.up), d.down = c.down \/ d.down = <<>>
      PROVE  SessionsHeld'
  <2>1. conn'[cFd'[t]] = d
    BY <1>1, <1>3, <1>4, <1>6 DEF SessionsFit, AreFunctions
  <2>2. Holds(t) => Holds(t)'
    BY <1>3, <1>6, <2>1, Short DEF Holds, Admitted, NotRefused
  <2>3. Steady(t)
    BY <1>6, <2>2 DEF Steady, HolderOf, Inside
  <2> QED BY <1>1, <1>2, <1>3, <1>6, <2>3, OwnSessions
<1>7. CASE c.server = "open"
  <2>1. PICK d : d = Sent(c, m)
    OBVIOUS
  <2>2. conn' = [conn EXCEPT ![k] = d] /\ UNCHANGED <<at, cFd>>
    BY <1>3, <1>7, <2>1 DEF Ssend
  <2>3. HasFields(d) /\ NoLogin(d.up) /\ d.down = c.down
    BY <1>1, <1>4, <1>5, <2>1, SentNoLogin
  <2> QED BY <1>6, <2>2, <2>3
<1>8. CASE c.server = "fin"
  <2>1. UNCHANGED <<at, cFd>>
    BY <1>3, <1>8 DEF Ssend
  <2>2. PICK d : d = [c EXCEPT !.server = "pipe"]
    OBVIOUS
  <2>3. conn' = conn \/ conn' = [conn EXCEPT ![k] = d]
    BY <1>3, <1>8, <2>2 DEF Ssend
  <2>4. CASE conn' = conn
    <3>1. conn' = [conn EXCEPT ![k] = c]
      BY <1>1, <1>3, <2>4 DEF SessionsFit, AreFunctions
    <3> QED BY <1>4, <1>5, <1>6, <2>1, <3>1
  <2>5. CASE conn' = [conn EXCEPT ![k] = d]
    <3>1. HasFields(d) /\ d.up = c.up /\ d.down = c.down
      BY <1>4, <2>2, PipeHas
    <3> QED BY <1>5, <1>6, <2>1, <2>5, <3>1
  <2> QED BY <2>3, <2>4, <2>5
<1>9. CASE c.server = "pipe"
  <2>1. /\ at' = [at EXCEPT ![t] = "dead"] /\ cFd' = [cFd EXCEPT ![t] = 0]
        /\ conn' = [j \in Conn |-> IF conn[j].owner = t THEN Closed(conn[j])
                                                       ELSE conn[j]]
    BY <1>3, <1>9 DEF Ssend
  <2>2. at'[t] = "dead" /\ \A u \in Terminal \ {t} : at'[u] = at[u] /\ cFd'[u] = cFd[u]
    BY <1>1, <2>1 DEF SessionsFit, AreFunctions
  <2>3. \A j \in Conn : conn[j].owner \notin {t, None} => conn'[j] = conn[j]
    BY <2>1
  <2>4. Steady(t)
    BY <2>2 DEF Steady, Holds, Inside, Admitted
  <2>5. ASSUME NEW j \in Conn  PROVE Fine(t, j)
    <3>1. CASE conn[j].owner = t
      <4>1. NoLogin(conn[j].up) /\ HasFields(conn[j])
        BY <1>1, <3>1, SessionNoLogin DEF SessionsHeld, LoginsOwn
      <4>2. conn'[j] = Closed(conn[j])
        BY <2>1, <3>1
      <4>3. HasFields(conn'[j]) /\ NoLogin(conn'[j].up)
        BY <4>1, <4>2, ClosedHas, NoLoginShort
      <4> QED BY <4>3 DEF Fine
    <3>2. CASE conn[j].owner # t
      BY <2>1, <3>2 DEF Fine
    <3> QED BY <3>1, <3>2
  <2> QED BY <1>2, <2>2, <2>3, <2>4, <2>5, ClientSessions
<1>10. CASE c.server = "rst"
  <2>1. PICK no, a, ms, d : /\ no = FALSE /\ a = Token(t) /\ ms = <<a, m>>
                            /\ d = Connection(t, no, ms)
    OBVIOUS
  <2>2. IsSeq(ms) /\ NoLogin(ms)
    <3>1. a.ctl_code # "REGISTER_Q"
      BY <2>1 DEF Token, Message
    <3> QED BY <1>1, <2>1, <3>1, Short, NoLoginShort
  <2>3. conn' = [conn EXCEPT ![k] = d] /\ cFd' = [cFd EXCEPT ![t] = k] /\ UNCHANGED at
    BY <1>3, <1>10, <2>1 DEF Ssend, Renewed, Resent
  <2>4. cFd' = cFd
    BY <1>1, <1>3, <2>3 DEF SessionsFit, AreFunctions
  <2>5. HasFields(d) /\ d.up = ms /\ d.down = <<>>
    BY <2>1, <2>2, ConnectionIs
  <2> QED BY <1>6, <2>2, <2>3, <2>4, <2>5
<1> QED BY <1>4, <1>7, <1>8, <1>9, <1>10

LEMMA ClientHeld ==
  ASSUME Timely, SessionsHeld, NEW t \in Terminal, ClientStep(t) \/ UserStep(t)
  PROVE  SessionsHeld'
<1>1. CASE ClientStep(t)
  BY <1>1, RefusedHeld, RegisterPokHeld, RegisterOkHeld, ReadHeld, ReconnectHeld,
     TokenIdentHeld DEF ClientStep
<1>2. ASSUME NEW n \in User, NEW password \in Password,
             Registration(t, n, password) \/ Login(t, n, password)
      PROVE  SessionsHeld'
  BY <1>2, DialogueHeld DEF Registration, Login
<1>3. ASSUME NEW m, m.ctl_code \in {"OPERATE_Q", "DOWNLOAD_PRE"}, Command(t, m)
      PROVE  SessionsHeld'
  <2>1. Ssend(t, m) /\ at[t] = "session" /\ login_msg' = login_msg /\ UNCHANGED accounts
    BY <1>3 DEF Command
  <2> QED BY <1>3, <2>1, CommandHeld
<1>4. CASE Cd(t) \/ Gets(t)
  BY <1>3, <1>4 DEF Cd, Gets, Message
<1> QED BY <1>1, <1>2, <1>4 DEF UserStep

LEMMA SessionsHold ==
  ASSUME Timely, Shaped, SessionsHeld, [Next]_vars
  PROVE  SessionsHeld'
<1>1. CASE UNCHANGED vars
  <2>1. UNCHANGED <<accounts, conn, at, login_msg, cFd>>
    BY <1>1 DEF vars, clientVars
  <2>2. \A t : Steady(t)
    BY <2>1, Aside
  <2>3. SessionsFit' /\ LoginsOwn'
    BY <1>1, <2>1, SessionsKeep DEF SessionsHeld, LoginsOwn
  <2>4. TokensHeld' /\ SessionsNamed'
    BY <2>1, <2>2, TableAside, AllSteady DEF SessionsHeld
  <2> QED BY <2>3, <2>4 DEF SessionsHeld
<1> QED BY <1>1, ServerSessions, ClientHeld DEF Next

LEMMA SessionsHeldBegin == Init => SessionsHeld
<1> SUFFICES ASSUME Init PROVE SessionsHeld
  OBVIOUS
<1>1. SessionsFit
  BY SessionsBegin
<1>2. LoginsOwn
  BY NoConnHasFields, NoLoginShort DEF Init, LoginsOwn
<1>3. ASSUME NEW n \in Registered  PROVE accounts[n].token = NoToken
  <2>1. accounts[n] \in {NoAccount} \cup
          [salt : Salt, ciphertext : Password \X Salt, token : {NoToken}]
    BY DEF Init, Registered
  <2>2. accounts[n] # NoAccount
    BY DEF Registered
  <2> QED BY <2>1, <2>2
<1>4. TokensHeld
  BY <1>3 DEF TokensHeld
<1>5. SessionsNamed
  BY DEF Init, SessionsNamed, Inside, Admitted
<1> QED BY <1>1, <1>2, <1>4, <1>5 DEF SessionsHeld

(* A client that falls out of its session does not hold the token in the   *)
(* table: another one does.                                                *)
LEMMA FallenOut ==
  ASSUME Timely, SessionsHeld, [Next]_vars, NEW t \in Terminal,
         at[t] = "session", at'[t] = "menu"
  PROVE  LoggedInElsewhere(t)
<1>1. SessionsFit /\ TokensHeld /\ SessionsNamed
  BY DEF SessionsHeld
<1>2. PICK u \in Terminal : ClientStep(u) \/ UserStep(u)
  BY <1>1, ServerStep DEF Next, vars, clientVars, SessionsFit
<1>3. Refused(t) \/ LoginPok(t)
  <2>1. ASSUME NEW v \in Terminal, v # t, ClientStep(v) \/ UserStep(v)
        PROVE  at'[t] = at[t]
    BY <1>1, <2>1 DEF ClientStep, UserStep, Refused, LoginPok, LoginBegin,
       RegisterPok, RegisterOk, OperateOk, DownloadPok, Reconnect, clientVars,
       TokenIdent, Cd, Gets, Command, Ssend, Registration, Login, Dialogue,
       SessionsFit, AreFunctions
  <2>2. u = t
    BY <1>2, <2>1
  <2>3. ~UserStep(t)
    BY <1>1 DEF UserStep, Cd, Gets, Command, Ssend, Registration, Login, Dialogue,
       SessionsFit, AreFunctions
  <2> QED BY <1>1, <1>2, <2>2, <2>3 DEF ClientStep, RegisterPok, RegisterOk,
       OperateOk, DownloadPok, Reconnect, clientVars, TokenIdent, SessionsFit,
       AreFunctions
<1>4. ~Holds(t)
  BY <1>3, RefusedHeld
<1>5. PICK n : n = login_msg[t].name
  OBVIOUS
<1>6. n \in Registered /\ accounts[n].token # NoToken
  BY <1>1, <1>5 DEF SessionsNamed, Inside
<1>7. PICK w \in Terminal : HolderOf(n, w)
  BY <1>1, <1>6 DEF TokensHeld
<1>8. w # t
  BY <1>4, <1>7 DEF HolderOf
<1> QED BY <1>5, <1>7, <1>8 DEF LoggedInElsewhere, HolderOf

(* When no user types and the wheel does not come round in the middle of a *)
(* dialogue, a client falls out of its session only when the login the     *)
(* table has of its user is another terminal's: for any terminals, however *)
(* many of them log in to one account, within a second or not.             *)
THEOREM LogoutsAreLogins == Timely /\ Spec => LoggedOutOnlyByLogin
<1> SUFFICES ASSUME Timely  PROVE Spec => LoggedOutOnlyByLogin
  OBVIOUS
<1> DEFINE Inv == Shaped /\ SessionsHeld
           Step == \A t \in Terminal :
                     at[t] = "session" /\ at'[t] = "menu" => LoggedInElsewhere(t)
<1>1. Init => Inv
  BY InitShaped, SessionsHeldBegin
<1>2. Inv /\ [Next]_vars => Inv'
  BY StepKeeps, SessionsHold
<1>3. Inv /\ [Next]_vars => [Step]_vars
  BY FallenOut
<1> HIDE DEF Inv
<1>4. Spec => [][Step]_vars
  BY <1>1, <1>2, <1>3, PTL DEF Spec
<1> QED BY <1>4 DEF LoggedOutOnlyByLogin
===============================================================================
