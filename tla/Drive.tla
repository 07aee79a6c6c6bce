--------------------------------- MODULE Drive ---------------------------------
(***************************************************************************)
(* The namespace of the C++ drive and the sessions that work on it: users, *)
(* the JWT of a terminal, the current directory (kept twice, by the        *)
(* connection and by the client's prompt), directories, files, the rows of *)
(* the file index, uploads with their instant variant and their commit     *)
(* task, deletions.                                                        *)
(*                                                                         *)
(* A path is a sequence of names below the user's root.  A file is its     *)
(* content; the chunks of an upload are one step, UploadResume has them.   *)
(* The reactor runs a command without interruption and a client does       *)
(* nothing until it has the answer, so a command is one step from the      *)
(* prompt to the prompt; the commit task of a worker runs beside them, one *)
(* call at a time.  Commands that are refused and change nothing are left  *)
(* out.                                                                    *)
(***************************************************************************)
EXTENDS Integers, Sequences, FiniteSets

CONSTANTS
  User, Term,   \* accounts; terminals, a connection each
  Content,      \* contents of files, each with its MD5
  Mine,         \* contents each user has to upload
  Name,         \* names of files and directories
  Depth,        \* length of the longest path
  MaxLogins,    \* bound on the terminals a user is logged in on
  MaxCommands,  \* bound on commands that work on files
  Dotdot, Dir, None

ASSUME DriveAssumption ==
  /\ Mine \in [User -> SUBSET Content] /\ Depth \in Nat /\ IsFiniteSet(Term)
  /\ MaxLogins \in Nat /\ MaxCommands \in Nat
  /\ Dir \notin Content /\ None \notin Content \cup {Dir} /\ None \notin User
  /\ Dotdot \notin Name

VARIABLES
  users,   \* registered accounts
  ctx,     \* per connection: its user and directory
  up,      \* per connection: its active upload, or None
  token,   \* per terminal: the user its token names, or None
  stale,   \* terminals whose token has expired
  prompt,  \* per terminal: the directory the client shows
  pc,      \* per terminal: at the prompt, or where in handle_upload
  told,    \* history, per terminal: the upload it was told is done, or None
  lied,    \* history: an instant upload has copied another content
  disk,    \* per user and path: Dir, a content, or None
  resume,  \* per user: the part files in .resume, or None without it
  index,   \* per user and path: the row, or None
  task,    \* per terminal: its commit in the executor, or None
  commands \* commands on files so far

session == <<users, ctx, token, stale, prompt>>
files == <<disk, resume, index>>
ghost == <<lied, commands>>
vars == <<session, up, pc, told, files, task, ghost>>

Path == UNION {[1..n -> Name] : n \in 0..Depth}
Root == <<>>

Init ==
  /\ users = {}
  /\ ctx = [t \in Term |-> [user |-> None, cwd |-> Root]]
  /\ up = [t \in Term |-> None]
  /\ token = [t \in Term |-> None] /\ stale = {}
  /\ prompt = [t \in Term |-> Root] /\ pc = [t \in Term |-> "prompt"]
  /\ told = [t \in Term |-> None] /\ lied = FALSE
  /\ disk = [u \in User |-> [p \in Path |-> IF p = Root THEN Dir ELSE None]]
  /\ resume = [u \in User |-> None]
  /\ index = [u \in User |-> [p \in Path |-> None]]
  /\ task = [t \in Term |-> None] /\ commands = 0

-----------------------------------------------------------------------------
(* Paths and files *)

(* cwd / a.  Above the root resolve() throws, normalize_relative stays.    *)
Outside(cwd, a) == a = Dotdot /\ cwd = Root
Target(cwd, a) ==
  IF a = Dotdot THEN SubSeq(cwd, 1, Len(cwd) - 1) ELSE Append(cwd, a)

Under(p, q) == Len(p) <= Len(q) /\ SubSeq(q, 1, Len(p)) = p
Above(p) == {q \in Path : Under(q, p) /\ q # p}
Blocked(u, p) == \E q \in Above(p) : disk[u][q] \in Content

(* create_directories of the parents of p, then p itself.                  *)
Put(u, p, entry) ==
  [disk EXCEPT ![u] = [q \in Path |-> IF q = p THEN entry
                                      ELSE IF q \in Above(p) THEN Dir
                                      ELSE disk[u][q]]]

EnsureDirectory(u, p) == Put(u, p, Dir)

(* A file, or a directory with all below it.  The root is made again by    *)
(* the next command.                                                       *)
Removed(u, p) ==
  [disk EXCEPT ![u] = [q \in Path |-> IF Under(p, q) /\ q # Root THEN None
                                      ELSE disk[u][q]]]

-----------------------------------------------------------------------------
(* The file index *)

Row(u, p, c) == [md5 |-> c, at |-> <<u, p>>]

(* find_by_md5: any row with this MD5.                                     *)
Known(c) == {r \in {index[u][p] : u \in User, p \in Path} :
               r # None /\ r.md5 = c}

Upserted(u, p, row) == [index EXCEPT ![u][p] = row]
RowRemoved(u, p) == [index EXCEPT ![u][p] = None]

-----------------------------------------------------------------------------
(* Accounts, tokens, the current directory *)

Ready(t) == pc[t] = "prompt"

(* JwtService::verify of the token a terminal sends.                       *)
Valid(t) == token[t] # None /\ t \notin stale

Authorized(t) == Ready(t) /\ Valid(t)
Counted == commands < MaxCommands /\ commands' = commands + 1
Forget(t) == told' = [told EXCEPT ![t] = None]

RegisterUser(u) == users \cup {u}
ValidateUser(u) == u \in users

(* REGISTER of a new name, or of one that exists.                          *)
Register(t, u) ==
  /\ Ready(t) /\ users' = RegisterUser(u) /\ Forget(t)
  /\ UNCHANGED <<ctx, token, stale, prompt, up, pc, files, task, ghost>>

(* Mutation: the connection stays in the directory of before. *)
LoggedIn_KeepsCwd(t, u) == [user |-> u, cwd |-> ctx[t].cwd]

(* What LOGIN leaves in the connection.                                    *)
LoggedIn(t, u) == [user |-> u, cwd |-> Root]

(* What the client does with the answer to a LOGIN, and to a DIR_CHANGE.   *)
TakesToken(t, u) ==
  /\ token' = [token EXCEPT ![t] = u] /\ stale' = stale \ {t}
  /\ prompt' = [prompt EXCEPT ![t] = Root]

ShowsDir(t, p) == prompt' = [prompt EXCEPT ![t] = p]

(* LOGIN with the right password.                                          *)
Login(t, u) ==
  /\ Ready(t) /\ ValidateUser(u)
  /\ Cardinality({s \in Term \ {t} : token[s] = u}) < MaxLogins
  /\ ctx' = [ctx EXCEPT ![t] = LoggedIn(t, u)]
  /\ TakesToken(t, u)
  /\ Forget(t)
  /\ UNCHANGED <<users, up, pc, files, task, ghost>>

(* The client only forgets its token.                                      *)
Logout(t) ==
  /\ Ready(t) /\ token[t] # None
  /\ token' = [token EXCEPT ![t] = None] /\ stale' = stale \ {t}
  /\ prompt' = [prompt EXCEPT ![t] = Root]
  /\ Forget(t)
  /\ UNCHANGED <<users, ctx, up, pc, files, task, ghost>>

(* The lifetime of a token ends in the middle of an upload.  At the prompt *)
(* it would only refuse commands until the next LOGIN.                     *)
Expire(t) ==
  /\ pc[t] # "prompt" /\ t \notin stale
  /\ stale' = stale \cup {t}
  /\ UNCHANGED <<users, ctx, token, prompt, up, pc, told, files, task, ghost>>

(* The client ends, or loses its connection, and another one starts.  The  *)
(* loss of a connection that waits for a commit is in UploadResume.        *)
Reconnect(t) ==
  /\ task[t] = None
  /\ ctx' = [ctx EXCEPT ![t] = [user |-> None, cwd |-> Root]]
  /\ up' = [up EXCEPT ![t] = None]
  /\ token' = [token EXCEPT ![t] = None] /\ stale' = stale \ {t}
  /\ prompt' = [prompt EXCEPT ![t] = Root]
  /\ pc' = [pc EXCEPT ![t] = "prompt"]
  /\ Forget(t)
  /\ UNCHANGED <<users, files, task, ghost>>

(* DIR_CHANGE to a directory; the client shows the path in the answer.     *)
ChangeDir(t, a) ==
  LET u == token[t]
      p == Target(ctx[t].cwd, a)
  IN /\ Authorized(t) /\ ~Outside(ctx[t].cwd, a)
     /\ p \in Path /\ disk[u][p] = Dir
     /\ ctx' = [ctx EXCEPT ![t] = [user |-> u, cwd |-> p]]
     /\ ShowsDir(t, p)
     /\ Forget(t)
     /\ UNCHANGED <<users, token, stale, up, pc, files, task, ghost>>

(* DIR_MKDIR.                                                              *)
MakeDir(t, a) ==
  LET u == token[t]
      p == Target(ctx[t].cwd, a)
  IN /\ Authorized(t) /\ ~Outside(ctx[t].cwd, a)
     /\ p \in Path /\ Len(p) < Depth /\ ~Blocked(u, p) /\ Counted
     /\ disk[u][p] \notin Content
     /\ ctx' = [ctx EXCEPT ![t].user = u]
     /\ disk' = EnsureDirectory(u, p)
     /\ Forget(t)
     /\ UNCHANGED <<users, token, stale, prompt, up, pc, resume, index, task,
                    lied>>

(* FILE_DELETE: one row, whatever is below; the root loses its .resume.    *)
Delete(t, a) ==
  LET u == token[t]
      p == Target(ctx[t].cwd, a)
  IN /\ Authorized(t) /\ ~Outside(ctx[t].cwd, a)
     /\ p \in Path /\ disk[u][p] # None /\ Counted
     /\ ctx' = [ctx EXCEPT ![t].user = u]
     /\ disk' = Removed(u, p)
     /\ resume' = IF p = Root THEN [resume EXCEPT ![u] = None] ELSE resume
     /\ index' = RowRemoved(u, p)
     /\ Forget(t)
     /\ UNCHANGED <<users, token, stale, prompt, up, pc, task, lied>>

-----------------------------------------------------------------------------
(* Uploads: what the client and the reactor do *)

Stored(r) == disk[r.at[1]][r.at[2]]

Asks(t, a, c) ==
  /\ Authorized(t) /\ c \in Mine[token[t]] /\ Counted
  /\ Target(ctx[t].cwd, a) \in Path
  /\ ~Blocked(token[t], Target(ctx[t].cwd, a))
  /\ ctx' = [ctx EXCEPT ![t].user = token[t]]

(* Mutation: the client goes on to the commit after an instant upload. *)
AfterInstant_Commit == "sent"

(* handle_upload returns.                                                  *)
AfterInstant == "prompt"

(* Mutation: no row for the copy. *)
RowOfCopy_None(u, p, c) == index[u][p]

(* The row upserted for an instant copy.                                   *)
RowOfCopy(u, p, c) == Row(u, p, c)

(* FILE_UPLOAD_INIT of a known MD5: copy the file of the row.              *)
Instant(t, a, c) ==
  LET u == token[t]
      p == Target(ctx[t].cwd, a)
  IN /\ Asks(t, a, c)
     /\ \E r \in Known(c) :
          /\ Stored(r) \in Content /\ r.at # <<u, p>> /\ disk[u][p] # Dir
          /\ disk' = Put(u, p, Stored(r))
          /\ lied' = (lied \/ Stored(r) # c)
     /\ index' = Upserted(u, p, RowOfCopy(u, p, c))
     /\ told' = [told EXCEPT ![t] = [how |-> "instant", path |-> p, md5 |-> c]]
     /\ pc' = [pc EXCEPT ![t] = AfterInstant]
     /\ UNCHANGED <<users, token, stale, prompt, up, resume, task>>

(* copy_file refuses directories, and to copy a file onto itself.          *)
InstantFails(t, a, c) ==
  LET u == token[t]
      p == Target(ctx[t].cwd, a)
  IN /\ Asks(t, a, c)
     /\ \E r \in Known(c) :
          \/ Stored(r) = Dir
          \/ Stored(r) \in Content /\ (r.at = <<u, p>> \/ disk[u][p] = Dir)
     /\ disk' = Put(u, p, disk[u][p])
     /\ Forget(t)
     /\ UNCHANGED <<users, token, stale, prompt, up, pc, resume, index, task,
                    lied>>

(* FILE_UPLOAD_INIT of an MD5 without a row, or whose row has no file.     *)
Prepare(t, a, c) ==
  LET u == token[t]
      p == Target(ctx[t].cwd, a)
  IN /\ Asks(t, a, c)
     /\ Known(c) = {} \/ \E r \in Known(c) : Stored(r) = None
     /\ disk' = Put(u, p, disk[u][p])
     /\ resume' = [resume EXCEPT ![u] = IF @ = None THEN {} ELSE @]
     /\ up' = [up EXCEPT ![t] = [owner |-> u, path |-> p, md5 |-> c,
                                 full |-> FALSE]]
     /\ pc' = [pc EXCEPT ![t] = "chunks"]
     /\ Forget(t)
     /\ UNCHANGED <<users, token, stale, prompt, index, task, lied>>

(* Every FILE_UPLOAD_CHUNK.                                                *)
SendChunks(t) ==
  /\ pc[t] = "chunks" /\ Valid(t) /\ up[t] # None
  /\ resume[up[t].owner] # None
  /\ resume' = [resume EXCEPT ![up[t].owner] = @ \cup {up[t].md5}]
  /\ up' = [up EXCEPT ![t].full = TRUE]
  /\ ctx' = [ctx EXCEPT ![t].user = token[t]]
  /\ pc' = [pc EXCEPT ![t] = "sent"]
  /\ UNCHANGED <<users, token, stale, prompt, told, disk, index, task, ghost>>

(* A chunk or the commit is refused: the client stops, the connection      *)
(* keeps its active upload.                                                *)
GiveUp(t) ==
  /\ pc[t] \in {"chunks", "sent"}
  /\ pc' = [pc EXCEPT ![t] = "prompt"]
  /\ UNCHANGED <<session, up, told, files, task, ghost>>

(* FILE_UPLOAD_COMMIT: the row will be of the user of this request, the    *)
(* file goes where FILE_UPLOAD_INIT said.                                  *)
Commit(t) ==
  /\ pc[t] = "sent" /\ Valid(t) /\ up[t] # None /\ up[t].full
  /\ task' = [task EXCEPT ![t] =
       [at |-> "rename", user |-> token[t], owner |-> up[t].owner,
        path |-> up[t].path, md5 |-> up[t].md5]]
  /\ up' = [up EXCEPT ![t] = None]
  /\ ctx' = [ctx EXCEPT ![t].user = token[t]]
  /\ pc' = [pc EXCEPT ![t] = "commit"]
  /\ UNCHANGED <<users, token, stale, prompt, told, files, ghost>>

-----------------------------------------------------------------------------
(* The commit task on a worker *)

At(t, step) == task[t] # None /\ task[t].at = step
Final(t) == disk[task[t].owner][task[t].path]

Answer(t, outcome) ==
  /\ task' = [task EXCEPT ![t] = None]
  /\ pc' = [pc EXCEPT ![t] = "prompt"]
  /\ told' = [told EXCEPT ![t] = outcome]

CanRename(t) ==
  /\ resume[task[t].owner] # None /\ task[t].md5 \in resume[task[t].owner]
  /\ Final(t) # Dir

Rename(t) ==
  /\ At(t, "rename") /\ CanRename(t) /\ ~Blocked(task[t].owner, task[t].path)
  /\ disk' = Put(task[t].owner, task[t].path, task[t].md5)
  /\ resume' = [resume EXCEPT ![task[t].owner] = @ \ {task[t].md5}]
  /\ task' = [task EXCEPT ![t].at = "hash"]
  /\ UNCHANGED <<session, up, pc, told, index, ghost>>

Success(t) == [how |-> "commit", path |-> task[t].path, md5 |-> task[t].md5]

(* Mutation: the status does not depend on the outcome. *)
Failed_SaysOk(t) == Success(t)

(* What the client of a commit that fails is told.                         *)
Failed(t) == None

RenameFails(t) ==
  /\ At(t, "rename")
  /\ ~CanRename(t) \/ Blocked(task[t].owner, task[t].path)
  /\ disk' = IF Blocked(task[t].owner, task[t].path) THEN disk
             ELSE Put(task[t].owner, task[t].path, Final(t))
  /\ Answer(t, Failed(t))
  /\ UNCHANGED <<session, up, resume, index, ghost>>

(* compute_md5 of what is at the path now.                                 *)
ActualMd5(t) == Final(t)

(* A mismatch drops the part file; a path without a file throws.           *)
Hash(t) ==
  /\ At(t, "hash")
  /\ IF ActualMd5(t) = task[t].md5
     THEN /\ task' = [task EXCEPT ![t].at = "upsert"]
          /\ UNCHANGED <<resume, pc, told>>
     ELSE /\ resume' = IF Final(t) = None \/ resume[task[t].owner] = None
                       THEN resume
                       ELSE [resume EXCEPT ![task[t].owner] =
                               @ \ {task[t].md5}]
          /\ Answer(t, Failed(t))
  /\ UNCHANGED <<session, up, disk, index, ghost>>

Upsert(t) ==
  /\ At(t, "upsert")
  /\ index' = Upserted(task[t].user, task[t].path,
                       Row(task[t].owner, task[t].path, task[t].md5))
  /\ Answer(t, Success(t))
  /\ UNCHANGED <<session, up, disk, resume, ghost>>

-----------------------------------------------------------------------------
Command(t) ==
  \/ \E u \in User : Register(t, u) \/ Login(t, u)
  \/ Logout(t) \/ Expire(t) \/ Reconnect(t)
  \/ \E a \in Name \cup {Dotdot} :
       \/ ChangeDir(t, a) \/ MakeDir(t, a) \/ Delete(t, a)
       \/ \E c \in Content :
            Instant(t, a, c) \/ InstantFails(t, a, c) \/ Prepare(t, a, c)
  \/ SendChunks(t) \/ GiveUp(t) \/ Commit(t)

WorkerStep(t) == Rename(t) \/ RenameFails(t) \/ Hash(t) \/ Upsert(t)

Next == \E t \in Term : Command(t) \/ WorkerStep(t)

Spec == Init /\ [][Next]_vars

-----------------------------------------------------------------------------
(* Properties *)

Upload == [owner : User, path : Path, md5 : Content, full : BOOLEAN]
CommitTask ==
  [at : {"rename", "hash", "upsert"}, user : User, owner : User,
   path : Path, md5 : Content]
Outcome == [how : {"instant", "commit"}, path : Path, md5 : Content]

ASSUME NoneAssumption == None \notin Upload \cup CommitTask \cup Outcome

(* Every variable has its type.                                            *)
TypeOK ==
  /\ users \subseteq User /\ stale \subseteq Term
  /\ ctx \in [Term -> [user : User \cup {None}, cwd : Path]]
  /\ up \in [Term -> Upload \cup {None}]
  /\ token \in [Term -> User \cup {None}] /\ prompt \in [Term -> Path]
  /\ pc \in [Term -> {"prompt", "chunks", "sent", "commit"}]
  /\ told \in [Term -> Outcome \cup {None}] /\ lied \in BOOLEAN
  /\ disk \in [User -> [Path -> Content \cup {Dir, None}]]
  /\ resume \in [User -> (SUBSET Content) \cup {None}]
  /\ index \in [User -> [Path -> [md5 : Content, at : User \X Path]
                                 \cup {None}]]
  /\ task \in [Term -> CommitTask \cup {None}] /\ commands \in 0..MaxCommands

(* The client shows the directory, and the server serves the user, that    *)
(* the other side believes in, after any sequence of logins, logouts and   *)
(* changes of directory.                                                   *)
SessionAgrees ==
  \A t \in Term :
    token[t] # None => ctx[t] = [user |-> token[t], cwd |-> prompt[t]]

(* A row names a file of its owner, at its own path, although the commit   *)
(* takes the user from its own request and the file from an earlier one.   *)
RowOwn ==
  \A u \in User, p \in Path : index[u][p] # None => index[u][p].at = <<u, p>>

(* A user who is logged in nowhere finds all files and rows as they were.  *)
Isolation ==
  [][\A u \in User : (\A t \in Term : token[t] # u) =>
        disk'[u] = disk[u] /\ index'[u] = index[u]]_vars

InCommit(u, p) ==
  \E t \in Term : task[t] # None /\ task[t].owner = u /\ task[t].path = p

(* Out of a commit, the MD5 of a row is that of the file, if there is one, *)
(* as long as no instant upload has copied a file in the window between    *)
(* the rename and the row of its commit.                                   *)
IndexAtRest ==
  ~lied => \A u \in User, p \in Path :
    index[u][p] # None /\ disk[u][p] \in Content /\ ~InCommit(u, p)
      => disk[u][p] = index[u][p].md5

Holds(t) ==
  /\ disk[token[t]][told[t].path] = told[t].md5
  /\ index[token[t]][told[t].path] = Row(token[t], told[t].path, told[t].md5)

(* What a client was told is stored is there and has its row, until that   *)
(* client does something else: always after a commit, which looks at the   *)
(* file, and as long as no instant upload was wrong.                       *)
ToldStored ==
  \A t \in Term :
    told[t] # None /\ (lied => told[t].how = "commit") => Holds(t)

(* "Instant transfer succeeded (server already has the file)".             *)
InstantHonest ==
  \A t \in Term : told[t] # None /\ told[t].how = "instant" => Holds(t)

(* A stored row has a file.                                                *)
NoStaleRow ==
  \A u \in User, p \in Path : index[u][p] # None => disk[u][p] \in Content

-----------------------------------------------------------------------------
(* What makes the invariants inductive *)

(* A terminal in an upload works for the user its token names, whoever was *)
(* logged in before; what it was told is of that user, too.                *)
Owned ==
  \A t \in Term :
    /\ pc[t] # "prompt" => token[t] # None /\ told[t] = None
    /\ pc[t] \in {"chunks", "sent"} =>
         up[t] \in Upload /\ up[t].owner = token[t]
    /\ task[t] # None =>
         pc[t] = "commit" /\ task[t].user = token[t]
                         /\ task[t].owner = token[t]
    /\ told[t] # None => token[t] # None

IInv == TypeOK /\ SessionAgrees /\ Owned /\ RowOwn

(* With MaxLogins = 1 a user is logged in on one terminal.                 *)
Alone ==
  \A s, t \in Term : token[s] # None /\ token[s] = token[t] => s = t

PastRename(t) == At(t, "hash") \/ At(t, "upsert")

(* What a commit has renamed is at its path until it is over.              *)
Renamed == \A t \in Term : PastRename(t) => Final(t) = task[t].md5

(* IndexAtRest before a commit has renamed its file, too.                  *)
AtRest ==
  ~lied => \A u \in User, p \in Path :
    index[u][p] # None /\ disk[u][p] \in Content
      /\ (\A t \in Term : PastRename(t) =>
            task[t].owner # u \/ task[t].path # p)
      => disk[u][p] = index[u][p].md5

AloneInv == IInv /\ Alone /\ Renamed /\ AtRest /\ ToldStored

=============================================================================
