------------------------------ MODULE DriveProofs ------------------------------
(***************************************************************************)
(* Proofs about the C++ drive's namespace and sessions, and about the      *)
(* executor that runs their commits.                                       *)
(*                                                                         *)
(* Drive, for any users, terminals, contents, names and bounds: a step of  *)
(* a terminal leaves the other terminals alone and touches only the files  *)
(* of the user its token names (Frame); IInv says whose they are.  The     *)
(* index and what a client was told need, besides, that a user is logged   *)
(* in on one terminal.                                                     *)
(*                                                                         *)
(* TaskExecutor, for any number of workers and tasks and any number of     *)
(* spurious wake-ups: ExecutorInv says what the mutex protects, in which   *)
(* order a shutdown proceeds, and where every task is.                     *)
(***************************************************************************)
EXTENDS Drive, TaskExecutor, SequenceTheorems, FiniteSetTheorems, TLAPS

Entry == Content \cup {Dir, None}
RowSet == [md5 : Content, at : User \X Path]

LEMMA RootIsPath == Root \in Path
<1>1. Root \in [1..0 -> Name]
  BY DEF Root
<1>2. 0 \in 0..Depth
  BY DriveAssumption
<1>3. QED
  BY <1>1, <1>2 DEF Path

LEMMA PutIs ==
  ASSUME TypeOK, NEW u \in User, NEW p \in Path, NEW e \in Entry
  PROVE  /\ Put(u, p, e) \in [User -> [Path -> Entry]]
         /\ \A v \in User : v # u => Put(u, p, e)[v] = disk[v]
         /\ \A q \in Path : Put(u, p, e)[u][q] =
              IF q = p THEN e ELSE IF q \in Above(p) THEN Dir ELSE disk[u][q]
BY DEF Put, TypeOK, Entry

LEMMA RemovedIs ==
  ASSUME TypeOK, NEW u \in User, NEW p \in Path
  PROVE  /\ Removed(u, p) \in [User -> [Path -> Entry]]
         /\ \A v \in User : v # u => Removed(u, p)[v] = disk[v]
         /\ \A q \in Path : Removed(u, p)[u][q] \in {None, disk[u][q]}
BY DEF Removed, TypeOK, Entry

LEMMA UpsertedIs ==
  ASSUME TypeOK, NEW u \in User, NEW p \in Path, NEW r \in RowSet \cup {None}
  PROVE  /\ Upserted(u, p, r) \in [User -> [Path -> RowSet \cup {None}]]
         /\ \A v \in User : v # u => Upserted(u, p, r)[v] = index[v]
         /\ \A q \in Path : Upserted(u, p, r)[u][q] =
              IF q = p THEN r ELSE index[u][q]
BY DEF Upserted, TypeOK, RowSet

LEMMA InitIInv == Init => IInv
<1> SUFFICES ASSUME Init  PROVE IInv
  OBVIOUS
<1>1. TypeOK
  <2>1. disk \in [User -> [Path -> Content \cup {Dir, None}]]
    BY DEF Init
  <2>2. /\ users \subseteq User /\ stale \subseteq Term
        /\ ctx \in [Term -> [user : User \cup {None}, cwd : Path]]
        /\ token \in [Term -> User \cup {None}] /\ prompt \in [Term -> Path]
    BY RootIsPath DEF Init
  <2>3. /\ up \in [Term -> Upload \cup {None}]
        /\ pc \in [Term -> {"prompt", "chunks", "sent", "commit"}]
        /\ told \in [Term -> Outcome \cup {None}]
        /\ task \in [Term -> CommitTask \cup {None}]
    BY DEF Init
  <2>4. /\ resume \in [User -> (SUBSET Content) \cup {None}]
        /\ index \in [User -> [Path -> [md5 : Content, at : User \X Path]
                                       \cup {None}]]
    BY DEF Init
  <2>5. commands \in 0..MaxCommands
    BY DriveAssumption DEF Init
  <2>6. lied \in BOOLEAN
    BY Zenon DEF Init
  <2>7. QED
    BY <2>1, <2>2, <2>3, <2>4, <2>5, <2>6 DEF TypeOK
<1>2. SessionAgrees
  BY DEF Init, SessionAgrees
<1>3. Owned
  BY DEF Init, Owned
<1>4. RowOwn
  BY DEF Init, RowOwn
<1>5. QED
  BY <1>1, <1>2, <1>3, <1>4 DEF IInv

(* A command or a step of a worker for t: the other terminals, and the     *)
(* users t does not work for, keep what they have.                         *)
Others(t) ==
  /\ \A s \in Term : s # t =>
       /\ token'[s] = token[s] /\ pc'[s] = pc[s] /\ told'[s] = told[s]
       /\ task'[s] = task[s] /\ up'[s] = up[s]
       /\ ctx'[s] = ctx[s] /\ prompt'[s] = prompt[s]
  /\ \A u \in User : u # token[t] => disk'[u] = disk[u] /\ index'[u] = index[u]

LEMMA SessionStep ==
  ASSUME IInv, NEW t \in Term,
         \/ \E u \in User : Register(t, u) \/ Login(t, u)
         \/ Logout(t) \/ Expire(t) \/ Reconnect(t)
         \/ \E a \in Name \cup {Dotdot} : ChangeDir(t, a)
  PROVE  IInv' /\ Others(t) /\ UNCHANGED files
<1> USE RootIsPath, DriveAssumption DEF IInv, Others, files, ghost
<1>1. ASSUME NEW u \in User, Register(t, u)
      PROVE  IInv' /\ Others(t) /\ UNCHANGED files
  BY <1>1 DEF Register, RegisterUser, Forget, Ready, TypeOK, SessionAgrees,
              Owned, RowOwn
<1>2. ASSUME NEW u \in User, Login(t, u)
      PROVE  IInv' /\ Others(t) /\ UNCHANGED files
  BY <1>2 DEF Login, ValidateUser, TakesToken, LoggedIn, Forget, Ready, TypeOK,
              SessionAgrees, Owned, RowOwn
<1>3. CASE Logout(t)
  BY <1>3 DEF Logout, Forget, Ready, TypeOK, SessionAgrees, Owned, RowOwn
<1>4. CASE Expire(t)
  BY <1>4 DEF Expire, TypeOK, SessionAgrees, Owned, RowOwn
<1>5. CASE Reconnect(t)
  BY <1>5 DEF Reconnect, Forget, TypeOK, SessionAgrees, Owned, RowOwn
<1>6. ASSUME NEW a \in Name \cup {Dotdot}, ChangeDir(t, a)
      PROVE  IInv' /\ Others(t) /\ UNCHANGED files
  BY <1>6 DEF ChangeDir, ShowsDir, Authorized, Valid, Ready, Forget, TypeOK,
              SessionAgrees, Owned, RowOwn
<1>7. QED
  BY <1>1, <1>2, <1>3, <1>4, <1>5, <1>6

(* A request with a token is served for the user of the token.             *)
LEMMA ServedIs ==
  ASSUME IInv, NEW t \in Term, token[t] # None,
         ctx' = [ctx EXCEPT ![t].user = token[t]],
         UNCHANGED <<token, prompt>>
  PROVE  /\ ctx' \in [Term -> [user : User \cup {None}, cwd : Path]]
         /\ \A s \in Term : s # t => ctx'[s] = ctx[s]
         /\ SessionAgrees'
<1>1. /\ ctx'[t] = [user |-> token[t], cwd |-> prompt[t]]
      /\ ctx' = [ctx EXCEPT ![t] = ctx'[t]]
      /\ ctx'[t] \in [user : User \cup {None}, cwd : Path]
  BY DEF IInv, TypeOK, SessionAgrees
<1>2. QED
  BY <1>1 DEF IInv, TypeOK, SessionAgrees

LEMMA CountedIs == TypeOK /\ Counted => commands' \in 0..MaxCommands
BY DriveAssumption DEF TypeOK, Counted

LEMMA FileStep ==
  ASSUME IInv, NEW t \in Term, NEW a \in Name \cup {Dotdot},
         \/ MakeDir(t, a) \/ Delete(t, a)
         \/ \E c \in Content :
              Instant(t, a, c) \/ InstantFails(t, a, c) \/ Prepare(t, a, c)
  PROVE  IInv' /\ Others(t)
<1> DEFINE u == token[t]
           p == Target(ctx[t].cwd, a)
<1> USE DriveAssumption DEF IInv
<1>0. /\ t \in Term /\ u \in User /\ p \in Path /\ pc[t] = "prompt"
      /\ token[t] # None
  BY DEF MakeDir, Delete, Instant, InstantFails, Prepare, Asks, Authorized,
         Valid, Ready, TypeOK
<1> HIDE DEF u, p
<1>1. CASE MakeDir(t, a)
  <2>1. disk' = Put(u, p, Dir) /\ Dir \in Entry
    BY <1>1 DEF MakeDir, EnsureDirectory, u, p, Entry
  <2>2. /\ disk' \in [User -> [Path -> Entry]]
        /\ \A v \in User : v # u => disk'[v] = disk[v]
    BY <1>0, <2>1, PutIs
  <2>3. /\ ctx' \in [Term -> [user : User \cup {None}, cwd : Path]]
        /\ \A s \in Term : s # t => ctx'[s] = ctx[s]
        /\ SessionAgrees' /\ commands' \in 0..MaxCommands
    BY <1>0, <1>1, ServedIs, CountedIs DEF MakeDir, u
  <2>4. TypeOK'
    BY <1>0, <1>1, <2>2, <2>3 DEF MakeDir, Forget, TypeOK, Entry
  <2>5. Others(t) /\ Owned' /\ RowOwn'
    BY <1>0, <1>1, <2>2, <2>3 DEF MakeDir, Forget, Others, TypeOK, Owned,
       RowOwn, u
  <2>6. QED
    BY <2>3, <2>4, <2>5
<1>2. CASE Delete(t, a)
  <2>1. /\ disk' \in [User -> [Path -> Entry]]
        /\ \A v \in User : v # u => disk'[v] = disk[v]
    BY <1>0, <1>2, RemovedIs DEF Delete, u, p
  <2>2. index' = [index EXCEPT ![u][p] = None]
    BY <1>2 DEF Delete, RowRemoved, u, p
  <2>3. resume' \in [User -> (SUBSET Content) \cup {None}]
    BY <1>0, <1>2 DEF Delete, TypeOK, u, p
  <2>4. /\ index' \in [User -> [Path -> RowSet \cup {None}]]
        /\ \A v \in User : v # u => index'[v] = index[v]
        /\ \A q \in Path : index'[u][q] \in {None, index[u][q]}
    BY <1>0, <2>2 DEF TypeOK, RowSet
  <2>5. RowOwn'
    BY <1>0, <2>4 DEF RowOwn
  <2>6. /\ ctx' \in [Term -> [user : User \cup {None}, cwd : Path]]
        /\ \A s \in Term : s # t => ctx'[s] = ctx[s]
        /\ SessionAgrees' /\ commands' \in 0..MaxCommands
    BY <1>0, <1>2, ServedIs, CountedIs DEF Delete, u
  <2>7. TypeOK'
    BY <1>0, <1>2, <2>1, <2>3, <2>4, <2>6 DEF Delete, Forget, TypeOK, Entry,
       RowSet
  <2>8. Others(t) /\ Owned'
    BY <1>0, <1>2, <2>1, <2>4, <2>6 DEF Delete, Forget, Others, TypeOK, Owned, u
  <2>9. QED
    BY <2>5, <2>6, <2>7, <2>8
<1>3. ASSUME NEW c \in Content, Instant(t, a, c)
      PROVE  IInv' /\ Others(t)
  <2>1. PICK r \in Known(c) : Stored(r) \in Content /\ disk' = Put(u, p, Stored(r))
                              /\ lied' = (lied \/ Stored(r) # c)
    BY <1>3 DEF Instant, u, p
  <2>2. /\ disk' \in [User -> [Path -> Entry]]
        /\ \A v \in User : v # u => disk'[v] = disk[v]
    BY <1>0, <2>1, PutIs DEF Entry
  <2>3. index' = Upserted(u, p, Row(u, p, c)) /\ Row(u, p, c) \in RowSet
    BY <1>0, <1>3 DEF Instant, RowOfCopy, Row, RowSet, u, p
  <2>4. /\ index' \in [User -> [Path -> RowSet \cup {None}]]
        /\ \A v \in User : v # u => index'[v] = index[v]
        /\ \A q \in Path : index'[u][q] =
             IF q = p THEN Row(u, p, c) ELSE index[u][q]
    BY <1>0, <2>3, UpsertedIs
  <2>5. RowOwn'
    BY <1>0, <2>4 DEF RowOwn, Row
  <2>6. [how |-> "instant", path |-> p, md5 |-> c] \in Outcome
    BY <1>0 DEF Outcome
  <2>7. lied' \in BOOLEAN
    <3>1. lied \in BOOLEAN
      BY DEF TypeOK
    <3>2. QED
      BY <2>1, <3>1, Zenon
  <2>8. /\ told' \in [Term -> Outcome \cup {None}]
        /\ \A s \in Term : s # t => told'[s] = told[s]
    BY <1>0, <1>3, <2>6 DEF Instant, TypeOK, u, p
  <2>9. /\ ctx' \in [Term -> [user : User \cup {None}, cwd : Path]]
        /\ \A s \in Term : s # t => ctx'[s] = ctx[s]
        /\ SessionAgrees' /\ commands' \in 0..MaxCommands
    BY <1>0, <1>3, ServedIs, CountedIs DEF Instant, Asks, u
  <2>10. TypeOK'
    BY <1>0, <1>3, <2>2, <2>4, <2>7, <2>8, <2>9 DEF Instant, Asks,
       AfterInstant, TypeOK, Entry, RowSet
  <2>11. Others(t) /\ Owned'
    BY <1>0, <1>3, <2>2, <2>4, <2>8, <2>9 DEF Instant, AfterInstant, Others,
       TypeOK, Owned, u
  <2>12. QED
    BY <2>5, <2>9, <2>10, <2>11
<1>4. ASSUME NEW c \in Content, InstantFails(t, a, c)
      PROVE  IInv' /\ Others(t)
  <2>1. disk' = Put(u, p, disk[u][p]) /\ disk[u][p] \in Entry
    BY <1>0, <1>4 DEF InstantFails, TypeOK, u, p, Entry
  <2>2. /\ disk' \in [User -> [Path -> Entry]]
        /\ \A v \in User : v # u => disk'[v] = disk[v]
    BY <1>0, <2>1, PutIs
  <2>3. /\ ctx' \in [Term -> [user : User \cup {None}, cwd : Path]]
        /\ \A s \in Term : s # t => ctx'[s] = ctx[s]
        /\ SessionAgrees' /\ commands' \in 0..MaxCommands
    BY <1>0, <1>4, ServedIs, CountedIs DEF InstantFails, Asks, u
  <2>4. TypeOK'
    BY <1>0, <1>4, <2>2, <2>3 DEF InstantFails, Forget, TypeOK, Entry
  <2>5. Others(t) /\ Owned' /\ RowOwn'
    BY <1>0, <1>4, <2>2, <2>3 DEF InstantFails, Forget, Others, TypeOK, Owned,
       RowOwn, u
  <2>6. QED
    BY <2>3, <2>4, <2>5
<1>5. ASSUME NEW c \in Content, Prepare(t, a, c)
      PROVE  IInv' /\ Others(t)
  <2>1. disk' = Put(u, p, disk[u][p]) /\ disk[u][p] \in Entry
    BY <1>0, <1>5 DEF Prepare, TypeOK, u, p, Entry
  <2>2. /\ disk' \in [User -> [Path -> Entry]]
        /\ \A v \in User : v # u => disk'[v] = disk[v]
    BY <1>0, <2>1, PutIs
  <2>3. [owner |-> u, path |-> p, md5 |-> c, full |-> FALSE] \in Upload
    BY <1>0 DEF Upload
  <2>4. resume' \in [User -> (SUBSET Content) \cup {None}]
    BY <1>0, <1>5 DEF Prepare, TypeOK, u, p
  <2>5. /\ ctx' \in [Term -> [user : User \cup {None}, cwd : Path]]
        /\ \A s \in Term : s # t => ctx'[s] = ctx[s]
        /\ SessionAgrees' /\ commands' \in 0..MaxCommands
    BY <1>0, <1>5, ServedIs, CountedIs DEF Prepare, Asks, u
  <2>6. /\ up' \in [Term -> Upload \cup {None}]
        /\ up'[t] \in Upload /\ up'[t].owner = u
        /\ \A s \in Term : s # t => up'[s] = up[s]
    BY <1>0, <1>5, <2>3 DEF Prepare, TypeOK, u, p
  <2>7. TypeOK'
    BY <1>0, <1>5, <2>2, <2>4, <2>5, <2>6 DEF Prepare, Forget, TypeOK, Entry
  <2>8. Others(t) /\ RowOwn'
    BY <1>0, <1>5, <2>2, <2>5, <2>6 DEF Prepare, Forget, Others, TypeOK,
       RowOwn, u
  <2>9. Owned'
    BY <1>0, <1>5, <2>6 DEF Prepare, Forget, TypeOK, Owned, u
  <2>10. QED
    BY <2>5, <2>7, <2>8, <2>9
<1>6. QED
  BY <1>1, <1>2, <1>3, <1>4, <1>5

LEMMA UploadStep ==
  ASSUME IInv, NEW t \in Term, SendChunks(t) \/ GiveUp(t) \/ Commit(t)
  PROVE  IInv' /\ Others(t) /\ UNCHANGED <<disk, index>>
<1> USE DriveAssumption DEF IInv, ghost, session, files
<1>1. CASE SendChunks(t)
  <2>1. up[t] \in Upload /\ up[t].owner = token[t] /\ token[t] \in User
    BY <1>1 DEF SendChunks, Owned, Valid, TypeOK
  <2>2. [up[t] EXCEPT !.full = TRUE] \in Upload
    BY <2>1 DEF Upload
  <2>3. resume' \in [User -> (SUBSET Content) \cup {None}]
    <3>1. resume[token[t]] \in SUBSET Content /\ up[t].md5 \in Content
      BY <1>1, <2>1 DEF SendChunks, TypeOK, Upload
    <3>2. QED
      BY <1>1, <2>1, <3>1 DEF SendChunks, TypeOK
  <2>4. /\ ctx' \in [Term -> [user : User \cup {None}, cwd : Path]]
        /\ \A s \in Term : s # t => ctx'[s] = ctx[s]
        /\ SessionAgrees'
    BY <1>1, ServedIs DEF SendChunks, Valid
  <2>5. /\ up' \in [Term -> Upload \cup {None}]
        /\ up'[t] \in Upload /\ up'[t].owner = token[t]
        /\ \A s \in Term : s # t => up'[s] = up[s]
    BY <1>1, <2>1, <2>2 DEF SendChunks, TypeOK
  <2>6. TypeOK'
    BY <1>1, <2>3, <2>4, <2>5 DEF SendChunks, TypeOK
  <2>7. Others(t) /\ Owned' /\ RowOwn'
    BY <1>1, <2>1, <2>4, <2>5 DEF SendChunks, Others, TypeOK, Owned, RowOwn
  <2>8. QED
    BY <1>1, <2>4, <2>6, <2>7 DEF SendChunks
<1>2. CASE GiveUp(t)
  BY <1>2 DEF GiveUp, Others, TypeOK, SessionAgrees, Owned, RowOwn
<1>3. CASE Commit(t)
  <2>1. up[t] \in Upload /\ up[t].owner = token[t] /\ token[t] \in User
    BY <1>3 DEF Commit, Owned, Valid, TypeOK
  <2>2. [at |-> "rename", user |-> token[t], owner |-> up[t].owner,
         path |-> up[t].path, md5 |-> up[t].md5] \in CommitTask
    BY <2>1 DEF Upload, CommitTask
  <2>3. /\ ctx' \in [Term -> [user : User \cup {None}, cwd : Path]]
        /\ \A s \in Term : s # t => ctx'[s] = ctx[s]
        /\ SessionAgrees'
    BY <1>3, ServedIs DEF Commit, Valid
  <2>4. /\ task' \in [Term -> CommitTask \cup {None}]
        /\ task'[t].user = token[t] /\ task'[t].owner = token[t]
        /\ \A s \in Term : s # t => task'[s] = task[s]
    BY <1>3, <2>1, <2>2 DEF Commit, TypeOK
  <2>5. TypeOK'
    BY <1>3, <2>3, <2>4 DEF Commit, TypeOK
  <2>6. Others(t) /\ Owned' /\ RowOwn'
    BY <1>3, <2>1, <2>3, <2>4 DEF Commit, Others, TypeOK, Owned, RowOwn
  <2>7. QED
    BY <1>3, <2>3, <2>5, <2>6 DEF Commit
<1>4. QED
  BY <1>1, <1>2, <1>3

(* A task works on the files of the user whose terminal waits for it.      *)
LEMMA TaskIsOwn ==
  ASSUME IInv, NEW t \in Term, task[t] # None
  PROVE  /\ task[t] \in CommitTask /\ task[t].user = token[t]
         /\ task[t].owner = token[t] /\ token[t] \in User
         /\ task[t].path \in Path /\ task[t].md5 \in Content
         /\ pc[t] = "commit"
BY DEF IInv, TypeOK, Owned, CommitTask

LEMMA AnswerKeeps ==
  ASSUME IInv, NEW t \in Term, task[t] # None, NEW o \in Outcome \cup {None},
         Answer(t, o), UNCHANGED <<session, up>>
  PROVE  /\ task' \in [Term -> CommitTask \cup {None}]
         /\ told' \in [Term -> Outcome \cup {None}]
         /\ pc' \in [Term -> {"prompt", "chunks", "sent", "commit"}]
         /\ Owned'
BY TaskIsOwn, DriveAssumption DEF IInv, Answer, session, TypeOK, Owned

LEMMA WorkerKeeps ==
  ASSUME IInv, NEW t \in Term, WorkerStep(t)
  PROVE  IInv' /\ Others(t)
<1> DEFINE u == task[t].owner
           p == task[t].path
<1>0. /\ task[t] \in CommitTask /\ task[t].user = u /\ token[t] = u /\ u \in User
      /\ p \in Path /\ task[t].md5 \in Content /\ pc[t] = "commit"
      /\ task[t] # None
  BY TaskIsOwn DEF WorkerStep, Rename, RenameFails, Hash, Upsert, At
<1> HIDE DEF u, p
<1> USE DriveAssumption DEF IInv
<1>1. CASE Rename(t)
  <2>1. disk' = Put(u, p, task[t].md5) /\ task[t].md5 \in Entry
    BY <1>0, <1>1 DEF Rename, u, p, Entry
  <2>2. /\ disk' \in [User -> [Path -> Entry]]
        /\ \A v \in User : v # u => disk'[v] = disk[v]
    BY <1>0, <2>1, PutIs
  <2>3. [task[t] EXCEPT !.at = "hash"] \in CommitTask
    BY <1>0 DEF CommitTask
  <2>4. resume' \in [User -> (SUBSET Content) \cup {None}]
    <3>1. resume[u] \in SUBSET Content
      BY <1>0, <1>1 DEF Rename, CanRename, TypeOK, u
    <3>2. QED
      BY <1>0, <1>1, <3>1 DEF Rename, TypeOK, u
  <2>5. QED
    BY <1>0, <1>1, <2>2, <2>3, <2>4 DEF Rename, session, ghost, Others, TypeOK,
       Entry, SessionAgrees, Owned, RowOwn, CommitTask
<1>2. CASE RenameFails(t)
  <2>1. /\ disk' \in [User -> [Path -> Entry]]
        /\ \A v \in User : v # u => disk'[v] = disk[v]
    <3>1. Final(t) \in Entry
      BY <1>0 DEF Final, TypeOK, Entry, u, p
    <3>2. QED
      BY <1>0, <1>2, <3>1, PutIs DEF RenameFails, TypeOK, Entry, u, p
  <2>2. Owned' /\ task' \in [Term -> CommitTask \cup {None}]
        /\ told' \in [Term -> Outcome \cup {None}]
        /\ pc' \in [Term -> {"prompt", "chunks", "sent", "commit"}]
    BY <1>0, <1>2, AnswerKeeps DEF RenameFails, Failed
  <2>3. QED
    BY <1>0, <1>2, <2>1, <2>2 DEF RenameFails, Answer, session, ghost, Others,
       TypeOK, Entry, SessionAgrees, RowOwn
<1>3. CASE Hash(t)
  <2>1. CASE ActualMd5(t) = task[t].md5
    <3>1. [task[t] EXCEPT !.at = "upsert"] \in CommitTask
      BY <1>0 DEF CommitTask
    <3>2. /\ task' = [task EXCEPT ![t].at = "upsert"]
          /\ UNCHANGED <<session, files, ghost, up, pc, told>>
      BY <1>3, <2>1 DEF Hash, files
    <3>3. TypeOK'
      BY <1>0, <3>1, <3>2 DEF session, files, ghost, TypeOK
    <3>4. Others(t) /\ Owned'
      BY <1>0, <3>2 DEF session, files, Others, TypeOK, Owned, CommitTask
    <3>5. QED
      BY <3>2, <3>3, <3>4 DEF session, files, SessionAgrees, RowOwn
  <2>2. CASE ActualMd5(t) # task[t].md5
    <3>1. resume' \in [User -> (SUBSET Content) \cup {None}]
      <4>1. CASE resume' = resume
        BY <4>1 DEF TypeOK
      <4>2. CASE /\ resume[u] # None
                 /\ resume' = [resume EXCEPT ![u] = @ \ {task[t].md5}]
        BY <1>0, <4>2 DEF TypeOK
      <4>3. QED
        BY <1>3, <2>2, <4>1, <4>2 DEF Hash, u
    <3>2. Owned' /\ task' \in [Term -> CommitTask \cup {None}]
          /\ told' \in [Term -> Outcome \cup {None}]
          /\ pc' \in [Term -> {"prompt", "chunks", "sent", "commit"}]
      BY <1>0, <1>3, <2>2, AnswerKeeps DEF Hash, Failed
    <3>3. QED
      BY <1>0, <1>3, <2>2, <3>1, <3>2 DEF Hash, Answer, session, ghost, Others,
         TypeOK, SessionAgrees, RowOwn
  <2>3. QED
    BY <2>1, <2>2
<1>4. CASE Upsert(t)
  <2>1. /\ index' = Upserted(u, p, Row(u, p, task[t].md5))
        /\ Row(u, p, task[t].md5) \in RowSet
    BY <1>0, <1>4 DEF Upsert, Row, RowSet, u, p
  <2>2. /\ index' \in [User -> [Path -> RowSet \cup {None}]]
        /\ \A v \in User : v # u => index'[v] = index[v]
        /\ \A q \in Path : index'[u][q] =
             IF q = p THEN Row(u, p, task[t].md5) ELSE index[u][q]
    BY <1>0, <2>1, UpsertedIs
  <2>3. RowOwn'
    BY <1>0, <2>2 DEF RowOwn, Row
  <2>4. Success(t) \in Outcome
    BY <1>0 DEF Success, Outcome, p
  <2>5. Owned' /\ task' \in [Term -> CommitTask \cup {None}]
        /\ told' \in [Term -> Outcome \cup {None}]
        /\ pc' \in [Term -> {"prompt", "chunks", "sent", "commit"}]
    BY <1>0, <1>4, <2>4, AnswerKeeps DEF Upsert
  <2>6. QED
    BY <1>0, <1>4, <2>2, <2>3, <2>5 DEF Upsert, Answer, session, ghost, Others,
       TypeOK, RowSet, SessionAgrees
<1>5. QED
  BY <1>1, <1>2, <1>3, <1>4 DEF WorkerStep

LEMMA StepIInv ==
  ASSUME IInv, NEW t \in Term, Command(t) \/ WorkerStep(t)
  PROVE  IInv' /\ Others(t)
BY SessionStep, FileStep, UploadStep, WorkerKeeps DEF Command

LEMMA StutterIInv == IInv /\ UNCHANGED vars => IInv'
BY DEF IInv, vars, session, files, ghost, TypeOK, SessionAgrees, Owned, RowOwn

THEOREM Invariance == Spec => []IInv
<1>1. IInv /\ [Next]_vars => IInv'
  BY StepIInv, StutterIInv DEF Next
<1>2. QED
  BY InitIInv, <1>1, PTL DEF Spec

(* Every variable keeps its type: the server never follows a path, serves  *)
(* a user or names an upload that is not one.                              *)
THEOREM TypeCorrect == Spec => []TypeOK
<1>1. IInv => TypeOK
  BY DEF IInv
<1>2. QED
  BY Invariance, <1>1, PTL

(* However logins, logouts and changes of directory follow each other, the *)
(* prompt of the client is the current directory of handle_request.        *)
THEOREM SessionsAgree == Spec => []SessionAgrees
<1>1. IInv => SessionAgrees
  BY DEF IInv
<1>2. QED
  BY Invariance, <1>1, PTL

(* handle_file_upload_commit never writes a row for the file of another    *)
(* user, although the two names come from different requests.              *)
THEOREM RowsAreOwn == Spec => []RowOwn
<1>1. IInv => RowOwn
  BY DEF IInv
<1>2. QED
  BY Invariance, <1>1, PTL

(* No command and no commit that is still running changes a file or a row  *)
(* of a user who is logged in nowhere.                                     *)
THEOREM UsersAreIsolated == Spec => Isolation
<1> DEFINE Untouched == \A u \in User : (\A t \in Term : token[t] # u) =>
                          disk'[u] = disk[u] /\ index'[u] = index[u]
<1>1. IInv /\ [Next]_vars => [Untouched]_vars
  <2>1. ASSUME IInv, NEW t \in Term, Command(t) \/ WorkerStep(t)
        PROVE  Untouched
    BY <2>1, StepIInv DEF Others
  <2>2. QED
    BY <2>1 DEF Next
<1>2. QED
  BY Invariance, <1>1, PTL DEF Spec, Isolation

-----------------------------------------------------------------------------
(* A user on one terminal *)

LEMMA InitAloneInv == Init => AloneInv
<1> SUFFICES ASSUME Init  PROVE AloneInv
  OBVIOUS
<1>1. Alone /\ Renamed
  BY DEF Init, Alone, Renamed, PastRename, At
<1>2. AtRest /\ ToldStored
  BY DEF Init, AtRest, ToldStored
<1>3. QED
  BY <1>1, <1>2, InitIInv DEF AloneInv

LEMMA TokenIs ==
  ASSUME NEW t \in Term, Command(t) \/ WorkerStep(t)
  PROVE  \/ token' = token
         \/ token' = [token EXCEPT ![t] = None]
         \/ \E u \in User : Login(t, u)
<1>1. CASE Command(t)
  BY <1>1 DEF Command, Register, Logout, Expire, Reconnect, ChangeDir, MakeDir,
     Delete, Instant, InstantFails, Prepare, SendChunks, GiveUp, Commit, session
<1>2. CASE WorkerStep(t)
  BY <1>2 DEF WorkerStep, Rename, RenameFails, Hash, Upsert, session
<1>3. QED
  BY <1>1, <1>2

LEMMA AloneStep ==
  ASSUME IInv, Alone, MaxLogins <= 1,
         NEW t \in Term, Command(t) \/ WorkerStep(t)
  PROVE  Alone'
<1>1. CASE token' = token
  BY <1>1 DEF Alone
<1>2. CASE token' = [token EXCEPT ![t] = None]
  BY <1>2 DEF IInv, TypeOK, Alone
<1>3. ASSUME NEW u \in User, Login(t, u)
      PROVE  Alone'
  <2> DEFINE same == {s \in Term \ {t} : token[s] = u}
  <2>1. IsFiniteSet(same)
    BY FS_Subset, DriveAssumption
  <2>2. Cardinality(same) \in Nat /\ Cardinality(same) < MaxLogins
    BY <1>3, <2>1, FS_CardinalityType DEF Login
  <2> HIDE DEF same
  <2>3. Cardinality(same) = 0
    BY <2>2, DriveAssumption
  <2>4. same = {}
    BY <2>1, <2>3, FS_EmptySet
  <2>5. \A s \in Term : token[s] = u => s = t
    BY <2>4 DEF same
  <2>6. token' = [token EXCEPT ![t] = u]
    BY <1>3 DEF Login, TakesToken
  <2>7. QED
    BY <2>6, <2>5 DEF IInv, TypeOK, Alone
<1>4. QED
  BY <1>1, <1>2, <1>3, TokenIs

(* The files of the user of t have no other content and no other row.      *)
Kept(t) ==
  \A q \in Path :
    /\ disk'[token[t]][q] \in Content => disk'[token[t]][q] = disk[token[t]][q]
    /\ index'[token[t]][q] # None => index'[token[t]][q] = index[token[t]][q]

(* The steps that create no file and no row, outside and inside the part   *)
(* of a commit that follows the rename.                                    *)
Quiet(t) ==
  /\ ~PastRename(t) /\ ~PastRename(t)' /\ Kept(t)
  /\ lied' = lied /\ told'[t] = None

Holding(t) ==
  /\ PastRename(t) /\ PastRename(t)'
  /\ task'[t].owner = task[t].owner /\ task'[t].path = task[t].path
  /\ task'[t].md5 = task[t].md5
  /\ UNCHANGED <<disk, index, lied, token>> /\ told'[t] = None

LEMMA PutKeeps ==
  ASSUME IInv, NEW t \in Term, token[t] \in User, NEW p \in Path,
         NEW e \in Entry, e \in Content => e = disk[token[t]][p],
         disk' = Put(token[t], p, e), index' = index
  PROVE  Kept(t)
<1>1. /\ TypeOK
      /\ \A q \in Path : disk'[token[t]][q] =
           IF q = p THEN e ELSE IF q \in Above(p) THEN Dir ELSE disk[token[t]][q]
  BY PutIs DEF IInv
<1>2. Dir \notin Content
  BY DriveAssumption
<1>3. QED
  BY <1>1, <1>2 DEF Kept

LEMMA CommandKinds ==
  ASSUME IInv, NEW t \in Term, Command(t)
  PROVE  \/ Quiet(t) \/ Holding(t)
         \/ \E a \in Name \cup {Dotdot}, c \in Content : Instant(t, a, c)
<1> USE DEF IInv
<1>1. ASSUME pc[t] # "commit"
      PROVE  ~PastRename(t)
  BY <1>1 DEF Owned, PastRename, At
<1>2. ASSUME Ready(t), Authorized(t) => token[t] \in User,
             \/ \E u \in User : Register(t, u) \/ Login(t, u)
             \/ Logout(t)
             \/ \E a \in Name \cup {Dotdot} : ChangeDir(t, a)
      PROVE  Quiet(t)
  BY <1>1, <1>2 DEF Ready, Register, Login, Logout, ChangeDir, Forget, files,
     ghost, Quiet, Kept, PastRename, At, TypeOK
<1>3. CASE Expire(t)
  BY <1>3 DEF Expire, files, ghost, Quiet, Holding, Kept, PastRename, At, Owned
<1>4. CASE Reconnect(t)
  BY <1>4 DEF Reconnect, Forget, files, ghost, Quiet, Kept, PastRename, At,
     TypeOK
<1>5. ASSUME NEW a \in Name \cup {Dotdot},
             \/ MakeDir(t, a) \/ Delete(t, a)
             \/ \E c \in Content : InstantFails(t, a, c) \/ Prepare(t, a, c)
      PROVE  Quiet(t)
  <2> DEFINE u == token[t]
             p == Target(ctx[t].cwd, a)
  <2>1. u \in User /\ p \in Path /\ pc[t] = "prompt"
    BY <1>5 DEF MakeDir, Delete, InstantFails, Prepare, Asks, Authorized,
       Valid, Ready, TypeOK
  <2>2. UNCHANGED <<task, lied>> /\ told'[t] = None
    BY <1>5 DEF MakeDir, Delete, InstantFails, Prepare, Forget, TypeOK
  <2>3. ~PastRename(t) /\ ~PastRename(t)'
    BY <1>1, <2>1, <2>2 DEF PastRename, At
  <2> HIDE DEF u, p
  <2>4. ASSUME MakeDir(t, a)
        PROVE  Kept(t)
    <3>1. disk' = Put(u, p, Dir) /\ index' = index
      BY <2>4 DEF MakeDir, EnsureDirectory, u, p
    <3>2. Dir \in Entry /\ Dir \notin Content
      BY DriveAssumption DEF Entry
    <3>3. QED
      BY <2>1, <3>1, <3>2, PutKeeps DEF u
  <2>5. ASSUME Delete(t, a)
        PROVE  Kept(t)
    <3>1. \A q \in Path : disk'[u][q] \in {None, disk[u][q]}
      BY <2>1, <2>5, RemovedIs DEF Delete, u, p
    <3>2. \A q \in Path : index'[u][q] \in {None, index[u][q]}
      BY <2>1, <2>5 DEF Delete, RowRemoved, TypeOK, u, p
    <3>3. None \notin Content
      BY DriveAssumption
    <3>4. QED
      BY <3>1, <3>2, <3>3 DEF Kept, u
  <2>6. ASSUME NEW c \in Content, InstantFails(t, a, c) \/ Prepare(t, a, c)
        PROVE  Kept(t)
    <3>1. disk' = Put(u, p, disk[u][p]) /\ disk[u][p] \in Entry /\ index' = index
      BY <2>1, <2>6 DEF InstantFails, Prepare, TypeOK, Entry, u, p
    <3>2. QED
      BY <2>1, <3>1, PutKeeps DEF u
  <2>7. Kept(t)
    BY <1>5, <2>4, <2>5, <2>6
  <2>8. QED
    BY <2>2, <2>3, <2>7 DEF Quiet
<1>6. CASE SendChunks(t) \/ GiveUp(t) \/ Commit(t)
  <2>1. pc[t] \in {"chunks", "sent"} /\ told[t] = None
    BY <1>6 DEF SendChunks, GiveUp, Commit, Owned
  <2>2. UNCHANGED <<disk, index, told, lied>>
    BY <1>6 DEF SendChunks, GiveUp, Commit, files, ghost
  <2>3. ~PastRename(t)'
    BY <1>1, <1>6, <2>1 DEF SendChunks, GiveUp, Commit, PastRename, At, TypeOK
  <2>4. QED
    BY <1>1, <2>1, <2>2, <2>3 DEF Quiet, Kept
<1>7. QED
  BY <1>2, <1>3, <1>4, <1>5, <1>6
     DEF Command, Register, Login, Logout, ChangeDir, Authorized, Valid, TypeOK

(* Renamed rules out that the MD5 of a renamed file is another.            *)
LEMMA WorkerKinds ==
  ASSUME IInv, Renamed, NEW t \in Term, WorkerStep(t)
  PROVE  Quiet(t) \/ Holding(t) \/ Rename(t) \/ Upsert(t)
<1> USE DEF IInv
<1>0. /\ token[t] \in User /\ task[t] \in CommitTask /\ task[t].owner = token[t]
      /\ task[t].path \in Path /\ told[t] = None
  BY TaskIsOwn DEF WorkerStep, Rename, RenameFails, Hash, Upsert, At, Owned
<1>1. CASE RenameFails(t)
  <2>1. index' = index /\ lied' = lied /\ told'[t] = None /\ task'[t] = None
    BY <1>1 DEF RenameFails, Answer, Failed, ghost, TypeOK
  <2>2. ~PastRename(t) /\ ~PastRename(t)'
    BY <1>1, <2>1 DEF RenameFails, PastRename, At
  <2>3. Kept(t)
    <3>1. CASE disk' = disk
      BY <2>1, <3>1 DEF Kept
    <3>2. CASE disk' = Put(token[t], task[t].path, disk[token[t]][task[t].path])
      <4>1. disk[token[t]][task[t].path] \in Entry
        BY <1>0 DEF TypeOK, Entry
      <4>2. QED
        BY <1>0, <2>1, <3>2, <4>1, PutKeeps
    <3>3. QED
      BY <1>0, <1>1, <3>1, <3>2 DEF RenameFails, Final
  <2>4. QED
    BY <2>1, <2>2, <2>3 DEF Quiet
<1>2. CASE Hash(t)
  <2>1. ActualMd5(t) = task[t].md5
    BY <1>2 DEF Hash, Renamed, PastRename, ActualMd5
  <2>2. /\ task' = [task EXCEPT ![t].at = "upsert"]
        /\ UNCHANGED <<disk, index, lied, token, told>>
    BY <1>2, <2>1 DEF Hash, session, ghost
  <2>3. /\ task'[t].owner = task[t].owner /\ task'[t].path = task[t].path
        /\ task'[t].md5 = task[t].md5 /\ task'[t].at = "upsert"
        /\ task'[t] \in CommitTask
    BY <1>0, <2>2 DEF TypeOK, CommitTask
  <2>4. PastRename(t) /\ PastRename(t)'
    BY <1>0, <1>2, <2>3, NoneAssumption DEF Hash, PastRename, At
  <2>5. QED
    BY <1>0, <2>2, <2>3, <2>4 DEF Holding
<1>3. QED
  BY <1>1, <1>2 DEF WorkerStep

Kinds(t) ==
  \/ Quiet(t) \/ Holding(t) \/ Rename(t) \/ Upsert(t)
  \/ \E a \in Name \cup {Dotdot}, c \in Content : Instant(t, a, c)

Copied(t, p, c) ==
  /\ told'[t] = [how |-> "instant", path |-> p, md5 |-> c]
  /\ index'[token[t]][p] = Row(token[t], p, c)
  /\ ~lied' => ~lied /\ disk'[token[t]][p] = c
  /\ \A q \in Path \ {p} :
       /\ disk'[token[t]][q] \in {Dir, disk[token[t]][q]}
       /\ index'[token[t]][q] = index[token[t]][q]
  /\ token' = token /\ ~PastRename(t) /\ ~PastRename(t)'

LEMMA InstantIs ==
  ASSUME IInv, NEW t \in Term, NEW a \in Name \cup {Dotdot}, NEW c \in Content,
         Instant(t, a, c)
  PROVE  \E p \in Path : Copied(t, p, c)
<1> DEFINE u == token[t]
           p == Target(ctx[t].cwd, a)
<1> USE DEF IInv
<1>1. u \in User /\ p \in Path /\ pc[t] = "prompt"
  BY DEF Instant, Asks, Authorized, Valid, Ready, TypeOK
<1>2. UNCHANGED <<task, token>> /\ ~PastRename(t)
  BY <1>1 DEF Instant, PastRename, At, Owned
<1>3. told'[t] = [how |-> "instant", path |-> p, md5 |-> c]
  BY DEF Instant, TypeOK
<1> HIDE DEF u, p
<1>4. PICK r \in Known(c) : Stored(r) \in Content /\ disk' = Put(u, p, Stored(r))
                            /\ lied' = (lied \/ Stored(r) # c)
  BY DEF Instant, u, p
<1>5. ~lied' => ~lied /\ Stored(r) = c
  BY <1>4, Zenon
<1>6. /\ disk'[u][p] = Stored(r)
      /\ \A q \in Path \ {p} : disk'[u][q] \in {Dir, disk[u][q]}
  BY <1>1, <1>4, PutIs DEF Entry
<1>7. index' = Upserted(u, p, Row(u, p, c)) /\ Row(u, p, c) \in RowSet
  BY <1>1 DEF Instant, RowOfCopy, Row, RowSet, u, p
<1>8. \A q \in Path : index'[u][q] =
        IF q = p THEN Row(u, p, c) ELSE index[u][q]
  BY <1>1, <1>7, UpsertedIs
<1>9. ~PastRename(t)'
  BY <1>2 DEF PastRename, At
<1>10. QED
  BY <1>1, <1>2, <1>3, <1>5, <1>6, <1>8, <1>9 DEF Copied, u

LEMMA RenameIs ==
  ASSUME IInv, NEW t \in Term, Rename(t)
  PROVE  /\ disk'[token[t]][task[t].path] = task[t].md5
         /\ \A q \in Path \ {task[t].path} :
              disk'[token[t]][q] \in {Dir, disk[token[t]][q]}
         /\ index' = index /\ lied' = lied /\ token' = token /\ told'[t] = None
         /\ ~PastRename(t) /\ PastRename(t)'
         /\ task'[t].owner = task[t].owner /\ task'[t].path = task[t].path
         /\ task'[t].md5 = task[t].md5
<1> USE DEF IInv
<1>0. /\ token[t] \in User /\ task[t] \in CommitTask /\ task[t].owner = token[t]
      /\ task[t].path \in Path /\ task[t].md5 \in Content /\ told[t] = None
  BY TaskIsOwn DEF Rename, At, Owned
<1>1. disk' = Put(token[t], task[t].path, task[t].md5) /\ task[t].md5 \in Entry
  BY <1>0 DEF Rename, Entry
<1>2. \A q \in Path : disk'[token[t]][q] =
        IF q = task[t].path THEN task[t].md5
        ELSE IF q \in Above(task[t].path) THEN Dir ELSE disk[token[t]][q]
  BY <1>0, <1>1, PutIs
<1>3. UNCHANGED <<index, lied, token, told>>
  BY DEF Rename, session, ghost
<1>4. /\ task'[t].owner = task[t].owner /\ task'[t].path = task[t].path
      /\ task'[t].md5 = task[t].md5 /\ task'[t].at = "hash"
  BY <1>0 DEF Rename, TypeOK, CommitTask
<1>5. task'[t] # None
  <2>1. [task[t] EXCEPT !.at = "hash"] \in CommitTask
    BY <1>0 DEF CommitTask
  <2>2. QED
    BY <2>1, NoneAssumption DEF Rename, TypeOK
<1>6. ~PastRename(t) /\ PastRename(t)'
  BY <1>4, <1>5 DEF Rename, PastRename, At
<1>7. QED
  BY <1>0, <1>2, <1>3, <1>4, <1>6

LEMMA UpsertIs ==
  ASSUME IInv, NEW t \in Term, Upsert(t)
  PROVE  /\ index'[token[t]][task[t].path] =
              Row(token[t], task[t].path, task[t].md5)
         /\ \A q \in Path \ {task[t].path} :
              index'[token[t]][q] = index[token[t]][q]
         /\ disk' = disk /\ lied' = lied /\ token' = token
         /\ told'[t] = [how |-> "commit", path |-> task[t].path,
                        md5 |-> task[t].md5]
         /\ PastRename(t) /\ ~PastRename(t)'
<1> USE DEF IInv
<1>0. /\ token[t] \in User /\ task[t] \in CommitTask /\ task[t].owner = token[t]
      /\ task[t].user = token[t] /\ task[t].path \in Path
      /\ task[t].md5 \in Content
  BY TaskIsOwn DEF Upsert, At
<1>1. /\ index' = Upserted(token[t], task[t].path,
                           Row(token[t], task[t].path, task[t].md5))
      /\ Row(token[t], task[t].path, task[t].md5) \in RowSet
  BY <1>0 DEF Upsert, Row, RowSet
<1>2. \A q \in Path : index'[token[t]][q] =
        IF q = task[t].path THEN Row(token[t], task[t].path, task[t].md5)
        ELSE index[token[t]][q]
  BY <1>0, <1>1, UpsertedIs
<1>3. UNCHANGED <<disk, lied, token>>
  BY DEF Upsert, session, ghost
<1>4. told'[t] = Success(t) /\ task'[t] = None
  BY DEF Upsert, Answer, TypeOK
<1>5. PastRename(t) /\ ~PastRename(t)'
  BY <1>4 DEF Upsert, PastRename, At
<1>6. QED
  BY <1>0, <1>2, <1>3, <1>4, <1>5 DEF Success

LEMMA UpsertHolds ==
  ASSUME IInv, Renamed, NEW t \in Term, Upsert(t)
  PROVE  disk[token[t]][task[t].path] = task[t].md5
<1>1. task[t].owner = token[t]
  BY TaskIsOwn DEF Upsert, At
<1>2. Final(t) = task[t].md5
  BY UpsertIs DEF Renamed
<1>3. QED
  BY <1>1, <1>2 DEF Final

(* Other terminals: their users are others.                                *)
LEMMA Apart ==
  ASSUME IInv, Alone, NEW t \in Term, Others(t), NEW s \in Term, s # t,
         token[s] # None
  PROVE  /\ token[s] \in User /\ token[s] # token[t]
         /\ disk'[token[s]] = disk[token[s]] /\ index'[token[s]] = index[token[s]]
BY DEF IInv, TypeOK, Alone, Others

LEMMA RenamedStep ==
  ASSUME IInv, Alone, Renamed, NEW t \in Term, Others(t), Kinds(t)
  PROVE  Renamed'
<1> SUFFICES ASSUME NEW s \in Term, PastRename(s)'
             PROVE  Final(s)' = task'[s].md5
  BY DEF Renamed
<1>1. CASE s # t
  <2>1. task'[s] = task[s] /\ PastRename(s)
    BY <1>1 DEF Others, PastRename, At
  <2>2. task[s].owner = token[s] /\ token[s] # None
    BY <2>1, TaskIsOwn, DriveAssumption DEF PastRename, At
  <2>3. QED
    BY <1>1, <2>1, <2>2, Apart DEF Renamed, Final
<1>2. CASE s = t
  <2>1. CASE Holding(t)
    BY <1>2, <2>1 DEF Holding, Renamed, Final
  <2>2. CASE Rename(t)
    <3>1. task[t].owner = token[t]
      BY <2>2, TaskIsOwn DEF Rename, At
    <3>2. QED
      BY <1>2, <2>2, <3>1, RenameIs DEF Final
  <2>3. ~Quiet(t) /\ ~Upsert(t)
        /\ ~\E a \in Name \cup {Dotdot}, c \in Content : Instant(t, a, c)
    BY <1>2, UpsertIs, InstantIs DEF Quiet, Copied
  <2>4. QED
    BY <2>1, <2>2, <2>3 DEF Kinds
<1>3. QED
  BY <1>1, <1>2

LEMMA LiedStays ==
  ASSUME IInv, NEW t \in Term, Kinds(t), ~lied'
  PROVE  ~lied
BY InstantIs, RenameIs, UpsertIs DEF Kinds, Quiet, Holding, Copied

LEMMA AtRestStep ==
  ASSUME IInv, Alone, Renamed, AtRest, NEW t \in Term, Others(t), Kinds(t)
  PROVE  AtRest'
<1> SUFFICES ASSUME ~lied', NEW u \in User, NEW p \in Path,
                    index'[u][p] # None, disk'[u][p] \in Content,
                    \A s \in Term : PastRename(s)' =>
                      task'[s].owner # u \/ task'[s].path # p
             PROVE  disk'[u][p] = index'[u][p].md5
  BY DEF AtRest
<1>0. ~lied
  BY LiedStays
<1>1. \A s \in Term : s # t /\ PastRename(s) =>
        task[s].owner # u \/ task[s].path # p
  BY DEF Others, PastRename, At
<1>2. CASE u # token[t]
  <2>1. PastRename(t) => task[t].owner # u
    BY <1>2, TaskIsOwn DEF PastRename, At
  <2>2. disk'[u] = disk[u] /\ index'[u] = index[u]
    BY <1>2 DEF Others
  <2>3. QED
    BY <1>0, <1>1, <2>1, <2>2 DEF AtRest
<1>3. CASE u = token[t]
  <2>1. Dir \notin Content
    BY DriveAssumption
  <2>2. ASSUME disk'[u][p] = disk[u][p], index'[u][p] = index[u][p],
               PastRename(t) => task[t].owner # u \/ task[t].path # p
        PROVE  disk'[u][p] = index'[u][p].md5
    BY <1>0, <1>1, <2>2 DEF AtRest
  <2>3. CASE Quiet(t)
    BY <1>3, <2>2, <2>3 DEF Quiet, Kept
  <2>4. CASE Holding(t)
    BY <2>2, <2>4 DEF Holding
  <2>5. CASE Rename(t)
    <3>1. p # task[t].path
      <4>1. task[t].owner = u
        BY <1>3, <2>5, TaskIsOwn DEF Rename, At
      <4>2. /\ PastRename(t)' /\ task'[t].owner = task[t].owner
            /\ task'[t].path = task[t].path
        BY <2>5, RenameIs
      <4>3. QED
        BY <4>1, <4>2
    <3>2. QED
      BY <1>3, <2>1, <2>2, <2>5, <3>1, RenameIs
  <2>6. CASE Upsert(t)
    <3>1. CASE p = task[t].path
      <4>1. disk[u][p] = task[t].md5
        BY <1>3, <2>6, <3>1, UpsertHolds
      <4>2. disk' = disk /\ index'[u][p] = Row(u, p, task[t].md5)
        BY <1>3, <2>6, <3>1, UpsertIs
      <4>3. QED
        BY <4>1, <4>2 DEF Row
    <3>2. CASE p # task[t].path
      BY <1>3, <2>2, <2>6, <3>2, UpsertIs
    <3>3. QED
      BY <3>1, <3>2
  <2>7. ASSUME NEW a \in Name \cup {Dotdot}, NEW c \in Content, Instant(t, a, c)
        PROVE  disk'[u][p] = index'[u][p].md5
    <3>1. PICK q \in Path : Copied(t, q, c)
      BY <2>7, InstantIs
    <3>2. CASE p = q
      BY <1>3, <3>1, <3>2 DEF Copied, Row
    <3>3. CASE p # q
      BY <1>3, <2>1, <2>2, <3>1, <3>3 DEF Copied
    <3>4. QED
      BY <3>2, <3>3
  <2>8. QED
    BY <2>3, <2>4, <2>5, <2>6, <2>7 DEF Kinds
<1>4. QED
  BY <1>2, <1>3

LEMMA ToldStep ==
  ASSUME IInv, Alone, Renamed, ToldStored, NEW t \in Term, Others(t), Kinds(t)
  PROVE  ToldStored'
<1> SUFFICES ASSUME NEW s \in Term, told'[s] # None,
                    lied' => told'[s].how = "commit"
             PROVE  Holds(s)'
  BY DEF ToldStored
<1>1. CASE s # t
  <2>1. /\ told'[s] = told[s] /\ token'[s] = token[s]
        /\ lied => told[s].how = "commit"
    BY <1>1, LiedStays DEF Others
  <2>2. token[s] # None
    BY <2>1 DEF IInv, Owned
  <2>3. Holds(s)
    BY <2>1 DEF ToldStored
  <2>4. QED
    BY <1>1, <2>1, <2>2, <2>3, Apart DEF Holds
<1>2. CASE s = t
  <2>1. CASE Upsert(t)
    <3>1. disk[token[t]][task[t].path] = task[t].md5
      BY <2>1, UpsertHolds
    <3>2. /\ index'[token[t]][task[t].path] =
               Row(token[t], task[t].path, task[t].md5)
          /\ UNCHANGED <<disk, token>>
          /\ told'[t] = [how |-> "commit", path |-> task[t].path,
                         md5 |-> task[t].md5]
      BY <2>1, UpsertIs
    <3>3. QED
      BY <1>2, <3>1, <3>2 DEF Holds
  <2>2. ASSUME NEW a \in Name \cup {Dotdot}, NEW c \in Content, Instant(t, a, c)
        PROVE  Holds(s)'
    <3>1. PICK p \in Path : Copied(t, p, c)
      BY <2>2, InstantIs
    <3>2. ~lied'
      BY <1>2, <3>1 DEF Copied
    <3>3. QED
      BY <1>2, <3>1, <3>2 DEF Copied, Holds
  <2>3. ~Quiet(t) /\ ~Holding(t) /\ ~Rename(t)
    BY <1>2, RenameIs DEF Quiet, Holding
  <2>4. QED
    BY <2>1, <2>2, <2>3 DEF Kinds
<1>3. QED
  BY <1>1, <1>2

THEOREM AloneInvariance == MaxLogins <= 1 /\ Spec => []AloneInv
<1> SUFFICES ASSUME MaxLogins <= 1  PROVE Spec => []AloneInv
  OBVIOUS
<1>1. AloneInv /\ [Next]_vars => AloneInv'
  <2>1. ASSUME AloneInv, NEW t \in Term, Command(t) \/ WorkerStep(t)
        PROVE  AloneInv'
    <3>1. IInv' /\ Others(t)
      BY <2>1, StepIInv DEF AloneInv
    <3>2. Alone'
      BY <2>1, AloneStep DEF AloneInv
    <3>3. Kinds(t)
      BY <2>1, CommandKinds, WorkerKinds DEF AloneInv, Kinds
    <3>4. QED
      BY <2>1, <3>1, <3>2, <3>3, RenamedStep, AtRestStep, ToldStep DEF AloneInv
  <2>2. ASSUME AloneInv, UNCHANGED vars
        PROVE  AloneInv'
    BY <2>2, StutterIInv DEF AloneInv, vars, session, files, ghost, Alone,
       Renamed, PastRename, At, Final, AtRest, ToldStored, Holds
  <2>3. QED
    BY <2>1, <2>2 DEF Next
<1>2. QED
  BY InitAloneInv, <1>1, PTL DEF Spec

(* With one terminal for each user the index never names an MD5 that the   *)
(* stored file has not, whatever uploads, deletions and commits interleave *)
(* (an instant upload may copy the file of a commit between its rename and *)
(* its row: then the ghost lied is set).                                   *)
THEOREM RowsMatchFiles == MaxLogins <= 1 /\ Spec => []IndexAtRest
<1>1. AloneInv => IndexAtRest
  BY DEF AloneInv, AtRest, IndexAtRest, InCommit, PastRename, At
<1>2. QED
  BY AloneInvariance, <1>1, PTL

(* What handle_file_upload_commit and the instant path report as stored is *)
(* stored, until that client works on its files again.                     *)
THEOREM ReportsAreTrue == MaxLogins <= 1 /\ Spec => []ToldStored
<1>1. AloneInv => ToldStored
  BY DEF AloneInv
<1>2. QED
  BY AloneInvariance, <1>1, PTL

-----------------------------------------------------------------------------
(* The executor *)

(* Sequences as queues: what Append and Tail do to length and contents.    *)
LEMMA RangeAppend ==
  ASSUME NEW S, NEW s \in Seq(S), NEW x \in S
  PROVE  /\ Range(Append(s, x)) = Range(s) \cup {x}
         /\ Len(Append(s, x)) = Len(s) + 1
         /\ \A i \in 1..Len(s) : Append(s, x)[i] = s[i]
         /\ Append(s, x)[Len(s) + 1] = x
<1>1. /\ Append(s, x) \in Seq(S) /\ Len(Append(s, x)) = Len(s) + 1
      /\ \A i \in 1..Len(s) : Append(s, x)[i] = s[i]
      /\ Append(s, x)[Len(s) + 1] = x
  BY AppendProperties
<1>2. DOMAIN Append(s, x) = 1..Len(s) + 1 /\ DOMAIN s = 1..Len(s)
  BY <1>1
<1>3. \A i : i \in 1..Len(s) + 1 <=> i \in 1..Len(s) \/ i = Len(s) + 1
  OBVIOUS
<1>4. \A y : y \in Range(Append(s, x)) <=> y \in Range(s) \/ y = x
  BY <1>1, <1>2, <1>3 DEF Range
<1> QED BY <1>1, <1>4

LEMMA RangeTail ==
  ASSUME NEW S, NEW s \in Seq(S), s # <<>>
  PROVE  /\ Range(s) = {Head(s)} \cup Range(Tail(s))
         /\ Len(Tail(s)) = Len(s) - 1
         /\ Head(s) \in S /\ Tail(s) \in Seq(S)
         /\ \A i \in 1..Len(Tail(s)) : Tail(s)[i] = s[i + 1]
         /\ Head(s) = s[1]
<1>1. /\ Head(s) \in S /\ Tail(s) \in Seq(S) /\ Len(Tail(s)) = Len(s) - 1
      /\ \A i \in 1..Len(Tail(s)) : Tail(s)[i] = s[i + 1]
      /\ Head(s) = s[1] /\ Len(s) \in Nat \ {0}
  BY HeadTailProperties
<1>2. ASSUME NEW x \in Range(s)  PROVE x \in {Head(s)} \cup Range(Tail(s))
  <2>1. PICK i \in 1..Len(s) : x = s[i]
    BY DEF Range
  <2>2. CASE i # 1
    <3>1. i - 1 \in 1..Len(Tail(s)) /\ i - 1 \in DOMAIN Tail(s) /\ Tail(s)[i - 1] = s[i]
      BY <2>2, <1>1
    <3> QED BY <2>1, <3>1 DEF Range
  <2> QED BY <1>1, <2>1, <2>2
<1>3. {Head(s)} \cup Range(Tail(s)) \subseteq Range(s)
  BY <1>1 DEF Range
<1> QED BY <1>1, <1>2, <1>3

LEMMA NotEmpty ==
  ASSUME NEW S, NEW s \in Seq(S)
  PROVE  (s = <<>> <=> Len(s) = 0) /\ Len(s) \in Nat
OBVIOUS

Hands == {hand[w] : w \in {v \in Worker : wpc[v] = "run"}}

LEMMA ExecutorStarts == ExecutorInit => ExecutorInv
<1> SUFFICES ASSUME ExecutorInit  PROVE ExecutorInv
  OBVIOUS
<1>1. ExecutorTypeOK
  <2>1. tasks \in Seq(Task)
    BY DEF ExecutorInit
  <2>2. QED
    BY <2>1, ExecutorAssumption DEF ExecutorInit, ExecutorTypeOK, WorkerPc
<1>2. Locked /\ Stages
  BY ExecutorAssumption DEF ExecutorInit, Locked, Stages
<1>3. ExactlyOnce
  <2>1. Range(tasks) = {} /\ Len(tasks) = 0
    BY DEF ExecutorInit, Range
  <2>2. QED
    BY <2>1 DEF ExecutorInit, ExactlyOnce
<1>4. QED
  BY <1>1, <1>2, <1>3 DEF ExecutorInv

(* Everything but the place of the tasks. *)
LEMMA ShapeNext == ExecutorInv /\ [ExecutorNext]_executorVars => ExecutorTypeOK' /\ Locked' /\ Stages'
<1> SUFFICES ASSUME ExecutorInv, [ExecutorNext]_executorVars  PROVE ExecutorTypeOK' /\ Locked' /\ Stages'
  OBVIOUS
<1> USE ExecutorAssumption DEF ExecutorInv, WorkerPc
<1>1. ASSUME NEW w \in Worker, Acquire(w)
      PROVE  ExecutorTypeOK' /\ Locked' /\ Stages'
  BY <1>1 DEF Acquire, ExecutorTypeOK, Locked, Stages, reactorVars, history
<1>2. ASSUME NEW w \in Worker, Test(w)
      PROVE  ExecutorTypeOK' /\ Locked' /\ Stages'
  BY <1>2 DEF Test, ExecutorTypeOK, Locked, Stages, reactorVars, history
<1>3. ASSUME NEW w \in Worker, Wait(w)
      PROVE  ExecutorTypeOK' /\ Locked' /\ Stages'
  BY <1>3 DEF Wait, ExecutorTypeOK, Locked, Stages, reactorVars, history
<1>4. ASSUME NEW w \in Worker, Exit(w)
      PROVE  ExecutorTypeOK' /\ Locked' /\ Stages'
  BY <1>4 DEF Exit, ExecutorTypeOK, Locked, Stages, reactorVars, history
<1>5. ASSUME NEW w \in Worker, Pop(w)
      PROVE  ExecutorTypeOK' /\ Locked' /\ Stages'
  <2>1. tasks \in Seq(Task) /\ tasks # <<>>
    BY <1>5 DEF Pop, ExecutorTypeOK, Locked
  <2>2. Head(tasks) \in Task /\ Tail(tasks) \in Seq(Task)
    BY <2>1, RangeTail
  <2>3. QED
    BY <1>5, <2>2 DEF Pop, ExecutorTypeOK, Locked, Stages, reactorVars, history
<1>6. ASSUME NEW w \in Worker, Run(w)
      PROVE  ExecutorTypeOK' /\ Locked' /\ Stages'
  <2>1. hand[w] \in Task
    BY <1>6 DEF Run, ExactlyOnce
  <2>2. QED
    BY <1>6, <2>1 DEF Run, ExecutorTypeOK, Locked, Stages, reactorVars
<1>7. ASSUME NEW w \in Worker, SpuriousWakeup(w)
      PROVE  ExecutorTypeOK' /\ Locked' /\ Stages'
  BY <1>7 DEF SpuriousWakeup, ExecutorTypeOK, Locked, Stages, reactorVars, history
<1>8. ASSUME NEW t \in Task, SubmitLock(t)
      PROVE  ExecutorTypeOK' /\ Locked' /\ Stages'
  BY <1>8 DEF SubmitLock, ExecutorTypeOK, Locked, Stages, workerVars, history
<1>9. CASE Push
  <2>1. tasks' \in Seq(Task) /\ tasks' # <<>>
    BY <1>9 DEF Push, ExecutorTypeOK
  <2>2. QED
    BY <1>9, <2>1 DEF Push, ExecutorTypeOK, Locked, Stages, workerVars
<1>10. CASE NotifyOne
  <2>1. CASE UNCHANGED <<waiting, wpc>>
    BY <1>10, <2>1 DEF NotifyOne, ExecutorTypeOK, Locked, Stages, history
  <2>2. ASSUME NEW w \in waiting, waiting' = waiting \ {w},
               wpc' = [wpc EXCEPT ![w] = "acquire"]
        PROVE  ExecutorTypeOK' /\ Locked' /\ Stages'
    BY <1>10, <2>2 DEF NotifyOne, ExecutorTypeOK, Locked, Stages, history
  <2>3. QED
    BY <1>10, <2>1, <2>2 DEF NotifyOne
<1>11. CASE LeaveLoop
  BY <1>11 DEF LeaveLoop, ExecutorTypeOK, Locked, Stages, workerVars, history
<1>12. ASSUME NEW w \in Worker, StartWorker(w)
       PROVE  ExecutorTypeOK' /\ Locked' /\ Stages'
  BY <1>12 DEF StartWorker, ExecutorTypeOK, Locked, Stages, reactorVars, history
<1>13. CASE StartReactor
  BY <1>13 DEF StartReactor, ExecutorTypeOK, Locked, Stages, workerVars, history
<1>14. CASE Stop
  BY <1>14 DEF Stop, ExecutorTypeOK, Locked, Stages, workerVars, reactorVars, history
<1>15. CASE JoinReactor
  BY <1>15 DEF JoinReactor, ExecutorTypeOK, Locked, Stages, workerVars, reactorVars,
               history
<1>16. CASE SetStopping
  BY <1>16 DEF SetStopping, ExecutorTypeOK, Locked, Stages, workerVars, reactorVars,
               history
<1>17. CASE NotifyAll
  BY <1>17 DEF NotifyAll, ExecutorTypeOK, Locked, Stages, reactorVars, history
<1>18. CASE JoinWorkers
  BY <1>18 DEF JoinWorkers, ExecutorTypeOK, Locked, Stages, workerVars, reactorVars,
               history
<1>19. CASE UNCHANGED executorVars
  BY <1>19 DEF executorVars, ExecutorTypeOK, Locked, Stages, workerVars, reactorVars, history
<1>20. QED
  BY <1>1, <1>2, <1>3, <1>4, <1>5, <1>6, <1>7, <1>8, <1>9, <1>10, <1>11, <1>12,
     <1>13, <1>14, <1>15, <1>16, <1>17, <1>18, <1>19
     DEF ExecutorNext, WorkerLoop, ReactorStep, MainStep

(* Actions that move no task. *)
LEMMA OnceFrame ==
  ASSUME ExactlyOnce, tasks' = tasks, hand' = hand, submitted' = submitted,
         ran' = ran,
         \A w \in Worker : wpc'[w] = "run" <=> wpc[w] = "run"
  PROVE  ExactlyOnce'
<1>1. {w \in Worker : wpc'[w] = "run"} = {w \in Worker : wpc[w] = "run"}
  OBVIOUS
<1>2. QED
  BY <1>1 DEF ExactlyOnce

(* Pop and Push move one task at an end of the queue, Run retires one.     *)
LEMMA OnceNext == ExecutorInv /\ [ExecutorNext]_executorVars => ExactlyOnce'
<1> SUFFICES ASSUME ExecutorInv, [ExecutorNext]_executorVars  PROVE ExactlyOnce'
  OBVIOUS
<1> USE DEF ExecutorInv
<1>0. /\ tasks \in Seq(Task) /\ wpc \in [Worker -> WorkerPc]
      /\ hand \in [Worker -> Task \cup {NoTask}]
  BY DEF ExecutorTypeOK
<1>1. ASSUME NEW w \in Worker,
             Acquire(w) \/ Test(w) \/ Wait(w) \/ Exit(w) \/ SpuriousWakeup(w)
               \/ StartWorker(w)
      PROVE  ExactlyOnce'
  <2>1. /\ tasks' = tasks /\ hand' = hand /\ submitted' = submitted
        /\ ran' = ran
    BY <1>1 DEF Acquire, Test, Wait, Exit, SpuriousWakeup, StartWorker, history
  <2>2. \A v \in Worker : wpc'[v] = "run" <=> wpc[v] = "run"
    <3>1. wpc[w] # "run"
      BY <1>1 DEF Acquire, Test, Wait, Exit, SpuriousWakeup, StartWorker, Locked
    <3>2. \E s \in {"test", "pop", "exit", "wait", "waiting", "exited",
                    "acquire"} : wpc' = [wpc EXCEPT ![w] = s]
      BY <1>1 DEF Acquire, Test, Wait, Exit, SpuriousWakeup, StartWorker
    <3>3. QED
      BY <1>0, <3>1, <3>2
  <2>3. QED
    BY <2>1, <2>2, OnceFrame
<1>2. ASSUME NEW w \in Worker, Pop(w)  PROVE ExactlyOnce'
  <2>1. /\ tasks # <<>> /\ tasks' = Tail(tasks)
        /\ hand' = [hand EXCEPT ![w] = Head(tasks)]
        /\ wpc' = [wpc EXCEPT ![w] = "run"] /\ wpc[w] = "pop"
        /\ submitted' = submitted /\ ran' = ran
    BY <1>2 DEF Pop, Locked, history
  <2>2. /\ Range(tasks) = {Head(tasks)} \cup Range(tasks')
        /\ Len(tasks') = Len(tasks) - 1 /\ Head(tasks) \in Task
        /\ \A i \in 1..Len(tasks') : tasks'[i] = tasks[i + 1]
        /\ Head(tasks) = tasks[1]
    BY <1>0, <2>1, RangeTail
  <2>3. Len(tasks) \in Nat
    BY <1>0
  <2>4. Head(tasks) \notin Range(tasks')
    <3>1. SUFFICES ASSUME NEW i \in 1..Len(tasks'), tasks'[i] = Head(tasks)
                   PROVE  FALSE
      <4>1. DOMAIN tasks' = 1..Len(tasks')
        BY <1>0, <2>1, RangeTail
      <4>2. QED
        BY <4>1 DEF Range
    <3>2. i + 1 \in 1..Len(tasks) /\ 1 \in 1..Len(tasks) /\ i + 1 # 1
      BY <2>2, <2>3
    <3>3. tasks[i + 1] = tasks[1]
      BY <2>2, <3>1
    <3>4. QED
      BY <3>2, <3>3 DEF ExactlyOnce
  <2>5. \A i, j \in 1..Len(tasks') : tasks'[i] = tasks'[j] => i = j
    <3>1. ASSUME NEW i \in 1..Len(tasks'), NEW j \in 1..Len(tasks'),
                 tasks'[i] = tasks'[j]
          PROVE  i = j
      <4>1. i + 1 \in 1..Len(tasks) /\ j + 1 \in 1..Len(tasks)
        BY <2>2, <2>3
      <4>2. i + 1 = j + 1
        BY <2>2, <3>1, <4>1 DEF ExactlyOnce
      <4>3. QED
        BY <4>2
    <3>2. QED
      BY <3>1
  <2>6. /\ wpc'[w] = "run" /\ hand'[w] = Head(tasks)
        /\ \A v \in Worker : v # w => wpc'[v] = wpc[v] /\ hand'[v] = hand[v]
    BY <1>0, <2>1
  <2>7. Hands' = Hands \cup {Head(tasks)}
    BY <2>1, <2>6 DEF Hands
  <2>8. \A v \in Worker : wpc[v] = "run" => hand[v] # Head(tasks)
    BY <2>2 DEF ExactlyOnce
  <2>9. QED
    BY <2>1, <2>2, <2>4, <2>5, <2>6, <2>7, <2>8 DEF ExactlyOnce, Hands
<1>3. ASSUME NEW w \in Worker, Run(w)  PROVE ExactlyOnce'
  <2>1. /\ tasks' = tasks /\ submitted' = submitted
        /\ ran' = ran \cup {hand[w]} /\ wpc[w] = "run"
        /\ wpc'[w] # "run"
        /\ \A v \in Worker : v # w => wpc'[v] = wpc[v] /\ hand'[v] = hand[v]
    BY <1>0, <1>3 DEF Run
  <2>2. Hands = Hands' \cup {hand[w]}
    BY <2>1 DEF Hands
  <2>3. QED
    BY <2>1, <2>2 DEF ExactlyOnce, Hands
<1>4. CASE Push
  <2>1. /\ arg \in Task \ submitted /\ tasks' = Append(tasks, arg)
        /\ submitted' = submitted \cup {arg}
        /\ ran' = ran /\ wpc' = wpc /\ hand' = hand
    BY <1>4 DEF Push, ExecutorTypeOK, Locked, workerVars
  <2>2. /\ Range(tasks') = Range(tasks) \cup {arg}
        /\ Len(tasks') = Len(tasks) + 1
        /\ \A i \in 1..Len(tasks) : tasks'[i] = tasks[i]
        /\ tasks'[Len(tasks) + 1] = arg
    BY <1>0, <2>1, RangeAppend
  <2>3. Len(tasks) \in Nat /\ \A i \in 1..Len(tasks) : tasks[i] \in Range(tasks)
    BY <1>0 DEF Range
  <2>4. arg \notin Range(tasks) \cup ran \cup Hands
    BY <2>1 DEF ExactlyOnce, Hands
  <2>5. \A i, j \in 1..Len(tasks') : tasks'[i] = tasks'[j] => i = j
    <3>1. ASSUME NEW i \in 1..Len(tasks'), NEW j \in 1..Len(tasks'),
                 tasks'[i] = tasks'[j]
          PROVE  i = j
      <4>1. CASE i \in 1..Len(tasks) /\ j \in 1..Len(tasks)
        BY <2>2, <3>1, <4>1 DEF ExactlyOnce
      <4>2. CASE i = Len(tasks) + 1 /\ j = Len(tasks) + 1
        BY <4>2
      <4>3. CASE i \in 1..Len(tasks) /\ j = Len(tasks) + 1
        BY <2>2, <2>3, <2>4, <3>1, <4>3
      <4>4. CASE i = Len(tasks) + 1 /\ j \in 1..Len(tasks)
        BY <2>2, <2>3, <2>4, <3>1, <4>4
      <4>5. QED
        BY <2>2, <2>3, <4>1, <4>2, <4>3, <4>4
    <3>2. QED
      BY <3>1
  <2>6. \A w \in Worker : wpc[w] = "run" => hand[w] # arg
    BY <2>4 DEF Hands
  <2>7. QED
    BY <2>1, <2>2, <2>4, <2>5, <2>6 DEF ExactlyOnce, Hands
<1>5. ASSUME NEW t \in Task, SubmitLock(t)  PROVE ExactlyOnce'
  BY <1>5, OnceFrame DEF SubmitLock, workerVars, history
<1>6. CASE NotifyOne
  <2>1. /\ tasks' = tasks /\ hand' = hand /\ submitted' = submitted
        /\ ran' = ran
    BY <1>6 DEF NotifyOne, history
  <2>2. \A v \in Worker : wpc'[v] = "run" <=> wpc[v] = "run"
    <3>1. CASE UNCHANGED <<waiting, wpc>>
      BY <3>1
    <3>2. ASSUME NEW w \in waiting, wpc' = [wpc EXCEPT ![w] = "acquire"]
          PROVE  \A v \in Worker : wpc'[v] = "run" <=> wpc[v] = "run"
      BY <1>0, <3>2 DEF Locked, ExecutorTypeOK
    <3>3. QED
      BY <1>6, <3>1, <3>2 DEF NotifyOne
  <2>3. QED
    BY <2>1, <2>2, OnceFrame
<1>7. CASE NotifyAll
  <2>1. /\ tasks' = tasks /\ hand' = hand /\ submitted' = submitted
        /\ ran' = ran
    BY <1>7 DEF NotifyAll, history
  <2>2. \A v \in Worker : wpc'[v] = "run" <=> wpc[v] = "run"
    BY <1>0, <1>7 DEF NotifyAll, Locked
  <2>3. QED
    BY <2>1, <2>2, OnceFrame
<1>8. CASE JoinWorkers
  <2>1. tasks = <<>>
    BY <1>8, ExecutorAssumption DEF JoinWorkers, Stages
  <2>2. QED
    BY <1>8, <2>1, OnceFrame DEF JoinWorkers, workerVars, history
<1>9. CASE LeaveLoop \/ StartReactor \/ Stop \/ JoinReactor \/ SetStopping
  BY <1>9, OnceFrame DEF LeaveLoop, StartReactor, Stop, JoinReactor,
                         SetStopping, workerVars, history
<1>10. CASE UNCHANGED executorVars
  BY <1>10, OnceFrame DEF executorVars, workerVars, history
<1>11. QED
  BY <1>1, <1>2, <1>3, <1>4, <1>5, <1>6, <1>7, <1>8, <1>9, <1>10
     DEF ExecutorNext, WorkerLoop, ReactorStep, MainStep

LEMMA ExecutorInvariance == ExecutorSpec => []ExecutorInv
<1>1. ExecutorInv /\ [ExecutorNext]_executorVars => ExecutorInv'
  BY ShapeNext, OnceNext DEF ExecutorInv
<1>2. QED
  BY ExecutorStarts, <1>1, PTL DEF ExecutorSpec

(* Every variable of the executor keeps its type.                          *)
THEOREM ExecutorTypes == ExecutorSpec => []ExecutorTypeOK
<1>1. ExecutorInv => ExecutorTypeOK
  BY DEF ExecutorInv
<1>2. QED
  BY ExecutorInvariance, <1>1, PTL

(* No commit handed to submit is lost between the queue and a worker, and  *)
(* none is executed by two workers.                                        *)
THEOREM TasksRunOnce == ExecutorSpec => []ExactlyOnce
<1>1. ExecutorInv => ExactlyOnce
  BY DEF ExecutorInv
<1>2. QED
  BY ExecutorInvariance, <1>1, PTL

(* What shutdown swaps away is empty: each task submitted has been run.    *)
THEOREM ShutdownLosesNothing == ExecutorSpec => []ShutdownDrains
<1>1. ExecutorInv => ShutdownDrains
  <2>1. SUFFICES ASSUME ExecutorInv, mpc = "done"  PROVE ran = submitted
    BY DEF ShutdownDrains
  <2>2. \A w \in Worker : wpc[w] = "exited" /\ tasks = <<>>
    BY <2>1 DEF ExecutorInv, Stages
  <2>3. tasks = <<>>
    BY <2>2, ExecutorAssumption
  <2>4. Range(tasks) = {} /\ {w \in Worker : wpc[w] = "run"} = {}
    BY <2>2, <2>3 DEF Range
  <2>5. QED
    BY <2>1, <2>4 DEF ExecutorInv, ExactlyOnce
<1>2. QED
  BY ExecutorInvariance, <1>1, PTL

(* The join() loop of shutdown waits for no sleeping worker.               *)
THEOREM NobodySleepsThroughStop == ExecutorSpec => []NoSleeperAtJoin
<1>1. ExecutorInv => NoSleeperAtJoin
  BY DEF ExecutorInv, Locked, Stages, NoSleeperAtJoin
<1>2. QED
  BY ExecutorInvariance, <1>1, PTL

-----------------------------------------------------------------------------
(* No lost wake-up *)

LEMMA AwakeType == IsFiniteSet(Awake) /\ Cardinality(Awake) \in Nat
BY ExecutorAssumption, FS_Subset, FS_CardinalityType DEF Awake

(* Steps that leave the queue alone, put no worker to sleep and take none  *)
(* off its way to the queue.                                               *)
LEMMA AwakeGrows ==
  ASSUME WorkConserving, tasks' = tasks, waiting' \subseteq waiting,
         Awake \subseteq Awake', rpc' = "notify" <=> rpc = "notify",
         tasks \in Seq(Task)
  PROVE  WorkConserving'
<1>1. IsFiniteSet(Awake') /\ Cardinality(Awake') \in Nat
  BY ExecutorAssumption, FS_Subset, FS_CardinalityType DEF Awake
<1>2. Cardinality(Awake) <= Cardinality(Awake')
  BY <1>1, FS_Subset
<1>3. Len(tasks) \in Nat
  BY NotEmpty
<1>4. QED
  BY <1>1, <1>2, <1>3, AwakeType DEF WorkConserving

LEMMA ConservingNext == ExecutorInv /\ WorkConserving /\ [ExecutorNext]_executorVars => WorkConserving'
<1> SUFFICES ASSUME ExecutorInv, WorkConserving, [ExecutorNext]_executorVars  PROVE WorkConserving'
  OBVIOUS
<1>0. /\ tasks \in Seq(Task) /\ Len(tasks) \in Nat
      /\ wpc \in [Worker -> WorkerPc] /\ waiting \subseteq Worker
  BY NotEmpty DEF ExecutorInv, ExecutorTypeOK
<1>1. IsFiniteSet(Awake') /\ Cardinality(Awake') \in Nat
  BY ExecutorAssumption, FS_Subset, FS_CardinalityType DEF Awake
<1>2. ASSUME NEW w \in Worker, Acquire(w) \/ Run(w) \/ StartWorker(w)
      PROVE  WorkConserving'
  <2>1. \E s \in {"test", "acquire"} : wpc' = [wpc EXCEPT ![w] = s]
    BY <1>2 DEF Acquire, Run, StartWorker
  <2>2. Awake \subseteq Awake'
    BY <1>0, <2>1 DEF Awake
  <2>3. QED
    BY <1>0, <1>2, <2>2, AwakeGrows
       DEF Acquire, Run, StartWorker, reactorVars
<1>3. ASSUME NEW w \in Worker, Test(w)  PROVE WorkConserving'
  <2>1. CASE tasks = <<>>
    BY <1>0, <1>1, <1>3, <2>1 DEF Test, WorkConserving
  <2>2. CASE tasks # <<>>
    <3>1. Awake \subseteq Awake'
      BY <1>0, <1>3, <2>2 DEF Test, Awake
    <3>2. QED
      BY <1>0, <1>3, <3>1, AwakeGrows DEF Test, reactorVars
  <2>3. QED
    BY <2>1, <2>2
<1>4. ASSUME NEW w \in Worker, Wait(w)  PROVE WorkConserving'
  <2>1. tasks' = <<>>
    BY <1>4 DEF Wait, ExecutorInv, Locked
  <2>2. QED
    BY <1>1, <2>1 DEF WorkConserving
<1>5. ASSUME NEW w \in Worker, Exit(w)  PROVE WorkConserving'
  <2>1. tasks' = <<>>
    BY <1>5 DEF Exit, ExecutorInv, Locked
  <2>2. QED
    BY <1>1, <2>1 DEF WorkConserving
<1>6. ASSUME NEW w \in Worker, Pop(w)  PROVE WorkConserving'
  <2>1. Len(tasks') = Len(tasks) - 1
    BY <1>0, <1>6, RangeTail DEF Pop, ExecutorInv, Locked
  <2>2. Awake' = Awake \ {w} /\ w \in Awake
    BY <1>0, <1>6 DEF Pop, Awake
  <2>3. Cardinality(Awake') = Cardinality(Awake) - 1
    BY <2>2, AwakeType, FS_RemoveElement
  <2>4. waiting' = waiting /\ rpc' = rpc
    BY <1>6 DEF Pop, reactorVars
  <2>5. QED
    BY <1>0, <2>1, <2>3, <2>4, AwakeType DEF WorkConserving
<1>7. ASSUME NEW w \in Worker, SpuriousWakeup(w)  PROVE WorkConserving'
  <2>1. Awake \subseteq Awake'
    BY <1>0, <1>7 DEF SpuriousWakeup, Awake
  <2>2. QED
    BY <1>0, <1>7, <2>1, AwakeGrows DEF SpuriousWakeup, reactorVars
<1>8. CASE Push
  <2>1. /\ Len(tasks') = Len(tasks) + 1
        /\ waiting' = waiting /\ wpc' = wpc
        /\ rpc = "push" /\ rpc' = "notify"
    BY <1>0, <1>8, RangeAppend DEF Push, ExecutorInv, ExecutorTypeOK, workerVars
  <2>2. Awake' = Awake
    BY <2>1 DEF Awake
  <2>3. QED
    BY <1>0, <2>1, <2>2, AwakeType DEF WorkConserving
<1>9. CASE NotifyOne
  <2>1. rpc = "notify" /\ rpc' = "loop" /\ tasks' = tasks
    BY <1>9 DEF NotifyOne
  <2>2. CASE waiting' = {}
    BY <2>2 DEF WorkConserving
  <2>3. ASSUME NEW w \in waiting, waiting' = waiting \ {w},
               wpc' = [wpc EXCEPT ![w] = "acquire"]
        PROVE  WorkConserving'
    <3>1. Awake' = Awake \cup {w} /\ w \notin Awake
      BY <1>0, <2>3 DEF Awake, ExecutorInv, Locked
    <3>2. Cardinality(Awake') = Cardinality(Awake) + 1
      BY <3>1, AwakeType, FS_AddElement
    <3>3. QED
      BY <1>0, <2>1, <2>3, <3>2, AwakeType DEF WorkConserving
  <2>4. QED
    BY <1>9, <2>2, <2>3 DEF NotifyOne
<1>10. CASE NotifyAll \/ JoinWorkers
  <2>1. waiting' = {}
    BY <1>10 DEF NotifyAll, JoinWorkers, ExecutorInv, Stages
  <2>2. QED
    BY <2>1 DEF WorkConserving
<1>11. CASE \/ \E t \in Task : SubmitLock(t)
            \/ LeaveLoop \/ StartReactor \/ Stop \/ JoinReactor \/ SetStopping
            \/ UNCHANGED executorVars
  <2>1. /\ tasks' = tasks /\ waiting' = waiting /\ wpc' = wpc
        /\ rpc' = "notify" <=> rpc = "notify"
    BY <1>11 DEF SubmitLock, LeaveLoop, StartReactor, Stop, JoinReactor,
                 SetStopping, executorVars, workerVars, reactorVars, ExecutorInv, Stages
  <2>2. Awake' = Awake
    BY <2>1 DEF Awake
  <2>3. QED
    BY <1>0, <2>1, <2>2, AwakeGrows
<1>12. QED
  BY <1>2, <1>3, <1>4, <1>5, <1>6, <1>7, <1>8, <1>9, <1>10, <1>11
     DEF ExecutorNext, WorkerLoop, ReactorStep, MainStep

(* No notification is lost, wherever submit falls between a worker's test  *)
(* of the queue and its wait.                                              *)
THEOREM NoLostWakeup == ExecutorSpec => []WorkConserving
<1>1. ExecutorInit => WorkConserving
  BY DEF ExecutorInit, WorkConserving
<1>2. QED
  BY ExecutorInvariance, ConservingNext, <1>1, PTL DEF ExecutorSpec

-----------------------------------------------------------------------------
(* Refinement *)

LEMMA PoolStep == ExecutorInv /\ [ExecutorNext]_executorVars => [Pool!Next]_<<submitted, ran, mpc = "done">>
<1> SUFFICES ASSUME ExecutorInv, [ExecutorNext]_executorVars
             PROVE  [Pool!Next]_<<submitted, ran, mpc = "done">>
  OBVIOUS
<1>1. CASE Push
  <2>1. mpc # "done"
    BY <1>1 DEF Push, ExecutorInv, Stages
  <2>2. arg \in Task /\ Pool!Submit(arg)
    BY <1>1, <2>1 DEF Push, ExecutorInv, ExecutorTypeOK, Locked, Pool!Submit
  <2>3. QED
    BY <2>2 DEF Pool!Next
<1>2. ASSUME NEW w \in Worker, Run(w)
      PROVE  [Pool!Next]_<<submitted, ran, mpc = "done">>
  <2>1. mpc # "done"
    BY <1>2 DEF Run, ExecutorInv, Stages
  <2>2. hand[w] \in Task /\ hand[w] \in submitted \ ran
    BY <1>2 DEF Run, ExecutorInv, ExactlyOnce
  <2>3. Pool!Execute(hand[w])
    BY <1>2, <2>1, <2>2 DEF Run, Pool!Execute
  <2>4. QED
    BY <2>2, <2>3 DEF Pool!Next
<1>3. CASE JoinWorkers
  <2>1. \A w \in Worker : wpc[w] = "exited" /\ tasks = <<>>
    BY <1>3 DEF JoinWorkers, ExecutorInv, Stages
  <2>2. tasks = <<>>
    BY <2>1, ExecutorAssumption
  <2>3. Range(tasks) = {} /\ {w \in Worker : wpc[w] = "run"} = {}
    BY <2>1, <2>2 DEF Range
  <2>4. ran = submitted
    BY <2>3 DEF ExecutorInv, ExactlyOnce
  <2>5. Pool!Close
    BY <1>3, <2>4 DEF JoinWorkers, Pool!Close, history
  <2>6. QED
    BY <2>5 DEF Pool!Next
<1>4. CASE \/ \E w \in Worker : \/ Acquire(w) \/ Test(w) \/ Wait(w) \/ Exit(w)
                                \/ Pop(w) \/ SpuriousWakeup(w) \/ StartWorker(w)
           \/ \E t \in Task : SubmitLock(t)
           \/ NotifyOne \/ LeaveLoop \/ StartReactor \/ Stop \/ JoinReactor
           \/ SetStopping \/ NotifyAll \/ UNCHANGED executorVars
  <2>1. /\ submitted' = submitted /\ ran' = ran
        /\ mpc' = "done" <=> mpc = "done"
    BY <1>4 DEF Acquire, Test, Wait, Exit, Pop, SpuriousWakeup, StartWorker,
                SubmitLock, NotifyOne, LeaveLoop, StartReactor, Stop,
                JoinReactor, SetStopping, NotifyAll, executorVars, history
  <2>2. QED
    BY <2>1
<1>5. QED
  BY <1>1, <1>2, <1>3, <1>4 DEF ExecutorNext, WorkerLoop, ReactorStep, MainStep

(* The executor implements the abstract pool: each of its steps submits a  *)
(* task, executes one, closes the pool, or changes nothing the pool has.   *)
THEOREM ImplementsPool == ExecutorSpec => PoolSpec
<1>1. ExecutorInit => Pool!Init
  BY DEF ExecutorInit, Pool!Init
<1>2. QED
  BY ExecutorInvariance, <1>1, PoolStep, PTL DEF ExecutorSpec, PoolSpec, Pool!Spec
===============================================================================
