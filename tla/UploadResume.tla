----------------------------- MODULE UploadResume -----------------------------
(***************************************************************************)
(* Resumable upload in the C++ drive: the client's handle_upload, the      *)
(* FILE_UPLOAD_* commands of the reactor, the commit task on the thread    *)
(* pool, and what they leave on disk: the .part file, its .meta checkpoint *)
(* (both named after the user and the MD5), the stored files, and the rows *)
(* of the file index.  The server may crash between any two system calls,  *)
(* a connection may drop at any time.                                      *)
(*                                                                         *)
(* Every client uploads the same local file, cut in Blocks chunks, each to *)
(* its own remote path: several clients are several terminals of one user. *)
(* Block i of the file is the number i; 0 is a hole.  A connection's       *)
(* requests do not outlive it, and the token check always succeeds.        *)
(***************************************************************************)
EXTENDS Integers, Sequences, FiniteSets, Functions

CONSTANTS
  Client,      \* terminals uploading the file
  Path,        \* remote paths
  PathOf,      \* where each terminal puts the file
  Blocks,      \* chunks in the file
  UseMmap,     \* TRUE: the file is large enough for handle_upload to map it
  Worker,      \* threads of the task executor
  Fd,          \* descriptor numbers the server may give a connection
  MaxDrops,    \* bound on lost connections
  MaxCrashes,  \* bound on server crashes
  MaxOverlap,  \* bound on commits in the executor when a connection breaks
  Apart,       \* TRUE: no connection gets the number of another terminal's
               \* that has a commit in the executor
  None         \* absent file, row, connection or task

Stages == {"rename", "removeMeta", "hash", "upsert", "dropPart", "dropMeta"}
CommitTask == [path : Path, fd : Fd \cup {None}, at : Stages]

ASSUME UploadAssumption ==
  /\ PathOf \in [Client -> Path]
  /\ Blocks \in Nat /\ UseMmap \in BOOLEAN
  /\ IsFiniteSet(Fd) /\ Cardinality(Fd) > Cardinality(Client)
  /\ MaxDrops \in Nat /\ MaxCrashes \in Nat /\ MaxOverlap \in Nat
  /\ Apart \in BOOLEAN
  /\ None \notin Nat \cup Seq(Nat) \cup Fd \cup CommitTask

VARIABLES
  part,      \* <md5>.part, or None
  meta,      \* "received" in <md5>.meta, or None
  stored,    \* what each path holds, or None
  index,     \* paths whose row carries the file's MD5
  ctx,       \* per client, received bytes of the active upload, or None
  job,       \* the request the reactor is in the middle of
  tasks,     \* commits queued in the executor
  running,   \* per worker, the commit it executes
  fd,        \* the server's descriptor of a client's connection, or None
  inbox,     \* requests sent and not handled
  outbox,    \* replies sent and not read
  pc,        \* where the client is in handle_upload
  offset,    \* its next chunk
  pos,       \* its position in the local file's stream
  drops, crashes

disk    == <<part, meta, stored, index>>
server  == <<ctx, job, tasks, running>>
client  == <<pc, offset, pos>>
vars    == <<disk, server, fd, inbox, outbox, client, drops, crashes>>

File == [i \in 1..Blocks |-> i]
Idle == [phase |-> "idle"]

Init ==
  /\ part = None /\ meta = None
  /\ stored = [p \in Path |-> None] /\ index = {}
  /\ ctx = [c \in Client |-> None] /\ job = Idle
  /\ tasks = <<>> /\ running = [w \in Worker |-> None]
  /\ fd = [c \in Client |-> None]
  /\ inbox = [c \in Client |-> <<>>] /\ outbox = [c \in Client |-> <<>>]
  /\ pc = [c \in Client |-> "idle"]
  /\ offset = [c \in Client |-> 0] /\ pos = [c \in Client |-> 0]
  /\ drops = 0 /\ crashes = 0

Reply(status, off) == [status |-> status, offset |-> off]

(* schedule_response: the message goes to whoever has the descriptor now. *)
SendTo(d, reply) ==
  outbox' = [c \in Client |-> IF d # None /\ fd[c] = d
                              THEN Append(outbox[c], reply) ELSE outbox[c]]

-----------------------------------------------------------------------------
(* The client: handle_upload, one call() at a time *)

Send(c, request) == inbox' = [inbox EXCEPT ![c] = Append(@, request)]

(* The commits submitted and not answered yet: each keeps the descriptor   *)
(* number it is to answer.                                                 *)
Commits == Range(tasks)
           \cup {running[w] : w \in {v \in Worker : running[v] # None}}

(* accept() gives any free number; by Apart not one that another terminal's *)
(* commit is about to answer, whose reply this connection would get.       *)
Connect(c) ==
  /\ fd[c] = None /\ pc[c] # "done" /\ job = Idle
  /\ \E d \in Fd : /\ \A e \in Client : fd[e] # d
                   /\ Apart => \A t \in Commits : t.fd = d => t.path = PathOf[c]
                   /\ fd' = [fd EXCEPT ![c] = d]
  /\ UNCHANGED <<disk, server, inbox, outbox, client, drops, crashes>>

(* FILE_UPLOAD_INIT, on a first try or after a failure. *)
StartUpload(c) ==
  /\ fd[c] # None /\ pc[c] \in {"idle", "failed"}
  /\ pc' = [pc EXCEPT ![c] = "init"]
  /\ Send(c, [cmd |-> "init"])
  /\ UNCHANGED <<disk, server, fd, outbox, offset, pos, drops, crashes>>

(* Where a chunk's bytes come from: the mapping at the offset, or the next *)
(* ones of a stream opened at the beginning of the file.                   *)
ChunkAt(off, streamed) == IF UseMmap THEN off + 1 ELSE streamed + 1

(* Send the chunk at off, or the commit once there is none left.           *)
SendNext(c, off, streamed) ==
  IF off < Blocks
  THEN /\ pc' = [pc EXCEPT ![c] = "chunk"]
       /\ Send(c, [cmd |-> "chunk", offset |-> off,
                   block |-> ChunkAt(off, streamed)])
  ELSE /\ pc' = [pc EXCEPT ![c] = "commit"]
       /\ Send(c, [cmd |-> "commit"])

(* The reply to FILE_UPLOAD_INIT says where to go on from. *)
GotReady(c) ==
  /\ pc[c] = "init" /\ outbox[c] # <<>> /\ Head(outbox[c]).status = "ready"
  /\ outbox' = [outbox EXCEPT ![c] = Tail(@)]
  /\ offset' = [offset EXCEPT ![c] = Head(outbox[c]).offset]
  /\ pos' = [pos EXCEPT ![c] = 0]
  /\ SendNext(c, Head(outbox[c]).offset, 0)
  /\ UNCHANGED <<disk, server, fd, drops, crashes>>

GotChunkOk(c) ==
  /\ pc[c] = "chunk" /\ outbox[c] # <<>> /\ Head(outbox[c]).status = "ok"
  /\ outbox' = [outbox EXCEPT ![c] = Tail(@)]
  /\ offset' = [offset EXCEPT ![c] = @ + 1]
  /\ pos' = [pos EXCEPT ![c] = @ + 1]
  /\ SendNext(c, offset[c] + 1, pos[c] + 1)
  /\ UNCHANGED <<disk, server, fd, drops, crashes>>

(* "Upload completed", or "instant transfer succeeded". *)
GotSuccess(c) ==
  /\ outbox[c] # <<>>
  /\ \/ pc[c] = "init" /\ Head(outbox[c]).status = "instant"
     \/ pc[c] = "commit" /\ Head(outbox[c]).status = "ok"
  /\ outbox' = [outbox EXCEPT ![c] = Tail(@)]
  /\ pc' = [pc EXCEPT ![c] = "done"]
  /\ UNCHANGED <<disk, server, fd, inbox, offset, pos, drops, crashes>>

Expected(c) == CASE pc[c] = "init" -> {"ready", "instant"}
                 [] OTHER -> {"ok"}

(* Any other status ends the attempt. *)
GotFailure(c) ==
  /\ pc[c] \in {"init", "chunk", "commit"} /\ outbox[c] # <<>>
  /\ Head(outbox[c]).status \notin Expected(c)
  /\ outbox' = [outbox EXCEPT ![c] = Tail(@)]
  /\ pc' = [pc EXCEPT ![c] = "failed"]
  /\ UNCHANGED <<disk, server, fd, inbox, offset, pos, drops, crashes>>

-----------------------------------------------------------------------------
(* The reactor: one request at a time, interrupted only by a crash *)

Request(c, cmd) == job = Idle /\ inbox[c] # <<>> /\ Head(inbox[c]).cmd = cmd
Take(c) == inbox' = [inbox EXCEPT ![c] = Tail(@)]

(* FILE_UPLOAD_INIT of content the index knows: copy it from a path that   *)
(* holds it.  copy_file refuses to copy a file onto itself.                *)
InstantInit(c) ==
  /\ Request(c, "init") /\ Take(c)
  /\ \E p \in index :
       /\ stored[p] # None
       /\ IF p = PathOf[c]
          THEN /\ SendTo(fd[c], Reply("error", 0))
               /\ UNCHANGED <<job, stored>>
          ELSE /\ stored' = [stored EXCEPT ![PathOf[c]] = <<>>]
               /\ job' = [phase |-> "copy", client |-> c, data |-> stored[p]]
               /\ UNCHANGED outbox
  /\ UNCHANGED <<part, meta, index, ctx, tasks, running, fd, client, drops,
                 crashes>>

(* The data reaches the path unless a commit was renamed over it since.    *)
CopyFile ==
  /\ job.phase = "copy"
  /\ stored' = [stored EXCEPT ![PathOf[job.client]] =
                  IF @ = <<>> THEN job.data ELSE @]
  /\ job' = [phase |-> "upsert", client |-> job.client]
  /\ UNCHANGED <<part, meta, index, ctx, tasks, running, fd, inbox, outbox,
                 client, drops, crashes>>

InstantUpsert ==
  /\ job.phase = "upsert"
  /\ index' = index \cup {PathOf[job.client]}
  /\ job' = Idle
  /\ SendTo(fd[job.client], Reply("instant", 0))
  /\ UNCHANGED <<part, meta, stored, ctx, tasks, running, fd, inbox, client,
                 drops, crashes>>

Smaller(a, b) == IF a < b THEN a ELSE b

(* prepare_upload: what the server believes it already has.               *)
Resumed ==
  IF meta # None THEN Smaller(meta, Blocks)
  ELSE IF part # None THEN Smaller(Len(part), Blocks)
  ELSE 0

(* Any other FILE_UPLOAD_INIT resumes the checkpoint or creates one.       *)
PrepareInit(c) ==
  /\ Request(c, "init") /\ Take(c)
  /\ index = {} \/ \E p \in index : stored[p] = None
  /\ ctx' = [ctx EXCEPT ![c] = Resumed]
  /\ IF meta # None
     THEN /\ SendTo(fd[c], Reply("ready", Resumed))
          /\ UNCHANGED job
     ELSE /\ job' = [phase |-> "truncate", client |-> c, received |-> Resumed,
                     reply |-> Reply("ready", Resumed)]
          /\ UNCHANGED outbox
  /\ UNCHANGED <<disk, tasks, running, fd, client, drops, crashes>>

(* Mutation: the part file is opened for appending. *)
PWrite_Append(content, off, block) ==
  Append(IF content = None THEN <<>> ELSE content, block)

(* pwrite: the file grows to the block, whatever lies before it.           *)
PWrite(content, off, block) ==
  LET old == IF content = None THEN <<>> ELSE content
      len == IF Len(old) > off THEN Len(old) ELSE off + 1
  IN  [i \in 1..len |-> IF i = off + 1 THEN block
                        ELSE IF i <= Len(old) THEN old[i] ELSE 0]

(* FILE_UPLOAD_CHUNK at the expected offset: write, then save progress.    *)
AcceptChunk(c) ==
  LET r == Head(inbox[c])
  IN /\ Request(c, "chunk") /\ Take(c)
     /\ ctx[c] # None /\ r.offset = ctx[c]
     /\ part' = PWrite(part, r.offset, r.block)
     /\ ctx' = [ctx EXCEPT ![c] = @ + 1]
     /\ job' = [phase |-> "truncate", client |-> c, received |-> ctx[c] + 1,
                reply |-> Reply("ok", 0)]
     /\ UNCHANGED <<meta, stored, index, tasks, running, fd, outbox, client,
                    drops, crashes>>

(* ... at another offset, or without FILE_UPLOAD_INIT: refuse.             *)
RefuseChunk(c) ==
  /\ Request(c, "chunk") /\ Take(c)
  /\ ctx[c] = None \/ Head(inbox[c]).offset # ctx[c]
  /\ SendTo(fd[c], Reply("error", 0))
  /\ UNCHANGED <<disk, server, fd, client, drops, crashes>>

(* write_meta truncates the checkpoint ...                                 *)
TruncateMeta ==
  /\ job.phase = "truncate"
  /\ meta' = 0
  /\ job' = [job EXCEPT !.phase = "flush"]
  /\ UNCHANGED <<part, stored, index, ctx, tasks, running, fd, inbox, outbox,
                 client, drops, crashes>>

(* Mutation: the reply is forgotten. *)
FlushMeta_Silent ==
  /\ job.phase = "flush"
  /\ meta' = job.received
  /\ job' = Idle
  /\ UNCHANGED <<part, stored, index, ctx, tasks, running, fd, inbox, outbox,
                 client, drops, crashes>>

(* ... and writes it; the reply follows.                                   *)
FlushMeta ==
  /\ job.phase = "flush"
  /\ meta' = job.received
  /\ job' = Idle
  /\ SendTo(fd[job.client], job.reply)
  /\ UNCHANGED <<part, stored, index, ctx, tasks, running, fd, inbox, client,
                 drops, crashes>>

(* FILE_UPLOAD_COMMIT of a complete upload goes to the executor.           *)
SubmitCommit(c) ==
  /\ Request(c, "commit") /\ Take(c)
  /\ ctx[c] = Blocks
  /\ ctx' = [ctx EXCEPT ![c] = None]
  /\ tasks' = Append(tasks, [path |-> PathOf[c], fd |-> fd[c], at |-> "rename"])
  /\ UNCHANGED <<disk, job, running, fd, outbox, client, drops, crashes>>

RefuseCommit(c) ==
  /\ Request(c, "commit") /\ Take(c)
  /\ ctx[c] # Blocks
  /\ SendTo(fd[c], Reply("error", 0))
  /\ UNCHANGED <<disk, server, fd, client, drops, crashes>>

-----------------------------------------------------------------------------
(* The commit task on a worker, one file-system or database call at a time *)

At(w, step) == running[w] # None /\ running[w].at = step
Goto(w, step) == running' = [running EXCEPT ![w].at = step]

TakeTask(w) ==
  /\ running[w] = None /\ tasks # <<>>
  /\ running' = [running EXCEPT ![w] = Head(tasks)]
  /\ tasks' = Tail(tasks)
  /\ UNCHANGED <<disk, ctx, job, fd, inbox, outbox, client, drops, crashes>>

(* finalize_upload: rename throws when the part file is gone.              *)
RenamePart(w) ==
  /\ At(w, "rename") /\ part # None
  /\ stored' = [stored EXCEPT ![running[w].path] = part]
  /\ part' = None
  /\ Goto(w, "removeMeta")
  /\ UNCHANGED <<meta, index, ctx, job, tasks, fd, inbox, outbox, client,
                 drops, crashes>>

(* The end of a task: schedule_response, and the worker is free.           *)
Finish(w, status) ==
  /\ running' = [running EXCEPT ![w] = None]
  /\ SendTo(running[w].fd, Reply(status, 0))

(* Mutation: the status of the reply does not depend on the outcome. *)
RenameFails_SaysOk(w) ==
  /\ At(w, "rename") /\ part = None
  /\ Finish(w, "ok")
  /\ UNCHANGED <<disk, ctx, job, tasks, fd, inbox, client, drops, crashes>>

RenameFails(w) ==
  /\ At(w, "rename") /\ part = None
  /\ Finish(w, "error")
  /\ UNCHANGED <<disk, ctx, job, tasks, fd, inbox, client, drops, crashes>>

RemoveMeta(w) ==
  /\ At(w, "removeMeta")
  /\ meta' = None
  /\ Goto(w, "hash")
  /\ UNCHANGED <<part, stored, index, ctx, job, tasks, fd, inbox, outbox,
                 client, drops, crashes>>

(* compute_md5 of what now lies at the path.                               *)
HashStored(w) ==
  /\ At(w, "hash")
  /\ Goto(w, IF stored[running[w].path] = File THEN "upsert" ELSE "dropPart")
  /\ UNCHANGED <<disk, ctx, job, tasks, fd, inbox, outbox, client, drops,
                 crashes>>

UpsertRow(w) ==
  /\ At(w, "upsert")
  /\ index' = index \cup {running[w].path}
  /\ Finish(w, "ok")
  /\ UNCHANGED <<part, meta, stored, ctx, job, tasks, fd, inbox, client, drops,
                 crashes>>

(* discard_checkpoint after a mismatch: the stored file is left there.     *)
DiscardPart(w) ==
  /\ At(w, "dropPart")
  /\ part' = None
  /\ Goto(w, "dropMeta")
  /\ UNCHANGED <<meta, stored, index, ctx, job, tasks, fd, inbox, outbox,
                 client, drops, crashes>>

DiscardMeta(w) ==
  /\ At(w, "dropMeta")
  /\ meta' = None
  /\ Finish(w, "error")
  /\ UNCHANGED <<part, stored, index, ctx, job, tasks, fd, inbox, client, drops,
                 crashes>>

-----------------------------------------------------------------------------
(* Failures *)

Interrupted(c) == IF pc[c] \in {"idle", "done"} THEN pc[c] ELSE "failed"

(* The connection breaks: the server forgets its context, but not a commit *)
(* that is already in the executor.                                        *)
Drop(c) ==
  /\ fd[c] # None /\ drops < MaxDrops
  /\ Len(tasks) + Cardinality({w \in Worker : running[w] # None}) <= MaxOverlap
  /\ drops' = drops + 1
  /\ fd' = [fd EXCEPT ![c] = None]
  /\ ctx' = [ctx EXCEPT ![c] = None]
  /\ inbox' = [inbox EXCEPT ![c] = <<>>]
  /\ outbox' = [outbox EXCEPT ![c] = <<>>]
  /\ pc' = [pc EXCEPT ![c] = Interrupted(c)]
  /\ UNCHANGED <<disk, job, tasks, running, offset, pos, crashes>>

(* The server dies and restarts: only the disk remains.                    *)
Crash ==
  /\ crashes < MaxCrashes
  /\ crashes' = crashes + 1
  /\ fd' = [c \in Client |-> None]
  /\ ctx' = [c \in Client |-> None]
  /\ job' = Idle /\ tasks' = <<>> /\ running' = [w \in Worker |-> None]
  /\ inbox' = [c \in Client |-> <<>>] /\ outbox' = [c \in Client |-> <<>>]
  /\ pc' = [c \in Client |-> Interrupted(c)]
  /\ UNCHANGED <<disk, offset, pos, drops>>

-----------------------------------------------------------------------------
ClientStep(c) ==
  Connect(c) \/ StartUpload(c) \/ GotReady(c) \/ GotChunkOk(c)
  \/ GotSuccess(c) \/ GotFailure(c)

ReactorStep ==
  \/ \E c \in Client :
       InstantInit(c) \/ PrepareInit(c) \/ AcceptChunk(c) \/ RefuseChunk(c)
       \/ SubmitCommit(c) \/ RefuseCommit(c)
  \/ CopyFile \/ InstantUpsert \/ TruncateMeta \/ FlushMeta

WorkerStep(w) ==
  TakeTask(w) \/ RenamePart(w) \/ RenameFails(w) \/ RemoveMeta(w)
  \/ HashStored(w) \/ UpsertRow(w) \/ DiscardPart(w) \/ DiscardMeta(w)

Failure == Crash \/ \E c \in Client : Drop(c)

Next ==
  \/ \E c \in Client : ClientStep(c)
  \/ ReactorStep
  \/ \E w \in Worker : WorkerStep(w)
  \/ Failure

Spec == Init /\ [][Next]_vars

-----------------------------------------------------------------------------
(* Properties *)

Content == Seq(0..Blocks)
Requests == [cmd : {"init", "commit"}]
            \cup [cmd : {"chunk"}, offset : 0..Blocks - 1, block : 1..Blocks]
Replies == [status : {"ready", "instant", "ok", "error"}, offset : 0..Blocks]
Saves == [phase : {"truncate", "flush"}, client : Client, received : 0..Blocks,
          reply : Replies]
Jobs == {Idle} \cup Saves
        \cup [phase : {"copy"}, client : Client, data : Content]
        \cup [phase : {"upsert"}, client : Client]

(* Every variable has its type. *)
TypeOK ==
  /\ part \in Content \cup {None} /\ meta \in 0..Blocks \cup {None}
  /\ stored \in [Path -> Content \cup {None}] /\ index \subseteq Path
  /\ ctx \in [Client -> 0..Blocks \cup {None}] /\ job \in Jobs
  /\ tasks \in Seq(CommitTask) /\ running \in [Worker -> CommitTask \cup {None}]
  /\ fd \in [Client -> Fd \cup {None}]
  /\ inbox \in [Client -> Seq(Requests)] /\ outbox \in [Client -> Seq(Replies)]
  /\ pc \in [Client -> {"idle", "init", "chunk", "commit", "failed", "done"}]
  /\ offset \in [Client -> 0..Blocks] /\ pos \in [Client -> 0..Blocks]
  /\ drops \in 0..MaxDrops /\ crashes \in 0..MaxCrashes

HasPrefix(content, n) ==
  n = 0 \/ (content # None /\ n <= Len(content)
            /\ \A i \in 1..n : content[i] = i)

(* "Upload progress is on disk, reconnect and go on": as long as the part  *)
(* file exists, neither the checkpoint nor a session claims a byte that is *)
(* missing from it or is not the file's.                                   *)
CheckpointHonest ==
  part # None =>
    /\ meta # None => HasPrefix(part, meta)
    /\ \A c \in Client : ctx[c] # None => HasPrefix(part, ctx[c])

(* The MD5 in the index, on which an instant upload relies, is the MD5 of  *)
(* what the path holds.                                                    *)
IndexMatchesContent == \A p \in index : stored[p] = File

(* A client that is told of success has its row in the index, even when    *)
(* replies to an earlier connection reach a later one that was given the   *)
(* same descriptor.                                                        *)
ToldOnlyIndexed == \A c \in Client : pc[c] = "done" => PathOf[c] \in index

(* The upload implements the atomic put: no partial file at a path, no row *)
(* before the file, no success before the row.                             *)
Put == INSTANCE UploadPut
         WITH whole <- {p \in Path : stored[p] = File}, row <- index,
              told <- {c \in Client : pc[c] = "done"}
PutSpec == Put!Spec

(* A client that is alive keeps trying, the reactor and the workers run.   *)
FairSpec ==
  /\ Spec
  /\ \A c \in Client : WF_vars(ClientStep(c))
  /\ WF_vars(ReactorStep)
  /\ \A w \in Worker : WF_vars(WorkerStep(w))

(* A checkpoint has outlived the part file it describes.                   *)
Orphaned == part = None /\ meta # None /\ meta > 0

(* "Reconnect and go on": however often the connection breaks and the      *)
(* server restarts, the file ends up stored and indexed, unless a crash    *)
(* has separated the rename of the part file from the removal of its       *)
(* checkpoint.                                                             *)
EventuallyIndexed ==
  \A c \in Client : <>[](PathOf[c] \in index) \/ <>[]Orphaned

(* The same without the exception.                                         *)
AlwaysIndexed == \A c \in Client : <>[](PathOf[c] \in index)

(* The client that keeps retrying is told of success at last.              *)
EventuallyTold == \A c \in Client : <>(pc[c] = "done")

=============================================================================
