--------------------------------- MODULE Fetch ---------------------------------
(***************************************************************************)
(* Download in the C++ drive: the client's handle_download, the commands   *)
(* FILE_DOWNLOAD_INIT and FILE_DOWNLOAD_FETCH of the reactor, and a path   *)
(* of the server whose file other sessions delete (on the reactor, between *)
(* two commands) or replace (a rename by a worker, at any moment).         *)
(*                                                                         *)
(* A file is a sequence of blocks <<v, i>>, block i of version v; Hole is  *)
(* a block of zeros nobody wrote.  The client waits for each answer, so a  *)
(* request and the start of its handling are one step.                     *)
(* Names such as FetchInit are its own, so that proofs about it can stand  *)
(* beside those about the reactor that serves it.                          *)
(***************************************************************************)
EXTENDS Integers, Sequences, FiniteSets

CONSTANTS
  Version,      \* contents the remote path may hold
  SizeOf,       \* blocks in each of them
  ClientChunk,  \* kChunkBytes of the client, in blocks
  ServerChunk,  \* max_chunk_bytes of the server
  Threshold,    \* kMmapThreshold: files read through a mapping
  MaxTries,     \* bound on downloads started
  MaxChanges,   \* bound on changes of the remote path
  Hole, None

ASSUME FetchAssumption ==
  /\ SizeOf \in [Version -> Nat] /\ Threshold \in Nat
  /\ ClientChunk \in Nat \ {0} /\ ServerChunk \in Nat \ {0}
  /\ MaxTries \in Nat /\ MaxChanges \in Nat
  /\ None \notin Version /\ Hole \notin Version \X Nat

VARIABLES
  remote,   \* the version at the path, or None
  local,    \* the local file, or None
  valid,    \* the token of the client has not expired
  up,       \* the server runs
  pc,       \* where handle_download is
  total,    \* size the server announced
  off,      \* local_offset
  job,      \* the command between file_size and the reading: [len], or None
  reply,    \* the answer to FILE_DOWNLOAD_FETCH, or None
  seen,     \* history: versions at the path since FILE_DOWNLOAD_INIT
  from,     \* history: the offset this download started at
  tries, changes

server == <<job, reply>>
client == <<pc, total, off>>
fetchVars == <<remote, local, valid, up, client, server, seen, from, tries, changes>>

Busy == {"open", "truncate", "loop"}
Smaller(a, b) == IF a < b THEN a ELSE b

FetchInit ==
  /\ remote \in Version /\ local = None /\ valid = TRUE /\ up = TRUE
  /\ pc = "idle" /\ total = 0 /\ off = 0
  /\ job = None /\ reply = None
  /\ seen = {} /\ from = 0 /\ tries = 0 /\ changes = 0

-----------------------------------------------------------------------------
(* The client *)

(* FILE_DOWNLOAD_INIT: the size of what the path holds, or a refusal.      *)
Download ==
  /\ pc \notin Busy /\ up /\ tries < MaxTries
  /\ tries' = tries + 1
  /\ IF valid /\ remote # None
     THEN /\ pc' = "open" /\ total' = SizeOf[remote] /\ seen' = {remote}
     ELSE /\ pc' = "failed" /\ UNCHANGED <<total, seen>>
  /\ UNCHANGED <<remote, local, valid, up, off, server, from, changes>>

LocalSize == IF local = None THEN 0 ELSE Len(local)

(* Mutation: a longer file of before is taken as it is. *)
ResumeAt_Longer == LocalSize

(* The bytes the client believes it has.                                   *)
ResumeAt == IF LocalSize > total THEN 0 ELSE LocalSize

OpenLocal ==
  /\ pc = "open"
  /\ off' = ResumeAt /\ from' = ResumeAt
  /\ local' = IF local = None THEN <<>> ELSE local
  /\ pc' = "truncate"
  /\ UNCHANGED <<remote, valid, up, total, server, seen, tries, changes>>

(* ftruncate: the file gets its full size before a byte has been fetched.  *)
Truncate ==
  /\ pc = "truncate"
  /\ local' = [i \in 1..total |-> IF i <= Len(local) THEN local[i] ELSE Hole]
  /\ pc' = "loop"
  /\ UNCHANGED <<remote, valid, up, total, off, server, seen, from, tries,
                 changes>>

Wanted == Smaller(Smaller(ClientChunk, total - off), ServerChunk)

(* How much read_chunk reads of a file of this size.                       *)
ChunkLen(size) == IF off >= size THEN 0 ELSE Smaller(Wanted, size - off)

(* FILE_DOWNLOAD_FETCH.  A refusal ("notfound", "token_invalid") has no    *)
(* body; otherwise file_size says how much the chunk will hold.            *)
AskChunk ==
  /\ pc = "loop" /\ off < total /\ job = None /\ reply = None /\ up
  /\ IF valid /\ remote # None
     THEN /\ job' = [len |-> ChunkLen(SizeOf[remote]),
                     mapped |-> SizeOf[remote] >= Threshold]
          /\ UNCHANGED reply
     ELSE /\ reply' = [status |-> "refused", body |-> <<>>]
          /\ UNCHANGED job
  /\ UNCHANGED <<remote, local, valid, up, client, seen, from, tries, changes>>

(* local_offset after a chunk.                                             *)
Advance(body) == off + Len(body)

(* Mutation: the end of the remote file is taken for one more answer. *)
Over_AtTotal(r) == FALSE

(* An answer that ends the loop.                                           *)
Over(r) == r.status = "done"

(* The local file with a chunk written at the offset.                      *)
Written(body) ==
  [i \in 1..Len(local) |->
     IF i \in off + 1..off + Len(body) THEN body[i - off] ELSE local[i]]

(* Any answer but "done" is written at the offset, an empty one too.       *)
GotChunk ==
  /\ pc = "loop" /\ reply # None
  /\ reply' = None
  /\ IF Over(reply)
     THEN /\ pc' = "done" /\ UNCHANGED <<local, off>>
     ELSE /\ local' = Written(reply.body)
          /\ off' = Advance(reply.body)
          /\ UNCHANGED pc
  /\ UNCHANGED <<remote, valid, up, total, job, seen, from, tries, changes>>

EndLoop ==
  /\ pc = "loop" /\ off >= total
  /\ pc' = "done"
  /\ UNCHANGED <<remote, local, valid, up, total, off, server, seen, from,
                 tries, changes>>

(* A call without an answer: the connection is gone.                       *)
CallFails ==
  /\ pc = "loop" /\ off < total /\ job = None /\ reply = None /\ ~up
  /\ pc' = "failed"
  /\ UNCHANGED <<remote, local, valid, up, total, off, server, seen, from,
                 tries, changes>>

(* The client is interrupted; the user may start it again.                 *)
Interrupt ==
  /\ pc \in Busy
  /\ pc' = "idle" /\ job' = None /\ reply' = None
  /\ UNCHANGED <<remote, local, valid, up, total, off, seen, from, tries,
                 changes>>

(* The token's lifetime ends, whatever the client is doing.                *)
Expire ==
  /\ valid /\ valid' = FALSE
  /\ UNCHANGED <<remote, local, up, client, server, seen, from, tries, changes>>

Login ==
  /\ ~valid /\ pc \notin Busy /\ up /\ valid' = TRUE
  /\ UNCHANGED <<remote, local, up, client, server, seen, from, tries, changes>>

-----------------------------------------------------------------------------
(* The server *)

(* What reading len blocks gives now: a stream leaves zeros past the end.  *)
BlocksNow(len) ==
  [k \in 1..len |-> IF off + k <= SizeOf[remote] THEN <<remote, off + k>>
                    ELSE Hole]

(* read_chunk opens the path again.                                        *)
ReadChunk ==
  /\ job # None
  /\ ~job.mapped \/ off + job.len <= SizeOf[remote]
  /\ reply' = [status |-> IF job.len = 0 THEN "done" ELSE "ok",
               body |-> BlocksNow(job.len)]
  /\ job' = None
  /\ UNCHANGED <<remote, local, valid, up, client, seen, from, tries, changes>>

(* ... and maps a file that has become shorter: SIGBUS ends the server.    *)
ReadPastEnd ==
  /\ job # None /\ job.mapped /\ off + job.len > SizeOf[remote]
  /\ up' = FALSE /\ job' = None
  /\ UNCHANGED <<remote, local, valid, client, reply, seen, from, tries,
                 changes>>

(* A commit or an instant copy of another session.                         *)
Replace(v) ==
  /\ v # remote /\ up /\ changes < MaxChanges
  /\ remote' = v /\ changes' = changes + 1
  /\ seen' = IF pc \in Busy THEN seen \cup {v} ELSE seen
  /\ UNCHANGED <<local, valid, up, client, server, from, tries>>

(* FILE_DELETE of another session.                                         *)
Delete ==
  /\ remote # None /\ up /\ job = None /\ changes < MaxChanges
  /\ remote' = None /\ changes' = changes + 1
  /\ UNCHANGED <<local, valid, up, client, server, seen, from, tries>>

-----------------------------------------------------------------------------
FetchStep ==
  OpenLocal \/ Truncate \/ AskChunk \/ GotChunk \/ EndLoop \/ CallFails
ServerStep == ReadChunk \/ ReadPastEnd

FetchNext ==
  \/ Download \/ FetchStep \/ ServerStep \/ Interrupt \/ Expire \/ Login
  \/ \E v \in Version : Replace(v)
  \/ Delete

FetchSpec == FetchInit /\ [][FetchNext]_fetchVars

(* The client and the reactor run; nothing is assumed of the others.       *)
FairFetch == FetchSpec /\ WF_fetchVars(FetchStep) /\ WF_fetchVars(ServerStep)

-----------------------------------------------------------------------------
(* Properties *)

Block == Version \X Nat \cup {Hole}

(* Every variable has its type.                                            *)
FetchTypeOK ==
  /\ remote \in Version \cup {None} /\ local \in Seq(Block) \cup {None}
  /\ valid \in BOOLEAN /\ up \in BOOLEAN
  /\ pc \in Busy \cup {"idle", "done", "failed"}
  /\ total \in Nat /\ off \in Nat /\ from \in Nat
  /\ job \in [len : Nat, mapped : BOOLEAN] \cup {None}
  /\ reply \in [status : {"ok", "done", "refused"}, body : Seq(Block)]
               \cup {None}
  /\ seen \subseteq Version /\ tries \in 0..MaxTries /\ changes \in 0..MaxChanges

(* What is fetched is what was there: when a download says it is over, the *)
(* local file has the size that was announced; each block from where it    *)
(* started to where it stopped is that block of a version the path held    *)
(* meanwhile; and only a version too short for it explains a block of      *)
(* zeros, or that the download stopped before the end.                     *)
FetchedIsRemote ==
  pc = "done" =>
    /\ Len(local) = total /\ off <= total
    /\ off < total => \E v \in seen : SizeOf[v] <= off
    /\ \A i \in from + 1..off :
         \/ \E v \in seen : local[i] = <<v, i>>
         \/ local[i] = Hole /\ \E v \in seen : SizeOf[v] < i

(* A download ends, unless the file is gone or the token expires: those    *)
(* refusals are taken for empty chunks, and the client asks for ever.      *)
FetchEnds == []<>(pc \notin Busy) \/ <>[](remote = None \/ ~valid)

(* "FETCH supports resuming": a download that is over has the whole of a   *)
(* file that never changed.                                                *)
ResumedWhole ==
  pc = "done" /\ changes = 0 =>
    \A i \in 1..total : local[i] = <<remote, i>>

(* A download always ends.                                                 *)
FetchAlwaysEnds == []<>(pc \notin Busy)

(* The server survives a file that is replaced while it is sent.           *)
ServerSurvives == up

=============================================================================
