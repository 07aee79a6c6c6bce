-------------------------------- MODULE Catalog --------------------------------
(***************************************************************************)
(* The user's tree in the C drive and the uploads that fill it: the table  *)
(* Directory (src/src/sql.c), an upload thread with its ring of slots      *)
(* (upload_func in src/src/factory.c), the files of Sdisk, named after     *)
(* their MD5 and shared by all uploads, and the terminals of one user      *)
(* (src/client/client.c, child.c).                                         *)
(*                                                                         *)
(* A content is known by its MD5 and cut in Blocks messages.  A terminal's *)
(* directory commands are answered at once; they are tried only where they *)
(* succeed, as a failed one changes nothing.  The dispatcher hands an      *)
(* upload over at once while the thread has room.                          *)
(***************************************************************************)
EXTENDS Integers, Sequences, FiniteSets, SequencesExt

CONSTANTS
  Terminal,     \* terminals of the user
  Name,         \* names of files and directories
  MD5,          \* contents
  Blocks,       \* messages with data in an upload
  UP_TASK_NUM,  \* slots of the ring
  Upload,       \* 1..n: bound on uploads, in the order of their use
  MaxCommands,  \* bound on directory commands
  MaxDrops,     \* bound on lost connections
  Ahead,        \* bound on UPLOAD_PREs a terminal sends before the answers
  Apart         \* TRUE: a content is not asked for while it is uploaded

ASSUME CatalogAssumption ==
  /\ Blocks \in Nat \ {0} /\ UP_TASK_NUM \in Nat \ {0, 1}
  /\ Upload \subseteq Nat \ {0} /\ IsFiniteSet(Upload)
  /\ MaxCommands \in Nat /\ MaxDrops \in Nat /\ Ahead \in Nat \ {0}
  /\ Apart \in BOOLEAN

VARIABLES
  rows,       \* the table Directory
  next_code,  \* its AUTO_INCREMENT
  cwd,        \* per terminal, client[fd].code
  uppath,     \* per terminal, the content of the file named last
  asked,      \* per terminal, UPLOAD_PREs on their way to the server
  agreed,     \* per terminal, UPLOAD_POKs on their way back
  job,        \* per upload, its DQ_buf and the content the client sends
  got,        \* per upload, messages the thread has read
  limit,      \* per upload, messages that reach the thread before its end;
              \* -1 for an upload not begun
  pipe,       \* uploads on their way to the thread
  task,       \* task[]: the ring
  front, rear,
  busy_num,   \* uploads the dispatcher counts
  disk,       \* per MD5, the file of Sdisk, or 0; files are numbered by the
              \* upload that created them
  content,    \* per file, its blocks
  over,       \* uploads reported to the dispatcher
  commands, drops

clientVars == <<cwd, uppath, asked, agreed>>
netVars    == <<job, got, limit>>
threadVars == <<pipe, task, front, rear, busy_num, over>>
diskVars   == <<disk, content>>
vars == <<rows, next_code, clientVars, netVars, threadVars, diskVars,
          commands, drops>>

Whole(m) == [i \in 1..Blocks |-> <<m, i>>]
NoJob == [code |-> 0]
FreeTask == [soketfd |-> 0, file |-> 0, pos |-> 0, job |-> NoJob]
Ring == 0..(UP_TASK_NUM - 1)
MOVE(i) == (i + 1) % UP_TASK_NUM

Init ==
  /\ rows = {} /\ next_code = 1
  /\ cwd = [t \in Terminal |-> 0] /\ uppath = [t \in Terminal |-> {}]
  /\ asked = [t \in Terminal |-> <<>>] /\ agreed = [t \in Terminal |-> <<>>]
  /\ job = [u \in Upload |-> NoJob]
  /\ got = [u \in Upload |-> 0] /\ limit = [u \in Upload |-> -1]
  /\ pipe = <<>> /\ task = [s \in Ring |-> FreeTask]
  /\ front = 0 /\ rear = 0 /\ busy_num = 0 /\ over = {}
  /\ disk = [m \in MD5 |-> 0] /\ content = [u \in Upload |-> <<>>]
  /\ commands = 0 /\ drops = 0

-----------------------------------------------------------------------------
(* Directory commands: operate_func, cd_func, delete_file *)

In(code, name) == {r \in rows : r.procode = code /\ r.filename = name}
Directories == {r \in rows : r.filetype = "d"}

(* The server has answered what the terminal sent before. *)
Command(t) ==
  /\ asked[t] = <<>>
  /\ commands < MaxCommands /\ commands' = commands + 1
  /\ UNCHANGED <<uppath, asked, agreed, netVars, threadVars, diskVars, drops>>

Insert(procode, name, type, m) ==
  /\ rows' = rows \cup {[code |-> next_code, procode |-> procode,
                         filename |-> name, filetype |-> type, md5sum |-> m]}
  /\ next_code' = next_code + 1

Mkdir(t, name) ==
  /\ Command(t)
  /\ In(cwd[t], name) = {}
  /\ Insert(cwd[t], name, "d", {})
  /\ UNCHANGED cwd

(* cd name, cd .. and cd /name/...: the codes it may lead to from code.    *)
Below(code, name) == {r.code : r \in In(code, name) \cap Directories}
Above(code) == {r.procode : r \in {q \in rows : q.code = code}}
Descend(codes, name) == UNION {Below(code, name) : code \in codes}
Path == {<<>>} \cup {<<name>> : name \in Name}

Cd(t) ==
  /\ Command(t)
  /\ \E code \in UNION {Below(cwd[t], name) : name \in Name}
                 \cup (IF cwd[t] = 0 THEN {} ELSE Above(cwd[t]))
                 \cup UNION {FoldLeft(Descend, {0}, path) : path \in Path} :
       cwd' = [cwd EXCEPT ![t] = code]
  /\ UNCHANGED <<rows, next_code>>

(* Mutation: whether the directory is empty is not looked up. *)
Removable_Always(r) == TRUE

Removable(r) == \A q \in rows : q.procode # r.code

(* rm: a file, or a directory that has nothing in it.                      *)
Rm(t, name) ==
  /\ Command(t)
  /\ \E r \in In(cwd[t], name) : Removable(r) /\ rows' = rows \ {r}
  /\ UNCHANGED <<cwd, next_code>>

-----------------------------------------------------------------------------
(* puts, up to the hand-over of its connection *)

Live(u) == limit[u] >= 0 /\ u \notin over
InFlight(m) ==
  \/ \E t \in Terminal : \E p \in Range(asked[t] \o agreed[t]) : p.md5sum = m
  \/ \E u \in Upload : Live(u) /\ job[u].md5sum = m

(* puts: the MD5 is computed, UPLOAD_PRE is sent, and the path is kept in  *)
(* a buffer of which there is one.                                         *)
Puts(t, name, m) ==
  /\ Len(asked[t]) + Len(agreed[t]) < Ahead
  /\ Apart => ~InFlight(m)
  /\ uppath' = [uppath EXCEPT ![t] = m]
  /\ asked' = [asked EXCEPT ![t] = Append(@, [filename |-> name, md5sum |-> m])]
  /\ UNCHANGED <<rows, next_code, cwd, agreed, netVars, threadVars, diskVars,
                 commands, drops>>

Known(m) == {r \in rows : r.filetype = "f" /\ r.md5sum = m}

(* math_uoload: a file of that name is refused, known content is listed at *)
(* once, other content is to be uploaded.                                  *)
MathUpload(t) ==
  /\ asked[t] # <<>>
  /\ asked' = [asked EXCEPT ![t] = Tail(@)]
  /\ LET p == Head(asked[t])
     IN IF \E r \in In(cwd[t], p.filename) : r.filetype = "f"
        THEN UNCHANGED <<rows, next_code, agreed>>
        ELSE IF Known(p.md5sum) # {}
        THEN Insert(cwd[t], p.filename, "f", p.md5sum) /\ UNCHANGED agreed
        ELSE /\ agreed' = [agreed EXCEPT ![t] =
                             Append(@, [code |-> cwd[t], name |-> p.filename,
                                        md5sum |-> p.md5sum])]
             /\ UNCHANGED <<rows, next_code>>
  /\ UNCHANGED <<cwd, uppath, netVars, threadVars, diskVars, commands, drops>>

(* UPLOAD_POK: the transfer thread connects, with a token and UPLOAD_Q,    *)
(* and the dispatcher hands the connection to the upload thread.  What it  *)
(* sends is the file in uppath, as what the answer names; the directory is *)
(* the one the terminal was in when the answer was sent.                   *)
Fresh == {u \in Upload : limit[u] = -1}
StartUpload(t) ==
  /\ agreed[t] # <<>> /\ Fresh # {} /\ busy_num < UP_TASK_NUM - 1
  /\ agreed' = [agreed EXCEPT ![t] = Tail(@)]
  /\ LET u == CHOOSE v \in Fresh : \A w \in Fresh : v <= w
         p == Head(agreed[t])
     IN /\ job' = [job EXCEPT ![u] =
                     [code |-> p.code, name |-> p.name, md5sum |-> p.md5sum,
                      data |-> uppath[t]]]
        /\ limit' = [limit EXCEPT ![u] = Blocks + 2]
        /\ pipe' = Append(pipe, u)
  /\ busy_num' = busy_num + 1
  /\ UNCHANGED <<rows, next_code, cwd, uppath, asked, got, task, front, rear,
                 over, diskVars, commands, drops>>

(* The connection is lost after any of the messages to come.               *)
Drop(u) ==
  /\ Live(u) /\ limit[u] = Blocks + 2 /\ drops < MaxDrops
  /\ \E n \in got[u]..(Blocks + 1) : limit' = [limit EXCEPT ![u] = n]
  /\ drops' = drops + 1
  /\ UNCHANGED <<rows, next_code, clientVars, job, got, threadVars, diskVars,
                 commands>>

-----------------------------------------------------------------------------
(* The upload thread: upload_func *)

(* A connection takes the slot at rear, whatever is in it.                 *)
TakeUpload ==
  /\ pipe # <<>> /\ pipe' = Tail(pipe)
  /\ task' = [task EXCEPT ![rear].soketfd = Head(pipe)]
  /\ rear' = MOVE(rear)
  /\ UNCHANGED <<rows, next_code, clientVars, netVars, front, busy_num, over,
                 diskVars, commands, drops>>

(* An event of upload u, which is in slot s.                               *)
Serves(s, u) == u # 0 /\ task[s].soketfd = u
Arrived(s, u) ==
  Serves(s, u) /\ got[u] < limit[u] /\ got' = [got EXCEPT ![u] = @ + 1]

(* UPLOAD_Q with its DQ_buf, add_uptask: the file of that MD5 is opened,   *)
(* and created if there is none.                                           *)
AddUptask(s, u) ==
  LET m == job[u].md5sum
  IN  /\ Arrived(s, u) /\ got[u] = 0
      /\ disk' = [disk EXCEPT ![m] = IF @ = 0 THEN u ELSE @]
      /\ task' = [task EXCEPT ![s] = [soketfd |-> u, file |-> disk'[m],
                                      pos |-> 0, job |-> job[u]]]
      /\ UNCHANGED <<rows, next_code, clientVars, job, limit, pipe, front, rear,
                     busy_num, over, content, commands, drops>>

(* UPLOAD_OK with data: it is written at the task's position.              *)
Written(blocks, pos, block) ==
  IF pos < Len(blocks) THEN [blocks EXCEPT ![pos + 1] = block]
                       ELSE Append(blocks, block)

ReadData(s, u) ==
  /\ Arrived(s, u) /\ got[u] \in 1..Blocks
  /\ content' = [content EXCEPT ![task[s].file] =
                   Written(@, task[s].pos, <<job[u].data, got[u]>>)]
  /\ task' = [task EXCEPT ![s].pos = @ + 1]
  /\ UNCHANGED <<rows, next_code, clientVars, job, limit, pipe, front, rear,
                 busy_num, over, disk, commands, drops>>

(* Mutation: uploads are taken to end in the order they came. *)
Disconnect_Front(s, u) ==
  /\ task' = [task EXCEPT ![front] = FreeTask]
  /\ front' = MOVE(front)
  /\ busy_num' = busy_num - 1
  /\ over' = over \cup {u}
  /\ job' = [job EXCEPT ![u] = NoJob]
  /\ UNCHANGED <<clientVars, limit, pipe, rear, content, commands, drops>>

(* updisconect: the slot is cleared and the dispatcher told.               *)
Disconnect(s, u) ==
  /\ task' = [task EXCEPT ![s] = FreeTask]
  /\ front' = MOVE(front)
  /\ busy_num' = busy_num - 1
  /\ over' = over \cup {u}
  /\ job' = [job EXCEPT ![u] = NoJob]
  /\ UNCHANGED <<clientVars, limit, pipe, rear, content, commands, drops>>

(* UPLOAD_OK with Len = 0: add_file.                                       *)
ReadEnd(s, u) ==
  /\ Arrived(s, u) /\ got[u] = Blocks + 1
  /\ Insert(task[s].job.code, task[s].job.name, "f", task[s].job.md5sum)
  /\ Disconnect(s, u)
  /\ UNCHANGED disk

(* Mutation: what has arrived of the file is kept, and listed. *)
PeerLost_Listed(s, u) ==
  /\ Serves(s, u) /\ got[u] = limit[u]
  /\ IF task[s].file # 0
     THEN Insert(task[s].job.code, task[s].job.name, "f", task[s].job.md5sum)
     ELSE UNCHANGED <<rows, next_code>>
  /\ Disconnect(s, u)
  /\ UNCHANGED <<got, disk>>

(* The peer is gone: the file that has the upload's MD5 is removed.        *)
PeerLost(s, u) ==
  /\ Serves(s, u) /\ got[u] = limit[u]
  /\ disk' = IF task[s].file # 0
             THEN [disk EXCEPT ![task[s].job.md5sum] = 0] ELSE disk
  /\ Disconnect(s, u)
  /\ UNCHANGED <<rows, next_code, got>>

-----------------------------------------------------------------------------
TerminalStep(t) ==
  \/ \E name \in Name : Mkdir(t, name) \/ Rm(t, name)
                        \/ \E m \in MD5 : Puts(t, name, m)
  \/ Cd(t)

Answer == \E t \in Terminal : MathUpload(t) \/ StartUpload(t)

ThreadStep ==
  \/ TakeUpload
  \/ \E s \in Ring, u \in Upload :
       AddUptask(s, u) \/ ReadData(s, u) \/ ReadEnd(s, u) \/ PeerLost(s, u)

Next == \/ \E t \in Terminal : TerminalStep(t)
        \/ Answer \/ ThreadStep \/ \E u \in Upload : Drop(u)

Spec == Init /\ [][Next]_vars

-----------------------------------------------------------------------------
(* Properties *)

(* Every variable has its type.                                            *)
TypeOK ==
  /\ next_code \in Nat /\ \A r \in rows : r.code \in 1..(next_code - 1)
  /\ \A r \in rows : r.filetype = "f" => r.md5sum \in MD5
  /\ \A t \in Terminal : cwd[t] \in 0..(next_code - 1)
  /\ \A u \in Upload : got[u] \in 0..(Blocks + 2)
                       /\ limit[u] \in -1..(Blocks + 2)
  /\ \A s \in Ring : /\ task[s].soketfd \in Upload \cup {0}
                     /\ task[s].file \in Upload \cup {0}
                     /\ task[s].pos \in 0..Blocks
  /\ front \in Ring /\ rear \in Ring /\ busy_num \in 0..(UP_TASK_NUM - 1)
  /\ disk \in [MD5 -> Upload \cup {0}] /\ over \subseteq Upload

(* A file that is listed can be downloaded: the file of its MD5 is there,  *)
(* and is that content.  add_task ends the server when it cannot open it.  *)
RowHasContent ==
  \A r \in rows : r.filetype = "f" =>
    disk[r.md5sum] # 0 /\ content[disk[r.md5sum]] = Whole(r.md5sum)

(* An upload that was handed over and is not reported has a slot of its    *)
(* own or is on its way, and the dispatcher counts just these.  It holds   *)
(* until rear has come round: then a live upload may lose its slot.        *)
RingExact ==
  LET queued == Range(pipe)
      held   == {task[s].soketfd : s \in Ring} \ {0}
  IN  /\ {u \in Upload : Live(u)} = queued \cup held
      /\ busy_num = Cardinality(queued) + Cardinality(held)

Attached == {r \in rows : r.procode = 0
                          \/ \E d \in Directories : d.code = r.procode}

(* rm takes at most one row, and no other leaves the tree with it: nothing  *)
(* that was listed in a directory loses that directory.                    *)
RmKeepsTree == [][Attached \ Attached' \subseteq rows \ rows'
                  /\ Cardinality(rows \ rows') <= 1]_vars

(* The server goes on.                                                     *)
FairSpec == Spec /\ WF_vars(Answer) /\ WF_vars(ThreadStep)

(* The upload thread comes to the end of every upload, in whatever order   *)
(* they end (within the first turn of the ring).                          *)
UploadEnds == \A u \in Upload : Live(u) ~> u \in over

(* Every row is in the tree.                                               *)
NoOrphans == rows = Attached

(* A directory has no two entries of one name.                             *)
NamesDiffer == \A r, q \in rows : r.procode = q.procode
                                  /\ r.filename = q.filename => r = q

=============================================================================
