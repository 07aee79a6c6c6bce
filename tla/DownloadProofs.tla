---------------------------- MODULE DownloadProofs ----------------------------
(***************************************************************************)
(* Proofs about Download, for any files, slots, tasks, connections and     *)
(* bounds: every train finds the task it was sent for, and what is         *)
(* reported as complete is the file.                                       *)
(***************************************************************************)
EXTENDS Download, TLAPS, FiniteSetTheorems, WellFoundedInduction

(* A file that is mapped is not asked for when it is already there.        *)
Once == Again = FALSE \/ Mapped = {}

Index == 1..TaskMax
TaskRecord == [fd : 0..TaskMax, file : File \cup {None}, pos : Nat]
Question == [fd : Index, file : File, pos : Nat]
TrainRecord == [ctl_code : Index, block : (File \X Nat) \cup {None}]
SlotRecord == [download_fd : Conn \cup {None}, task_num : Nat,
               cdinfo : [Index -> TaskRecord]]
Blocks == (File \X Nat) \cup {Hole}
States == {"new", "open", "fin", "stale", "epipe", "reset", "closed"}

Types ==
  /\ task \in [Index -> TaskRecord] /\ task_num \in Nat
  /\ cfd \in Conn \cup {None} /\ local \in [File -> Seq(Blocks)]
  /\ csock \in [Conn -> States] /\ ssock \in [Conn -> States]
  /\ requests \in [Conn -> Seq(Question)]
  /\ trains \in [Conn -> Seq(TrainRecord)]
  /\ pipe \in Seq(Conn) /\ client \in [Slot -> SlotRecord]
  /\ busy_num \in Nat /\ evs \subseteq Conn \cup {Pipe, Cin} /\ up \in BOOLEAN

(* A task is within its file; a mapped one has a slice left.               *)
Within(t) == t.fd # 0 => t.file \in File /\ t.pos <= Size[t.file]
Startable(t) == t.file \in Mapped => t.pos < Size[t.file]

(* The client's tasks have descriptors of their own and are counted.       *)
Active == {j \in Index : task[j].fd # 0}
Tasks ==
  /\ \A j \in Index : Within(task[j]) /\ (task[j].fd = 0 => task[j] = NoTask)
  /\ \A i, j \in Active : task[i].fd = task[j].fd => i = j
  /\ task_num = Cardinality(Active)
  /\ cfd = None <=> Active = {}

(* A local file has holes only if it is mapped, and none before the        *)
(* position of a task.                                                     *)
FileOk(f) ==
  IF f \in Mapped
  THEN /\ Len(local[f]) \in {0, Size[f]}
       /\ \A i \in 1..Len(local[f]) : local[f][i] \in {Hole, Block(f, i)}
  ELSE /\ Len(local[f]) <= Size[f]
       /\ \A i \in 1..Len(local[f]) : local[f][i] = Block(f, i)
WrittenTo(f, p) ==
  /\ p <= Len(local[f])
  /\ f \in Mapped => Len(local[f]) = Size[f]
  /\ \A i \in 1..p : local[f][i] = Block(f, i)
Files ==
  /\ \A f \in File : FileOk(f)
  /\ \A j \in Active : WrittenTo(task[j].file, task[j].pos)

Up(c) == ssock[c] \notin {"new", "closed"}
Sockets ==
  /\ \A c \in Conn : csock[c] = "new" <=> ssock[c] = "new"
  /\ \A c \in Conn : csock[c] = "new" => trains[c] = <<>> /\ requests[c] = <<>>
  /\ cfd # None => /\ csock[cfd] \notin {"new", "closed"}
                   /\ ssock[cfd] \in {"open", "closed"}

(* The tasks of a slot have descriptors of their own and are counted.      *)
TasksOf(slot) == {k \in Index : slot.cdinfo[k].fd # 0}
SlotFits(slot) ==
  /\ slot.task_num = Cardinality(TasksOf(slot))
  /\ \A k \in TasksOf(slot) : Within(slot.cdinfo[k]) /\ Startable(slot.cdinfo[k])
  /\ \A k, l \in TasksOf(slot) : slot.cdinfo[k].fd = slot.cdinfo[l].fd => k = l
Slots ==
  /\ \A s \in Slot : IF client[s].download_fd = None THEN client[s] = FreeSlot
                     ELSE Up(client[s].download_fd) /\ SlotFits(client[s])
  /\ \A s, t \in Live : client[s].download_fd = client[t].download_fd => s = t

(* A connection in the pipe is in no slot, and there is a slot for it.     *)
Pipes ==
  /\ \A i \in 1..Len(pipe) : Up(pipe[i]) /\ Held(pipe[i]) = {}
  /\ \A i, k \in 1..Len(pipe) : pipe[i] = pipe[k] => i = k
  /\ busy_num = Len(pipe) + Cardinality(Live) /\ busy_num <= AVG_CLIENT_NUM
  /\ Pipe \in evs => pipe # <<>>

(* No two requests and tasks of a connection have one descriptor.          *)
AskedOn(c) ==
  /\ \A i \in 1..Len(requests[c]) : Within(requests[c][i]) /\ Startable(requests[c][i])
  /\ \A i, k \in 1..Len(requests[c]) : requests[c][i].fd = requests[c][k].fd => i = k
  /\ \A s \in Held(c), i \in 1..Len(requests[c]), k \in Index :
       client[s].cdinfo[k].fd # requests[c][i].fd
Asked == \A c \in Conn : Up(c) => AskedOn(c)

(* Of the trains q, those of task t go on from where it is: the i-th is    *)
(* one of its own, and every slice before it is among the earlier ones.    *)
Goes(q, i, t) ==
  /\ q[i].ctl_code = t.fd
  /\ q[i].block # None => \E n \in t.pos + 1..Size[t.file] : q[i].block = Block(t.file, n)
  /\ \A n \in t.pos + 1..Size[t.file] :
       q[i].block = None \/ n < q[i].block[2] =>
         \E k \in 1..i - 1 : q[k] = Train(t, Block(t.file, n))
(* No slice comes twice and none after the end.                            *)
Ordered(q) ==
  \A i, k \in 1..Len(q) :
    i < k /\ q[i].ctl_code = q[k].ctl_code => q[i].block # None /\ q[i].block # q[k].block
(* The slices of t up to position p, and no others of its descriptor.      *)
Upto(q, t, p) ==
  /\ \A i \in 1..Len(q) :
       q[i].ctl_code = t.fd => q[i].block # None /\ q[i].block[2] <= p
  /\ \A n \in t.pos + 1..p : \E i \in 1..Len(q) : q[i] = Train(t, Block(t.file, n))
(* A task at the server is at a place that t, the client's, will reach.    *)
Ahead(q, t, u) ==
  /\ t.fd = u.fd /\ t.file = u.file /\ t.pos <= u.pos /\ Upto(q, t, u.pos)

Arriving ==
  cfd # None => /\ \A i \in 1..Len(trains[cfd]) : \E j \in Active : Goes(trains[cfd], i, task[j])
                /\ Ordered(trains[cfd])
Serving ==
  cfd # None =>
    \A s \in Held(cfd) : \A k \in TasksOf(client[s]) :
      \E j \in Active : Ahead(trains[cfd], task[j], client[s].cdinfo[k])
Awaited ==
  cfd # None /\ Up(cfd) =>
    \A i \in 1..Len(requests[cfd]) :
      \E j \in Active : task[j] = requests[cfd][i] /\ Upto(trains[cfd], task[j], task[j].pos)

DownloadInv ==
  /\ Types /\ Tasks /\ Files /\ Sockets /\ Slots /\ Pipes /\ Asked
  /\ Arriving /\ Serving /\ Awaited

-----------------------------------------------------------------------------
(* Numbers, sequences and records *)

LEMMA Smallest ==
  ASSUME NEW S \in SUBSET Nat, S # {}
  PROVE  \E x \in S : \A y \in S : x <= y
<1>1. PICK x \in S : \A y \in S : <<y, x>> \notin OpToRel(<, Nat)
  BY WFMin, NatLessThanWellFounded, Zenon
<1>2. \A y \in S : ~(y < x)
  BY <1>1 DEF OpToRel
<1> QED BY <1>2

LEMMA MinIn ==
  ASSUME NEW S \in SUBSET Nat, S # {}
  PROVE  Min(S) \in S
BY Smallest, Zenon DEF Min

LEMMA Constants ==
  /\ TaskMax \in Nat /\ TaskMax > 0 /\ AVG_CLIENT_NUM \in Nat /\ AVG_CLIENT_NUM > 0
  /\ Size \in [File -> Nat] /\ Mapped \subseteq File
  /\ None \notin Conn /\ None \notin File /\ None \notin File \X Nat
  /\ Conn \subseteq Nat \ {0} /\ 0 \notin Conn /\ -1 \notin Conn
  /\ Index \subseteq Nat /\ Slot \subseteq Nat /\ 0 \notin Index
BY DownloadAssumption DEF Index, Slot

LEMMA Records ==
  /\ NoTask \in TaskRecord /\ FreeSlot \in SlotRecord /\ Question \subseteq TaskRecord
  /\ NoTask.fd = 0 /\ NoTask.file = None /\ NoTask.pos = 0
  /\ FreeSlot.download_fd = None /\ FreeSlot.task_num = 0
  /\ \A k \in Index : FreeSlot.cdinfo[k] = NoTask
<1>1. NoTask \in TaskRecord /\ NoTask.fd = 0 /\ NoTask.file = None /\ NoTask.pos = 0
  BY Constants DEF NoTask, TaskRecord
<1>2. Question \subseteq TaskRecord
  BY DEF Question, TaskRecord, Index
<1>3. [k \in 1..TaskMax |-> NoTask] \in [Index -> TaskRecord]
  BY <1>1 DEF Index
<1> QED BY <1>1, <1>2, <1>3 DEF FreeSlot, SlotRecord, Index

LEMMA Blocks_ ==
  ASSUME NEW f \in File, NEW i \in Nat
  PROVE  /\ Block(f, i) \in File \X Nat /\ Block(f, i) # None
         /\ Block(f, i)[1] = f /\ Block(f, i)[2] = i /\ Block(f, i) \in Blocks
BY Constants DEF Block, Blocks

LEMMA Listing ==
  ASSUME NEW S, NEW n \in Nat, NEW s \in [1..n -> S]
  PROVE  s \in Seq(S) /\ Len(s) = n
  OBVIOUS

LEMMA Concat ==
  ASSUME NEW S, NEW s \in Seq(S), NEW t \in Seq(S)
  PROVE  /\ s \o t \in Seq(S) /\ Len(s \o t) = Len(s) + Len(t)
         /\ \A i \in 1..Len(s) : (s \o t)[i] = s[i]
         /\ \A i \in 1..Len(t) : (s \o t)[Len(s) + i] = t[i]
         /\ Len(s) \in Nat /\ Len(t) \in Nat
  OBVIOUS

LEMMA Appending ==
  ASSUME NEW S, NEW s \in Seq(S), NEW e \in S
  PROVE  /\ Append(s, e) \in Seq(S) /\ Len(Append(s, e)) = Len(s) + 1
         /\ \A i \in 1..Len(s) : Append(s, e)[i] = s[i]
         /\ Append(s, e)[Len(s) + 1] = e /\ Len(s) \in Nat
  OBVIOUS

LEMMA Popping ==
  ASSUME NEW S, NEW s \in Seq(S), s # <<>>
  PROVE  /\ Tail(s) \in Seq(S) /\ Len(Tail(s)) = Len(s) - 1 /\ Len(s) \in Nat /\ Len(s) > 0
         /\ \A i \in 1..Len(s) - 1 : Tail(s)[i] = s[i + 1]
         /\ Head(s) = s[1] /\ s[1] \in S
  OBVIOUS

-----------------------------------------------------------------------------
(* The trains of one event of a connection *)

(* What the first n of the tasks send.                                     *)
SentUpto(tasks, n, h) ==
  h = [k \in 0..n |-> IF k = 0 THEN <<>> ELSE h[k - 1] \o Sends(tasks[k])]

LEMMA SentExists ==
  ASSUME NEW tasks, NEW N \in Nat
  PROVE  \E h : SentUpto(tasks, N, h)
<1> DEFINE S == {n \in Nat : ~ \E h : SentUpto(tasks, n, h)}
<1> SUFFICES ASSUME S # {}  PROVE FALSE
  OBVIOUS
<1>1. S \in SUBSET Nat
  OBVIOUS
<1>2. PICK n \in S : \A m \in S : n <= m
  BY <1>1, Smallest, Zenon
<1>3. n \in Nat /\ ~ \E h : SentUpto(tasks, n, h)
  OBVIOUS
<1>4. CASE n = 0
  <2>1. SentUpto(tasks, 0, [k \in 0..0 |-> <<>>])
    BY DEF SentUpto
  <2> QED BY <1>3, <1>4, <2>1
<1>5. CASE n # 0
  <2>1. n - 1 \in Nat /\ n - 1 \notin S
    <3>1. n - 1 \in Nat /\ ~(n <= n - 1)
      BY <1>3, <1>5
    <3> QED BY <1>2, <3>1, Zenon
  <2>2. PICK h : SentUpto(tasks, n - 1, h)
    BY <2>1
  <2> DEFINE g == [k \in 0..n |-> IF k = n THEN h[n - 1] \o Sends(tasks[n]) ELSE h[k]]
  <2>3. \A k \in 0..n : k # 0 => g[k - 1] = h[k - 1]
    BY <1>3
  <2>4. \A k \in 0..n - 1 : h[k] = IF k = 0 THEN <<>> ELSE h[k - 1] \o Sends(tasks[k])
    BY <2>2 DEF SentUpto
  <2>5. \A k \in 0..n : g[k] = IF k = 0 THEN <<>> ELSE g[k - 1] \o Sends(tasks[k])
    <3> SUFFICES ASSUME NEW k \in 0..n
                 PROVE  g[k] = IF k = 0 THEN <<>> ELSE g[k - 1] \o Sends(tasks[k])
      OBVIOUS
    <3>1. CASE k = n
      BY <1>3, <1>5, <2>3, <3>1
    <3>2. CASE k # n
      <4>1. k \in 0..n - 1 /\ g[k] = h[k]
        BY <1>3, <3>2
      <4> QED BY <2>3, <2>4, <4>1
    <3> QED BY <3>1, <3>2
  <2>6. SentUpto(tasks, n, g)
    BY <2>5 DEF SentUpto
  <2> QED BY <1>3, <2>6
<1> QED BY <1>4, <1>5

LEMMA OutgoingIs ==
  ASSUME NEW tasks
  PROVE  \E h : SentUpto(tasks, TaskMax, h) /\ Outgoing(tasks) = h[TaskMax]
<1> DEFINE h == CHOOSE g : g = [k \in 0..TaskMax |->
                                  IF k = 0 THEN <<>> ELSE g[k - 1] \o Sends(tasks[k])]
<1>1. SentUpto(tasks, TaskMax, h)
  <2>1. \E g : SentUpto(tasks, TaskMax, g)
    BY Constants, SentExists
  <2> QED BY <2>1 DEF SentUpto
<1>2. Outgoing(tasks) = h[TaskMax]
  BY DEF Outgoing
<1> QED BY <1>1, <1>2

(* The tasks of a slot, each with a descriptor of its own.                 *)
Runs(tasks) ==
  /\ tasks \in [Index -> TaskRecord]
  /\ \A k \in Index : tasks[k].fd # 0 => Within(tasks[k]) /\ Startable(tasks[k])
  /\ \A k, l \in Index : tasks[k].fd # 0 /\ tasks[k].fd = tasks[l].fd => k = l

(* out has, of the tasks up to n, the next slice of each that has one left, *)
(* then the end of each that ends, and nothing else.                       *)
Carries(out, tasks, n) ==
  /\ out \in Seq(TrainRecord)
  /\ \A i \in 1..Len(out) : \E k \in 1..n :
       /\ tasks[k].fd # 0
       /\ \/ out[i] = Slice(tasks[k]) /\ tasks[k].pos < Size[tasks[k].file]
          \/ out[i] = End(tasks[k]) /\ Ends(tasks[k])
  /\ \A k \in 1..n : tasks[k].fd # 0 /\ tasks[k].pos < Size[tasks[k].file] =>
       \E i \in 1..Len(out) : out[i] = Slice(tasks[k])
  /\ \A i \in 1..Len(out), k \in 1..n :
       tasks[k].fd # 0 /\ tasks[k].pos < Size[tasks[k].file] /\ out[i] = End(tasks[k]) =>
         \E l \in 1..i - 1 : out[l] = Slice(tasks[k])
  /\ \A i, l \in 1..Len(out) :
       i < l /\ out[i].ctl_code = out[l].ctl_code =>
         out[i].block # None /\ out[l].block = None

LEMMA SendsIs ==
  ASSUME NEW t \in TaskRecord, Within(t), Startable(t)
  PROVE  /\ t.fd = 0 => Sends(t) = <<>>
         /\ t.fd # 0 =>
              /\ t.pos < Size[t.file] => Slice(t) \in TrainRecord /\ Slice(t).ctl_code = t.fd
                                         /\ Slice(t).block # None
              /\ End(t) \in TrainRecord /\ End(t).ctl_code = t.fd /\ End(t).block = None
              /\ \/ Sends(t) = <<Slice(t)>> /\ t.pos < Size[t.file] /\ ~Ends(t)
                 \/ Sends(t) = <<End(t)>> /\ t.pos = Size[t.file] /\ Ends(t)
                 \/ Sends(t) = <<Slice(t), End(t)>> /\ t.pos < Size[t.file] /\ Ends(t)
<1>1. CASE t.fd = 0
  BY <1>1 DEF Sends
<1>2. CASE t.fd # 0
  <2>1. t.file \in File /\ t.pos \in Nat /\ Size[t.file] \in Nat /\ t.fd \in Index /\ t.pos <= Size[t.file]
    BY <1>2, Constants DEF TaskRecord, Within, Index
  <2>2. t.pos + 1 \in Nat /\ Block(t.file, t.pos + 1) \in File \X Nat /\ Block(t.file, t.pos + 1) # None
    BY <2>1, Blocks_
  <2>3. /\ Slice(t) \in TrainRecord /\ Slice(t).ctl_code = t.fd /\ Slice(t).block # None
        /\ End(t) \in TrainRecord /\ End(t).ctl_code = t.fd /\ End(t).block = None
    BY <2>1, <2>2 DEF Slice, End, Train, TrainRecord
  <2>4. CASE t.file \notin Mapped
    BY <1>2, <2>1, <2>3, <2>4 DEF Sends, Ends
  <2>5. CASE t.file \in Mapped
    <3>1. t.pos < Size[t.file]
      BY <2>5 DEF Startable
    <3> QED BY <1>2, <2>1, <2>3, <2>5, <3>1 DEF Sends, Ends
  <2> QED BY <2>4, <2>5
<1> QED BY <1>1, <1>2

(* A train the n-th task has not sent is of another descriptor.            *)
LEMMA NoneYet ==
  ASSUME NEW tasks, Runs(tasks), NEW n \in Nat, n + 1 \in Index, NEW out,
         Carries(out, tasks, n), tasks[n + 1].fd # 0, NEW i \in 1..Len(out)
  PROVE  out[i].ctl_code # tasks[n + 1].fd
<1>1. PICK k \in 1..n : /\ tasks[k].fd # 0
                        /\ out[i] = Slice(tasks[k]) \/ out[i] = End(tasks[k])
  BY DEF Carries
<1>2. out[i].ctl_code = tasks[k].fd
  BY <1>1 DEF Slice, End, Train
<1>3. k \in Index /\ k # n + 1
  BY Constants DEF Index
<1>4. tasks[k].fd # tasks[n + 1].fd
  BY <1>1, <1>3 DEF Runs
<1> QED BY <1>2, <1>4

LEMMA CarriesNothing ==
  ASSUME NEW tasks, Runs(tasks), NEW n \in Nat, n + 1 \in Index, NEW out,
         Carries(out, tasks, n), ~(tasks[n + 1].fd # 0 /\ tasks[n + 1].pos < Size[tasks[n + 1].file])
  PROVE  Carries(out, tasks, n + 1)
<1>1. \A k \in 1..n + 1 : k \in 1..n \/ k = n + 1
  OBVIOUS
<1>2. \A k \in 1..n : k \in 1..n + 1
  OBVIOUS
<1> QED BY <1>1, <1>2 DEF Carries

LEMMA CarriesSlice ==
  ASSUME NEW tasks, Runs(tasks), NEW n \in Nat, n + 1 \in Index, NEW out,
         Carries(out, tasks, n), NEW t, t = tasks[n + 1], t.fd # 0, t.pos < Size[t.file]
  PROVE  /\ Carries(Append(out, Slice(t)), tasks, n + 1)
         /\ \A i \in 1..Len(out) + 1 :
              Append(out, Slice(t))[i].ctl_code = t.fd => Append(out, Slice(t))[i].block # None
<1> DEFINE m == Len(out)
           q == Append(out, Slice(t))
<1>1. t \in TaskRecord /\ Within(t) /\ Startable(t)
  BY DEF Runs
<1>2. Slice(t) \in TrainRecord /\ Slice(t).ctl_code = t.fd /\ Slice(t).block # None
  BY <1>1, SendsIs
<1>3. out \in Seq(TrainRecord)
  BY DEF Carries
<1>4. /\ q \in Seq(TrainRecord) /\ Len(q) = m + 1 /\ m \in Nat
      /\ \A i \in 1..m : q[i] = out[i]
      /\ q[m + 1] = Slice(t)
  BY <1>2, <1>3, Appending
<1>5. \A i \in 1..m : out[i].ctl_code # t.fd
  BY NoneYet
<1>6. \A k \in 1..n : k \in 1..n + 1
  OBVIOUS
<1>7. \A i \in 1..m + 1 : i \in 1..m \/ i = m + 1
  BY <1>4
<1>8. n + 1 \in 1..n + 1 /\ m + 1 \in 1..m + 1 /\ \A i \in 1..m : i \in 1..m + 1
  BY <1>4
<1> HIDE DEF q, m
<1>9. \A i \in 1..Len(q) : \E k \in 1..n + 1 :
        /\ tasks[k].fd # 0
        /\ \/ q[i] = Slice(tasks[k]) /\ tasks[k].pos < Size[tasks[k].file]
           \/ q[i] = End(tasks[k]) /\ Ends(tasks[k])
  <2> SUFFICES ASSUME NEW i \in 1..m + 1
               PROVE  \E k \in 1..n + 1 :
                        /\ tasks[k].fd # 0
                        /\ \/ q[i] = Slice(tasks[k]) /\ tasks[k].pos < Size[tasks[k].file]
                           \/ q[i] = End(tasks[k]) /\ Ends(tasks[k])
    BY <1>4
  <2>1. CASE i \in 1..m
    <3>1. PICK k \in 1..n :
            /\ tasks[k].fd # 0
            /\ \/ out[i] = Slice(tasks[k]) /\ tasks[k].pos < Size[tasks[k].file]
               \/ out[i] = End(tasks[k]) /\ Ends(tasks[k])
      BY <2>1 DEF Carries, m
    <3>2. k \in 1..n + 1 /\ q[i] = out[i]
      BY <1>4, <1>6, <2>1
    <3> QED BY <3>1, <3>2
  <2>2. CASE i = m + 1
    BY <1>4, <1>8, <2>2
  <2> QED BY <1>7, <2>1, <2>2
<1>10. \A k \in 1..n + 1 : tasks[k].fd # 0 /\ tasks[k].pos < Size[tasks[k].file] =>
         \E i \in 1..Len(q) : q[i] = Slice(tasks[k])
  <2> SUFFICES ASSUME NEW k \in 1..n + 1, tasks[k].fd # 0, tasks[k].pos < Size[tasks[k].file]
               PROVE  \E i \in 1..m + 1 : q[i] = Slice(tasks[k])
    BY <1>4
  <2>1. CASE k = n + 1
    BY <1>4, <1>8, <2>1
  <2>2. CASE k # n + 1
    <3>1. k \in 1..n
      BY <2>2
    <3>2. PICK i \in 1..m : out[i] = Slice(tasks[k])
      BY <3>1 DEF Carries, m
    <3> QED BY <1>4, <1>8, <3>2
  <2> QED BY <2>1, <2>2
<1>11. \A i \in 1..Len(q), k \in 1..n + 1 :
         tasks[k].fd # 0 /\ tasks[k].pos < Size[tasks[k].file] /\ q[i] = End(tasks[k]) =>
           \E l \in 1..i - 1 : q[l] = Slice(tasks[k])
  <2> SUFFICES ASSUME NEW i \in 1..m + 1, NEW k \in 1..n + 1, tasks[k].fd # 0,
                      tasks[k].pos < Size[tasks[k].file], q[i] = End(tasks[k])
               PROVE  \E l \in 1..i - 1 : q[l] = Slice(tasks[k])
    BY <1>4
  <2>1. q[i].block = None /\ q[i].ctl_code = tasks[k].fd
    BY DEF End, Train
  <2>2. i \in 1..m
    BY <1>2, <1>4, <1>7, <2>1
  <2>3. k \in 1..n
    BY <1>4, <1>5, <2>1, <2>2
  <2>4. PICK l \in 1..i - 1 : out[l] = Slice(tasks[k])
    BY <1>4, <2>2, <2>3 DEF Carries, m
  <2>5. l \in 1..m
    BY <2>2, <1>4
  <2> QED BY <1>4, <2>4, <2>5
<1>12. \A i, l \in 1..Len(q) :
         i < l /\ q[i].ctl_code = q[l].ctl_code => q[i].block # None /\ q[l].block = None
  <2> SUFFICES ASSUME NEW i \in 1..m + 1, NEW l \in 1..m + 1, i < l, q[i].ctl_code = q[l].ctl_code
               PROVE  q[i].block # None /\ q[l].block = None
    BY <1>4
  <2>1. i \in 1..m
    BY <1>4
  <2>2. CASE l \in 1..m
    BY <1>4, <2>1, <2>2 DEF Carries, m
  <2>3. CASE l = m + 1
    BY <1>2, <1>4, <1>5, <2>1, <2>3
  <2> QED BY <1>7, <2>2, <2>3
<1>13. \A i \in 1..m + 1 : q[i].ctl_code = t.fd => q[i].block # None
  BY <1>2, <1>4, <1>5, <1>7
<1>14. Carries(q, tasks, n + 1)
  BY <1>4, <1>9, <1>10, <1>11, <1>12 DEF Carries
<1> QED BY <1>13, <1>14 DEF q, m

LEMMA CarriesEnd ==
  ASSUME NEW tasks, Runs(tasks), NEW n \in Index, NEW out, Carries(out, tasks, n),
         NEW t, t = tasks[n], t.fd # 0, Ends(t),
         \A i \in 1..Len(out) : out[i].ctl_code = t.fd => out[i].block # None
  PROVE  Carries(Append(out, End(t)), tasks, n)
<1> DEFINE m == Len(out)
           q == Append(out, End(t))
<1>1. t \in TaskRecord /\ Within(t) /\ Startable(t)
  BY DEF Runs
<1>2. End(t) \in TrainRecord /\ End(t).ctl_code = t.fd /\ End(t).block = None
  BY <1>1, SendsIs
<1>3. out \in Seq(TrainRecord)
  BY DEF Carries
<1>4. /\ q \in Seq(TrainRecord) /\ Len(q) = m + 1 /\ m \in Nat
      /\ \A i \in 1..m : q[i] = out[i]
      /\ q[m + 1] = End(t)
  BY <1>2, <1>3, Appending
<1>5. n \in 1..n /\ m + 1 \in 1..m + 1 /\ \A i \in 1..m : i \in 1..m + 1
  BY <1>4 DEF Index
<1>7. \A i \in 1..m + 1 : i \in 1..m \/ i = m + 1
  BY <1>4
<1> HIDE DEF q, m
<1>9. \A i \in 1..Len(q) : \E k \in 1..n :
        /\ tasks[k].fd # 0
        /\ \/ q[i] = Slice(tasks[k]) /\ tasks[k].pos < Size[tasks[k].file]
           \/ q[i] = End(tasks[k]) /\ Ends(tasks[k])
  <2> SUFFICES ASSUME NEW i \in 1..m + 1
               PROVE  \E k \in 1..n :
                        /\ tasks[k].fd # 0
                        /\ \/ q[i] = Slice(tasks[k]) /\ tasks[k].pos < Size[tasks[k].file]
                           \/ q[i] = End(tasks[k]) /\ Ends(tasks[k])
    BY <1>4
  <2>1. CASE i \in 1..m
    <3>1. q[i] = out[i]
      BY <1>4, <2>1
    <3> QED BY <2>1, <3>1 DEF Carries, m
  <2>2. CASE i = m + 1
    BY <1>4, <1>5, <2>2
  <2> QED BY <1>7, <2>1, <2>2
<1>10. \A k \in 1..n : tasks[k].fd # 0 /\ tasks[k].pos < Size[tasks[k].file] =>
         \E i \in 1..Len(q) : q[i] = Slice(tasks[k])
  <2> SUFFICES ASSUME NEW k \in 1..n, tasks[k].fd # 0, tasks[k].pos < Size[tasks[k].file]
               PROVE  \E i \in 1..m + 1 : q[i] = Slice(tasks[k])
    BY <1>4
  <2>2. PICK i \in 1..m : out[i] = Slice(tasks[k])
    BY DEF Carries, m
  <2> QED BY <1>4, <1>5, <2>2
<1>11. \A i \in 1..Len(q), k \in 1..n :
         tasks[k].fd # 0 /\ tasks[k].pos < Size[tasks[k].file] /\ q[i] = End(tasks[k]) =>
           \E l \in 1..i - 1 : q[l] = Slice(tasks[k])
  <2> SUFFICES ASSUME NEW i \in 1..m + 1, NEW k \in 1..n, tasks[k].fd # 0,
                      tasks[k].pos < Size[tasks[k].file], q[i] = End(tasks[k])
               PROVE  \E l \in 1..i - 1 : q[l] = Slice(tasks[k])
    BY <1>4
  <2>1. CASE i \in 1..m
    <3>1. out[i] = End(tasks[k])
      BY <1>4, <2>1
    <3>4. PICK l \in 1..i - 1 : out[l] = Slice(tasks[k])
      BY <2>1, <3>1 DEF Carries, m
    <3>5. l \in 1..m
      BY <2>1, <1>4
    <3> QED BY <1>4, <3>4, <3>5
  <2>2. CASE i = m + 1
    <3>1. PICK l \in 1..m : out[l] = Slice(tasks[k])
      BY DEF Carries, m
    <3> QED BY <1>4, <2>2, <3>1
  <2> QED BY <1>7, <2>1, <2>2
<1>12. \A i, l \in 1..Len(q) :
         i < l /\ q[i].ctl_code = q[l].ctl_code => q[i].block # None /\ q[l].block = None
  <2> SUFFICES ASSUME NEW i \in 1..m + 1, NEW l \in 1..m + 1, i < l, q[i].ctl_code = q[l].ctl_code
               PROVE  q[i].block # None /\ q[l].block = None
    BY <1>4
  <2>1. i \in 1..m
    BY <1>4
  <2>2. CASE l \in 1..m
    BY <1>4, <2>1, <2>2 DEF Carries, m
  <2>3. CASE l = m + 1
    BY <1>2, <1>4, <2>1, <2>3 DEF m
  <2> QED BY <1>7, <2>2, <2>3
<1>14. Carries(q, tasks, n)
  BY <1>4, <1>9, <1>10, <1>11, <1>12 DEF Carries
<1> QED BY <1>14 DEF q

LEMMA CarriesMore ==
  ASSUME NEW tasks, Runs(tasks), NEW n \in Nat, n + 1 \in Index, NEW out,
         Carries(out, tasks, n)
  PROVE  Carries(out \o Sends(tasks[n + 1]), tasks, n + 1)
<1> DEFINE t == tasks[n + 1]
<1>1. t \in TaskRecord /\ out \in Seq(TrainRecord)
  BY DEF Runs, Carries
<1>2. CASE t.fd = 0
  <2>1. Sends(t) = <<>>
    BY <1>2 DEF Sends
  <2>2. out \o <<>> = out
    BY <1>1
  <2> QED BY <1>2, <2>1, <2>2, CarriesNothing
<1>3. CASE t.fd # 0
  <2>0. Within(t) /\ Startable(t)
    BY <1>3 DEF Runs
  <2>1. /\ t.pos < Size[t.file] => Slice(t) \in TrainRecord
        /\ End(t) \in TrainRecord
        /\ \/ Sends(t) = <<Slice(t)>> /\ t.pos < Size[t.file] /\ ~Ends(t)
           \/ Sends(t) = <<End(t)>> /\ t.pos = Size[t.file] /\ Ends(t)
           \/ Sends(t) = <<Slice(t), End(t)>> /\ t.pos < Size[t.file] /\ Ends(t)
    BY <1>1, <1>3, <2>0, SendsIs
  <2>2. \A e \in TrainRecord : out \o <<e>> = Append(out, e)
    BY <1>1
  <2>3. \A d, e \in TrainRecord : out \o <<d, e>> = Append(Append(out, d), e)
    BY <1>1
  <2> HIDE DEF t
  <2>4. CASE Sends(t) = <<Slice(t)>> /\ t.pos < Size[t.file]
    <3>1. Carries(Append(out, Slice(t)), tasks, n + 1)
      BY <1>3, <2>4, CarriesSlice DEF t
    <3> QED BY <2>1, <2>2, <2>4, <3>1 DEF t
  <2>5. CASE Sends(t) = <<End(t)>> /\ t.pos = Size[t.file] /\ Ends(t)
    <3>1. ~(t.pos < Size[t.file])
      <4>1. t.file \in File
        BY <1>3, <2>0 DEF Within
      <4> QED BY <2>5, <4>1, Constants
    <3>2. Carries(out, tasks, n + 1)
      BY <3>1, CarriesNothing DEF t
    <3>3. \A i \in 1..Len(out) : out[i].ctl_code # t.fd
      BY <1>3, NoneYet DEF t
    <3>4. Carries(Append(out, End(t)), tasks, n + 1)
      BY <1>3, <2>5, <3>2, <3>3, CarriesEnd DEF t
    <3> QED BY <2>1, <2>2, <2>5, <3>4 DEF t
  <2>6. CASE Sends(t) = <<Slice(t), End(t)>> /\ t.pos < Size[t.file] /\ Ends(t)
    <3> DEFINE q == Append(out, Slice(t))
    <3>1. /\ Carries(q, tasks, n + 1)
          /\ \A i \in 1..Len(out) + 1 : q[i].ctl_code = t.fd => q[i].block # None
      BY <1>3, <2>6, CarriesSlice DEF t
    <3>2. Len(q) = Len(out) + 1
      BY <1>1, <2>1, <2>6, Appending
    <3> HIDE DEF q
    <3>3. Carries(Append(q, End(t)), tasks, n + 1)
      BY <1>3, <2>6, <3>1, <3>2, CarriesEnd DEF t
    <3> QED BY <2>1, <2>3, <2>6, <3>3 DEF t, q
  <2> QED BY <2>1, <2>4, <2>5, <2>6
<1> QED BY <1>2, <1>3

LEMMA OutgoingCarries ==
  ASSUME NEW tasks, Runs(tasks)
  PROVE  Carries(Outgoing(tasks), tasks, TaskMax)
<1>1. PICK h : SentUpto(tasks, TaskMax, h) /\ Outgoing(tasks) = h[TaskMax]
  BY OutgoingIs
<1> DEFINE S == {n \in 0..TaskMax : ~Carries(h[n], tasks, n)}
<1>2. SUFFICES ASSUME S # {}  PROVE FALSE
  <2>1. TaskMax \in 0..TaskMax
    BY Constants
  <2> QED BY <1>1, <1>2, <2>1
<1>3. S \in SUBSET Nat
  OBVIOUS
<1>4. PICK n \in S : \A m \in S : n <= m
  BY <1>2, <1>3, Smallest, Zenon
<1>5. n \in 0..TaskMax /\ ~Carries(h[n], tasks, n)
  OBVIOUS
<1>6. \A k \in 0..TaskMax : h[k] = IF k = 0 THEN <<>> ELSE h[k - 1] \o Sends(tasks[k])
  BY <1>1 DEF SentUpto
<1>7. CASE n = 0
  <2>1. h[0] = <<>>
    BY <1>5, <1>6, <1>7
  <2>2. Carries(<<>>, tasks, 0)
    <3>1. <<>> \in Seq(TrainRecord) /\ Len(<<>>) = 0
      OBVIOUS
    <3> QED BY <3>1 DEF Carries
  <2> QED BY <1>5, <1>7, <2>1, <2>2
<1>8. CASE n # 0
  <2>1. n - 1 \in Nat /\ (n - 1) + 1 = n /\ n \in Index /\ n - 1 \in 0..TaskMax /\ ~(n <= n - 1)
    BY <1>5, <1>8, Constants DEF Index
  <2>2. Carries(h[n - 1], tasks, n - 1)
    BY <1>4, <2>1
  <2>3. h[n] = h[n - 1] \o Sends(tasks[n])
    BY <1>5, <1>6, <1>8, Zenon
  <2>4. Carries(h[n - 1] \o Sends(tasks[n]), tasks, n)
    BY <2>1, <2>2, CarriesMore
  <2> QED BY <1>5, <2>3, <2>4
<1> QED BY <1>7, <1>8

-----------------------------------------------------------------------------
(* What a step of the client is *)

LEMMA TaskFacts ==
  ASSUME Types
  PROVE  \A j \in Index : /\ task[j] \in TaskRecord /\ task[j].fd \in 0..TaskMax
                          /\ task[j].pos \in Nat /\ task[j].file \in File \cup {None}
                          /\ task[j].fd # 0 => task[j].fd \in Index
BY Constants DEF Types, TaskRecord, Index

LEMMA ActiveFinite ==
  /\ IsFiniteSet(Active) /\ Cardinality(Active) \in Nat /\ Active \subseteq Index
  /\ Cardinality(Active) <= TaskMax
  /\ Cardinality(Active) < TaskMax => \E j \in Index : task[j].fd = 0
<1>1. IsFiniteSet(Index) /\ Cardinality(Index) = TaskMax /\ 1 \in Int /\ TaskMax \in Int
  <2>1. 1 \in Int /\ TaskMax \in Int /\ ~(1 > TaskMax) /\ TaskMax - 1 + 1 = TaskMax
    BY Constants
  <2> QED BY <2>1, FS_Interval DEF Index
<1>2. Active \in SUBSET Index
  BY DEF Active
<1>3. IsFiniteSet(Active) /\ Cardinality(Active) <= TaskMax
  BY <1>1, <1>2, FS_Subset
<1>4. Cardinality(Active) < TaskMax => Active # Index
  BY <1>1, Constants
<1>5. Cardinality(Active) \in Nat
  BY <1>3, FS_CardinalityType
<1> QED BY <1>2, <1>3, <1>4, <1>5 DEF Active

(* The descriptor of a train is one task's.                                *)
LEMMA OwnerIs ==
  ASSUME Types, Tasks, NEW j \in Active
  PROVE  Owner(task[j].fd) = {j}
<1>1. Owner(task[j].fd) = {i \in Index : task[i].fd = task[j].fd}
  BY DEF Owner, Index
<1>2. task[j].fd # 0 /\ j \in Index
  BY DEF Active
<1>3. \A i \in Index : task[i].fd = task[j].fd => i \in Active
  BY <1>2 DEF Active
<1> QED BY <1>1, <1>2, <1>3 DEF Tasks

(* Where a download starts, and the file open() leaves.                    *)
LEMMA Opening ==
  ASSUME Once, Types, NEW f \in File, FileOk(f), Wanted(f)
  PROVE  /\ StartAt(f) \in 0..Size[f]
         /\ f \in Mapped => StartAt(f) < Size[f]
         /\ Opened(f) \in Seq(Blocks)
         /\ f \notin Mapped => Opened(f) = local[f] /\ StartAt(f) <= Len(local[f])
         /\ f \in Mapped => /\ Len(Opened(f)) = Size[f] /\ StartAt(f) = 0
                            /\ \A i \in 1..Size[f] : Opened(f)[i] \in {Hole, Block(f, i)}
                            /\ Len(local[f]) = Size[f] => Opened(f) = local[f]
<1>1. /\ local[f] \in Seq(Blocks) /\ Len(local[f]) \in Nat /\ Size[f] \in Nat
  BY Constants DEF Types
<1>2. CASE f \notin Mapped
  <2>1. Len(local[f]) <= Size[f]
    BY <1>2 DEF FileOk
  <2> QED BY <1>1, <1>2, <2>1 DEF StartAt, Opened
<1>3. CASE f \in Mapped
  <2>1. Len(local[f]) \in {0, Size[f]} /\ local[f] # Whole(f)
    BY <1>3 DEF FileOk, Once, Wanted
  <2>2. Size[f] # 0
    <3> SUFFICES ASSUME Size[f] = 0  PROVE FALSE
      OBVIOUS
    <3>1. local[f] = [i \in 1..Len(local[f]) |-> local[f][i]] /\ Len(local[f]) = 0
      BY <1>1, <2>1
    <3>2. [i \in 1..0 |-> local[f][i]] = [i \in 1..0 |-> Block(f, i)]
      OBVIOUS
    <3> QED BY <2>1, <3>1, <3>2 DEF Whole
  <2>3. StartAt(f) = 0
    BY <1>1, <2>1 DEF StartAt
  <2> DEFINE g == [i \in 1..Size[f] |-> IF i <= Len(local[f]) THEN local[f][i] ELSE Hole]
  <2>4. Opened(f) = g
    BY <1>3 DEF Opened
  <2>5. \A i \in 1..Size[f] : g[i] \in {Hole, Block(f, i)} /\ g[i] \in Blocks
    <3> SUFFICES ASSUME NEW i \in 1..Size[f]
                 PROVE  g[i] \in {Hole, Block(f, i)} /\ g[i] \in Blocks
      OBVIOUS
    <3>0. i \in Nat /\ Block(f, i) \in Blocks /\ Hole \in Blocks
      BY <1>1, Blocks_ DEF Blocks
    <3>1. CASE i <= Len(local[f])
      <4>1. i \in 1..Len(local[f])
        BY <1>1, <3>1
      <4>2. local[f][i] \in {Hole, Block(f, i)}
        BY <1>3, <4>1 DEF FileOk
      <4> QED BY <3>0, <3>1, <4>2
    <3>2. CASE ~(i <= Len(local[f]))
      BY <3>0, <3>2
    <3> QED BY <3>1, <3>2
  <2>6. g \in Seq(Blocks) /\ Len(g) = Size[f]
    <3>1. g \in [1..Size[f] -> Blocks]
      BY <2>5
    <3> QED BY <1>1, <3>1, Listing
  <2>7. Len(local[f]) = Size[f] => g = local[f]
    <3> SUFFICES ASSUME Len(local[f]) = Size[f]  PROVE g = local[f]
      OBVIOUS
    <3>1. local[f] = [i \in 1..Size[f] |-> local[f][i]]
      BY <1>1
    <3>2. \A i \in 1..Size[f] : g[i] = local[f][i]
      BY <1>1
    <3> QED BY <3>1, <3>2
  <2> HIDE DEF g
  <2> QED BY <1>1, <1>3, <2>2, <2>3, <2>4, <2>5, <2>6, <2>7
<1> QED BY <1>2, <1>3

(* A request for f, on connection c, with descriptor d for slot j.         *)
Getting(c, f, d, j, t) ==
  /\ c \in Conn /\ f \in File /\ d \in Index /\ j \in Index \ Active
  /\ t = [fd |-> d, file |-> f, pos |-> StartAt(f)] /\ t \in Question /\ Wanted(f)
  /\ \A i \in Active : task[i].fd # d
  /\ task' = [task EXCEPT ![j] = t] /\ task_num' = task_num + 1
  /\ local' = [local EXCEPT ![f] = Opened(f)] /\ cfd' = c
  /\ requests' = [requests EXCEPT ![c] =
                    IF ssock[c] \in {"open", "new"} THEN Append(@, t) ELSE @]

LEMMA GettingOn ==
  ASSUME Once, Types, Tasks, Files, NEW c \in Conn, NEW f \in File, NEW d \in Index, Wanted(f),
         GetOn(c, f, d), task_num < TaskMax, \A i \in Active : task[i].fd # d
  PROVE  \E j, t : Getting(c, f, d, j, t)
<1> DEFINE S == {i \in 1..TaskMax : task[i].fd = 0}
           j == Min(S)
           t == [fd |-> d, file |-> f, pos |-> StartAt(f)]
<1>1. j \in S
  <2>1. S # {}
    BY ActiveFinite DEF Tasks, Index
  <2>2. S \in SUBSET Nat
    BY Constants
  <2> QED BY <2>1, <2>2, MinIn, Zenon
<1>2. j \in Index \ Active
  BY <1>1 DEF Index, Active
<1>3. t \in Question
  <2>1. StartAt(f) \in 0..Size[f]
    <3>1. FileOk(f)
      BY DEF Files
    <3> QED BY <3>1, Opening
  <2>2. StartAt(f) \in Nat
    BY <2>1, Constants
  <2> QED BY <2>2 DEF Question
<1>4. /\ task' = [task EXCEPT ![j] = t] /\ task_num' = task_num + 1
      /\ local' = [local EXCEPT ![f] = Opened(f)] /\ cfd' = c
      /\ requests' = [requests EXCEPT ![c] =
                        IF ssock[c] \in {"open", "new"} THEN Append(@, t) ELSE @]
  BY DEF GetOn
<1> HIDE DEF j, S
<1>5. Getting(c, f, d, j, t)
  BY <1>2, <1>3, <1>4 DEF Getting
<1> QED BY <1>5

(* The client takes the next slice of task j.                              *)
Receiving(j) ==
  LET q == trains[cfd] IN
  /\ cfd # None /\ q # <<>> /\ j \in Active
  /\ q[1] = Train(task[j], Block(task[j].file, task[j].pos + 1))
  /\ task[j].pos + 1 <= Size[task[j].file]
  /\ \A i \in Index : i # j => task'[i] = task[i]
  /\ task'[j] = [task[j] EXCEPT !.pos = @ + 1] /\ task' \in [Index -> TaskRecord]
  /\ local' = [local EXCEPT ![task[j].file] =
                 Written(@, task[j].pos, Block(task[j].file, task[j].pos + 1))]
  /\ trains' = [trains EXCEPT ![cfd] = Tail(@)]

LEMMA ReceivingData ==
  ASSUME Types, Tasks, Arriving, ReadData
  PROVE  \E j \in Index : Receiving(j)
<1> DEFINE q == trains[cfd]
<1>1. cfd # None /\ cfd \in Conn /\ q # <<>> /\ q \in Seq(TrainRecord)
  BY DEF ReadData, Types
<1>2. /\ Head(q) = q[1] /\ 1 \in 1..Len(q) /\ q[1].block # None /\ Arrived(q[1])
  BY <1>1, Popping DEF ReadData
<1>3. PICK j \in Active : Goes(q, 1, task[j])
  BY <1>1, <1>2 DEF Arriving
<1>4. j \in Index /\ task[j].fd # 0
  BY DEF Active
<1>4a. /\ task[j].file \in File /\ task[j].pos <= Size[task[j].file] /\ task[j].pos \in Nat
       /\ Size[task[j].file] \in Nat
  BY <1>4, TaskFacts, Constants DEF Tasks, Within
<1>5. PICK n \in task[j].pos + 1..Size[task[j].file] : q[1].block = Block(task[j].file, n)
  BY <1>2, <1>3 DEF Goes
<1>6. n = task[j].pos + 1
  <2> SUFFICES ASSUME task[j].pos + 1 < n  PROVE FALSE
    BY <1>4a
  <2> DEFINE m == task[j].pos + 1
  <2>1. m \in task[j].pos + 1..Size[task[j].file] /\ n \in Nat
    BY <1>4a
  <2>2. q[1].block[2] = n
    BY <1>4a, <1>5, <2>1, Blocks_
  <2>3. \E k \in 1..1 - 1 : q[k] = Train(task[j], Block(task[j].file, m))
    BY <1>3, <2>1, <2>2 DEF Goes
  <2> QED BY <2>3
<1>7. q[1].ctl_code = task[j].fd
  BY <1>3 DEF Goes
<1>8. q[1] = Train(task[j], Block(task[j].file, task[j].pos + 1))
  <2>1. q[1] \in TrainRecord
    BY <1>1, <1>2
  <2>2. q[1] = [ctl_code |-> q[1].ctl_code, block |-> q[1].block]
    BY <2>1 DEF TrainRecord
  <2> QED BY <1>5, <1>6, <1>7, <2>2 DEF Train
<1>9. Owner(q[1].ctl_code) = {j}
  BY <1>7, OwnerIs
<1>10. task' = [i \in Index |-> IF i = j THEN [task[i] EXCEPT !.pos = @ + 1] ELSE task[i]]
  BY <1>2, <1>9 DEF Arrived, Index
<1>11. task' \in [Index -> TaskRecord]
  <2>1. [task[j] EXCEPT !.pos = @ + 1] \in TaskRecord
    BY <1>4, <1>4a, TaskFacts DEF TaskRecord
  <2> QED BY <1>10, <2>1, TaskFacts
<1>12. local' = [local EXCEPT ![task[j].file] =
                   Written(@, task[j].pos, Block(task[j].file, task[j].pos + 1))]
  <2>1. (CHOOSE i \in Owner(q[1].ctl_code) : TRUE) = j
    BY <1>9
  <2>2. local' = [f \in File |-> IF task[j].file = f
                                 THEN Written(local[f], task[j].pos, q[1].block) ELSE local[f]]
    BY <1>2, <1>9, <2>1 DEF Arrived
  <2>3. q[1].block = Block(task[j].file, task[j].pos + 1)
    BY <1>5, <1>6
  <2>4. local \in [File -> Seq(Blocks)]
    BY DEF Types
  <2> QED BY <2>2, <2>3, <2>4
<1>13. trains' = [trains EXCEPT ![cfd] = Tail(@)]
  BY DEF ReadData
<1>14. task[j].pos + 1 <= Size[task[j].file]
  BY <1>4a, <1>5, <1>6
<1>15. /\ \A i \in Index : i # j => task'[i] = task[i]
       /\ task'[j] = [task[j] EXCEPT !.pos = @ + 1]
  BY <1>4, <1>10
<1> QED BY <1>1, <1>4, <1>8, <1>11, <1>12, <1>13, <1>14, <1>15 DEF Receiving

(* The client takes the end of task j.                                     *)
Ending(j) ==
  LET q == trains[cfd] IN
  /\ cfd # None /\ q # <<>> /\ j \in Active
  /\ q[1] = End(task[j]) /\ task[j].pos = Size[task[j].file]
  /\ task' = [task EXCEPT ![j] = NoTask] /\ task_num' = task_num - 1

LEMMA EndingOne ==
  ASSUME Types, Tasks, Arriving, cfd # None, trains[cfd] # <<>>, trains[cfd][1].block = None
  PROVE  \E j \in Active : /\ trains[cfd][1] = End(task[j])
                           /\ task[j].pos = Size[task[j].file] /\ task[j].file \in File
<1> DEFINE q == trains[cfd]
<1>1. cfd # None /\ cfd \in Conn /\ q # <<>> /\ q \in Seq(TrainRecord)
  BY DEF Types
<1>2. 1 \in 1..Len(q) /\ q[1].block = None
  BY <1>1, Popping
<1>3. PICK j \in Active : Goes(q, 1, task[j])
  BY <1>1, <1>2 DEF Arriving
<1>4. j \in Index /\ task[j].fd # 0
  BY DEF Active
<1>5. /\ task[j].file \in File /\ task[j].pos <= Size[task[j].file] /\ task[j].pos \in Nat
      /\ Size[task[j].file] \in Nat
  BY <1>4, TaskFacts, Constants DEF Tasks, Within
<1>6. task[j].pos = Size[task[j].file]
  <2> SUFFICES ASSUME task[j].pos < Size[task[j].file]  PROVE FALSE
    BY <1>5
  <2> DEFINE m == task[j].pos + 1
  <2>1. m \in task[j].pos + 1..Size[task[j].file]
    BY <1>5
  <2>3. \E k \in 1..1 - 1 : q[k] = Train(task[j], Block(task[j].file, m))
    BY <1>2, <1>3, <2>1 DEF Goes
  <2> QED BY <2>3
<1>7. q[1].ctl_code = task[j].fd
  BY <1>3 DEF Goes
<1>8. q[1] = End(task[j])
  <2>1. q[1] \in TrainRecord
    BY <1>1, <1>2
  <2>2. q[1] = [ctl_code |-> q[1].ctl_code, block |-> q[1].block]
    BY <2>1 DEF TrainRecord
  <2> QED BY <1>2, <1>7, <2>2 DEF End, Train
<1> QED BY <1>5, <1>6, <1>8

LEMMA EndingTask ==
  ASSUME Types, Tasks, Arriving, ReadEnd
  PROVE  \E j \in Index : Ending(j)
<1> DEFINE q == trains[cfd]
<1>1. cfd # None /\ cfd \in Conn /\ q # <<>> /\ q \in Seq(TrainRecord)
  BY DEF ReadEnd, Types
<1>2. Head(q) = q[1] /\ q[1].block = None
  BY <1>1, Popping DEF ReadEnd
<1>3. PICK j \in Active : q[1] = End(task[j]) /\ task[j].pos = Size[task[j].file]
  BY <1>1, <1>2, EndingOne
<1>4. Owner(q[1].ctl_code) = {j}
  BY <1>3, OwnerIs DEF End, Train
<1>5. task' = [i \in Index |-> IF i \in Owner(q[1].ctl_code) THEN NoTask ELSE task[i]]
      /\ task_num' = task_num - 1
  BY <1>2 DEF ReadEnd, Index
<1>6. task' = [task EXCEPT ![j] = NoTask]
  BY <1>4, <1>5 DEF Types
<1> QED BY <1>1, <1>3, <1>5, <1>6 DEF Ending, Active

-----------------------------------------------------------------------------
(* The client's tasks and files *)

LEMMA TasksGet ==
  ASSUME Types, Tasks, NEW c, NEW f, NEW d, NEW j, NEW t, Getting(c, f, d, j, t),
         StartAt(f) \in 0..Size[f]
  PROVE  /\ Tasks' /\ task' \in [Index -> TaskRecord] /\ task_num' \in Nat
         /\ Active' = Active \cup {j} /\ task'[j] = t
         /\ \A i \in Active : task'[i] = task[i] /\ i # j
<1>1. /\ j \in Index /\ j \notin Active /\ t \in TaskRecord /\ t.fd = d /\ d \in Index
      /\ t.pos = StartAt(f) /\ t.file = f /\ f \in File /\ d # 0
  BY Records, Constants DEF Getting
<1>2. task' = [task EXCEPT ![j] = t]
  BY DEF Getting
<1>3. task' \in [Index -> TaskRecord]
  BY <1>1, <1>2 DEF Types
<1>4. /\ \A i \in Index : i # j => task'[i] = task[i]
      /\ task'[j] = t
  BY <1>1, <1>2 DEF Types
<1>5. Active' = Active \cup {j}
  BY <1>1, <1>4 DEF Active
<1>6. Within(t)
  BY <1>1, Constants DEF Within
<1>7. \A i \in Index : Within(task[i])' /\ (task'[i].fd = 0 => task'[i] = NoTask)
  BY <1>1, <1>4, <1>6 DEF Tasks, Within
<1>8. \A i, k \in Active' : task'[i].fd = task'[k].fd => i = k
  <2>1. \A i \in Active : task[i].fd # d /\ i \in Index /\ i # j
    BY <1>1 DEF Getting, Active
  <2> QED BY <1>1, <1>4, <1>5, <2>1 DEF Tasks
<1>9. task_num' = Cardinality(Active') /\ task_num' \in Nat
  <2>1. Cardinality(Active \cup {j}) = Cardinality(Active) + 1
    BY <1>1, ActiveFinite, FS_AddElement
  <2> QED BY <1>5, <2>1, ActiveFinite DEF Tasks, Getting
<1>10. cfd' # None /\ Active' # {}
  BY <1>5, Constants DEF Getting
<1> QED BY <1>1, <1>3, <1>4, <1>5, <1>7, <1>8, <1>9, <1>10 DEF Tasks, Active

LEMMA FilesGet ==
  ASSUME Once, Types, Tasks, Files, NEW c, NEW f, NEW d, NEW j, NEW t, Getting(c, f, d, j, t)
  PROVE  Files' /\ local' \in [File -> Seq(Blocks)] /\ StartAt(f) \in 0..Size[f]
<1>0. f \in File /\ FileOk(f) /\ Wanted(f) /\ t.file = f /\ t.pos = StartAt(f)
  BY DEF Getting, Files
<1>1. /\ StartAt(f) \in 0..Size[f] /\ Opened(f) \in Seq(Blocks)
      /\ f \notin Mapped => Opened(f) = local[f] /\ StartAt(f) <= Len(local[f])
      /\ f \in Mapped => /\ Len(Opened(f)) = Size[f] /\ StartAt(f) = 0
                         /\ \A i \in 1..Size[f] : Opened(f)[i] \in {Hole, Block(f, i)}
                         /\ Len(local[f]) = Size[f] => Opened(f) = local[f]
  BY <1>0, Opening
<1>2. /\ \A g \in File : g # f => local'[g] = local[g]
      /\ local'[f] = Opened(f)
      /\ local' \in [File -> Seq(Blocks)]
  BY <1>0, <1>1 DEF Getting, Types
<1>3. \A g \in File : FileOk(g)'
  <2> SUFFICES ASSUME NEW g \in File  PROVE FileOk(g)'
    OBVIOUS
  <2>1. CASE g # f
    BY <1>2, <2>1 DEF Files, FileOk
  <2>2. CASE g = f /\ f \notin Mapped
    BY <1>0, <1>1, <1>2, <2>2 DEF FileOk
  <2>3. CASE g = f /\ f \in Mapped
    BY <1>1, <1>2, <2>3 DEF FileOk
  <2> QED BY <2>1, <2>2, <2>3
<1>4. /\ Active' = Active \cup {j} /\ task'[j] = t
      /\ \A i \in Active : task'[i] = task[i]
  BY <1>1, TasksGet
<1>5. WrittenTo(f, t.pos)'
  <2> DEFINE p == t.pos
  <2>2. p = StartAt(f)
    BY <1>0
  <2>3. p <= Len(local'[f])
    BY <1>0, <1>1, <1>2, <2>2, Constants
  <2>4. f \in Mapped => Len(local'[f]) = Size[f]
    BY <1>1, <1>2
  <2>5. \A i \in 1..p : local'[f][i] = Block(f, i)
    <3>1. CASE f \in Mapped
      BY <1>1, <2>2, <3>1
    <3>2. CASE f \notin Mapped
      <4>1. p \in Nat /\ Len(local[f]) \in Nat
        BY <1>0, <1>1, Constants DEF Types
      <4>2. \A i \in 1..p : i \in 1..Len(local[f])
        BY <1>1, <2>2, <3>2, <4>1
      <4> QED BY <1>0, <1>1, <1>2, <3>2, <4>2 DEF FileOk
    <3> QED BY <3>1, <3>2
  <2> QED BY <2>3, <2>4, <2>5 DEF WrittenTo
<1>6. \A g \in File, p \in Nat : WrittenTo(g, p) => WrittenTo(g, p)'
  <2> SUFFICES ASSUME NEW g \in File, NEW p \in Nat, WrittenTo(g, p)  PROVE WrittenTo(g, p)'
    OBVIOUS
  <2>1. local'[g] = local[g]
    BY <1>1, <1>2 DEF WrittenTo
  <2> QED BY <2>1 DEF WrittenTo
<1>7. \A i \in Active' : WrittenTo(task[i].file, task[i].pos)'
  <2> SUFFICES ASSUME NEW i \in Active'  PROVE WrittenTo(task[i].file, task[i].pos)'
    OBVIOUS
  <2>1. CASE i = j
    BY <1>0, <1>4, <1>5, <2>1 DEF WrittenTo
  <2>2. CASE i \in Active
    <3> DEFINE g == task[i].file
               p == task[i].pos
    <3>1. g \in File /\ p \in Nat /\ WrittenTo(g, p) /\ i \in Index
      BY <2>2, TaskFacts DEF Tasks, Within, Files, Active
    <3>2. PICK h \in File, r \in Nat : h = g /\ r = p
      BY <3>1
    <3>3. WrittenTo(h, r)'
      BY <1>6, <3>1, <3>2
    <3>4. task'[i].file = h /\ task'[i].pos = r
      BY <1>4, <2>2, <3>2
    <3> QED BY <3>3, <3>4 DEF WrittenTo
  <2> QED BY <1>4, <2>1, <2>2
<1> QED BY <1>1, <1>2, <1>3, <1>7 DEF Files

LEMMA WrittenIs ==
  ASSUME NEW s \in Seq(Blocks), NEW p \in Nat, p <= Len(s), NEW b \in Blocks
  PROVE  /\ Written(s, p, b) \in Seq(Blocks)
         /\ Len(Written(s, p, b)) = IF Len(s) > p THEN Len(s) ELSE p + 1
         /\ Written(s, p, b)[p + 1] = b
         /\ \A i \in 1..Len(s) : i # p + 1 => Written(s, p, b)[i] = s[i]
<1> DEFINE n == IF Len(s) > p THEN Len(s) ELSE p + 1
           g == [i \in 1..n |-> IF i = p + 1 THEN b ELSE IF i <= Len(s) THEN s[i] ELSE Hole]
<1>1. n \in Nat /\ p + 1 \in 1..n /\ \A i \in 1..Len(s) : i \in 1..n
  OBVIOUS
<1>2. \A i \in 1..n : i = p + 1 \/ i \in 1..Len(s)
  OBVIOUS
<1>3. g \in [1..n -> Blocks]
  BY <1>2
<1>4. Written(s, p, b) = g
  BY DEF Written
<1>5. /\ g[p + 1] = b
      /\ \A i \in 1..Len(s) : i # p + 1 => g[i] = s[i]
  BY <1>1
<1>6. g \in Seq(Blocks) /\ Len(g) = n
  BY <1>1, <1>3, Listing
<1> QED BY <1>4, <1>5, <1>6

LEMMA TasksReceive ==
  ASSUME Types, Tasks, NEW j, Receiving(j), task_num' = task_num, cfd' = cfd
  PROVE  /\ Tasks' /\ Active' = Active
         /\ j \in Index /\ task[j].file \in File /\ task[j].pos \in Nat
         /\ task[j].pos + 1 <= Size[task[j].file] /\ Size[task[j].file] \in Nat
         /\ task'[j].fd = task[j].fd /\ task'[j].file = task[j].file
         /\ task'[j].pos = task[j].pos + 1
<1>1. /\ j \in Index /\ task[j].fd # 0 /\ task[j] \in TaskRecord
      /\ task[j].pos + 1 <= Size[task[j].file]
  BY TaskFacts DEF Receiving, Active
<1>2. task[j].file \in File /\ task[j].pos \in Nat /\ Size[task[j].file] \in Nat
  BY <1>1, TaskFacts, Constants DEF Tasks, Within
<1>3. /\ task'[j].fd = task[j].fd /\ task'[j].file = task[j].file
      /\ task'[j].pos = task[j].pos + 1
  BY <1>1 DEF Receiving, TaskRecord
<1>4. \A i \in Index : i # j => task'[i] = task[i]
  BY DEF Receiving
<1>5. Active' = Active
  BY <1>1, <1>3, <1>4 DEF Active
<1>6. \A i \in Index : Within(task[i])' /\ (task'[i].fd = 0 => task'[i] = NoTask)
  BY <1>1, <1>2, <1>3, <1>4 DEF Tasks, Within
<1>7. \A i, k \in Active' : task'[i].fd = task'[k].fd => i = k
  BY <1>3, <1>4, <1>5 DEF Tasks, Active
<1> QED BY <1>1, <1>2, <1>3, <1>5, <1>6, <1>7 DEF Tasks

LEMMA FilesReceive ==
  ASSUME Types, Tasks, Files, NEW j, Receiving(j), task_num' = task_num, cfd' = cfd
  PROVE  Files' /\ local' \in [File -> Seq(Blocks)]
<1>1. PICK f \in File, p \in Nat : f = task[j].file /\ p = task[j].pos
  BY TasksReceive
<1>2. /\ p + 1 <= Size[f] /\ Size[f] \in Nat /\ Active' = Active /\ j \in Active
      /\ task'[j].file = f /\ task'[j].pos = p + 1 /\ WrittenTo(f, p) /\ FileOk(f)
  BY <1>1, TasksReceive DEF Files, Receiving
<1>3. /\ local[f] \in Seq(Blocks) /\ Block(f, p + 1) \in Blocks /\ p <= Len(local[f])
      /\ Len(local[f]) \in Nat
  BY <1>2, Blocks_ DEF Types, WrittenTo
<1> DEFINE w == Written(local[f], p, Block(f, p + 1))
<1>4. /\ w \in Seq(Blocks) /\ Len(w) = IF Len(local[f]) > p THEN Len(local[f]) ELSE p + 1
      /\ w[p + 1] = Block(f, p + 1)
      /\ \A i \in 1..Len(local[f]) : i # p + 1 => w[i] = local[f][i]
  BY <1>3, WrittenIs
<1>5. /\ local' \in [File -> Seq(Blocks)]
      /\ \A g \in File : g # f => local'[g] = local[g]
      /\ local'[f] = w
  BY <1>1, <1>4 DEF Receiving, Types
<1> HIDE DEF w
<1>6. \A i \in 1..Len(w) : i = p + 1 \/ i \in 1..Len(local[f])
  BY <1>3, <1>4
<1>7. /\ f \in Mapped => Len(w) = Size[f] /\ Len(local[f]) = Size[f]
      /\ f \notin Mapped => Len(w) <= Size[f]
      /\ Len(local[f]) <= Len(w) /\ p + 1 <= Len(w)
  BY <1>2, <1>3, <1>4 DEF FileOk, WrittenTo
<1>8. FileOk(f)'
  <2>1. CASE f \in Mapped
    BY <1>2, <1>4, <1>5, <1>6, <1>7, <2>1 DEF FileOk
  <2>2. CASE f \notin Mapped
    BY <1>2, <1>4, <1>5, <1>6, <1>7, <2>2 DEF FileOk
  <2> QED BY <2>1, <2>2
<1>9. \A g \in File : FileOk(g)'
  BY <1>5, <1>8 DEF Files, FileOk
<1>10. \A g \in File, r \in Nat : WrittenTo(g, r) => WrittenTo(g, r)'
  <2> SUFFICES ASSUME NEW g \in File, NEW r \in Nat, WrittenTo(g, r)  PROVE WrittenTo(g, r)'
    OBVIOUS
  <2>1. CASE g # f
    BY <1>5, <2>1 DEF WrittenTo
  <2>2. CASE g = f
    <3>1. r <= Len(local[f])
      BY <2>2 DEF WrittenTo
    <3>2. r <= Len(w)
      BY <1>3, <1>4, <1>7, <3>1
    <3>3. \A i \in 1..r : w[i] = Block(f, i)
      <4> SUFFICES ASSUME NEW i \in 1..r  PROVE w[i] = Block(f, i)
        OBVIOUS
      <4>1. i \in 1..Len(local[f]) /\ local[f][i] = Block(f, i)
        BY <1>3, <2>2, <3>1 DEF WrittenTo
      <4> QED BY <1>4, <4>1
    <3> QED BY <1>5, <1>7, <2>2, <3>2, <3>3 DEF WrittenTo
  <2> QED BY <2>1, <2>2
<1>11. WrittenTo(f, p + 1)'
  <2>1. \A i \in 1..p + 1 : w[i] = Block(f, i)
    <3> SUFFICES ASSUME NEW i \in 1..p + 1  PROVE w[i] = Block(f, i)
      OBVIOUS
    <3>1. CASE i = p + 1
      BY <1>4, <3>1
    <3>2. CASE i # p + 1
      <4>1. i \in 1..p /\ i \in 1..Len(local[f])
        BY <1>3, <3>2
      <4> QED BY <1>2, <1>4, <3>2, <4>1 DEF WrittenTo
    <3> QED BY <3>1, <3>2
  <2> QED BY <1>5, <1>7, <2>1 DEF WrittenTo
<1>12. \A i \in Active' : WrittenTo(task[i].file, task[i].pos)'
  <2> SUFFICES ASSUME NEW i \in Active  PROVE WrittenTo(task[i].file, task[i].pos)'
    BY <1>2
  <2>1. CASE i = j
    BY <1>2, <1>11, <2>1 DEF WrittenTo
  <2>2. CASE i # j
    <3>1. i \in Index /\ task'[i] = task[i]
      BY <2>2 DEF Active, Receiving
    <3>2. PICK h \in File, r \in Nat : h = task[i].file /\ r = task[i].pos
      BY <3>1, TaskFacts DEF Tasks, Within, Active
    <3>3. WrittenTo(h, r)
      BY <3>2 DEF Files
    <3>4. WrittenTo(h, r)'
      BY <1>10, <3>3
    <3> QED BY <3>1, <3>2, <3>4 DEF WrittenTo
  <2> QED BY <2>1, <2>2
<1> QED BY <1>5, <1>9, <1>12 DEF Files

LEMMA FewerTasks ==
  ASSUME Types, Tasks, Files, local' = local,
         \A j \in Index : task'[j] = task[j] \/ task'[j] = NoTask,
         task_num' = Cardinality(Active'), (cfd' = None) <=> (Active' = {})
  PROVE  Tasks' /\ Files' /\ Active' \subseteq Active /\ task_num' \in Nat
<1>1. \A j \in Active' : j \in Active /\ task'[j] = task[j]
  BY Records DEF Active
<1>2. \A i \in Index : Within(task[i])' /\ (task'[i].fd = 0 => task'[i] = NoTask)
  BY Records DEF Tasks, Within
<1>3. \A i, k \in Active' : task'[i].fd = task'[k].fd => i = k
  BY <1>1 DEF Tasks
<1>4. Files'
  BY <1>1 DEF Files, FileOk, WrittenTo
<1>5. Cardinality(Active') \in Nat
  <2>1. Active' \in SUBSET Active
    BY <1>1
  <2> QED BY <2>1, ActiveFinite, FS_Subset, FS_CardinalityType
<1> QED BY <1>1, <1>2, <1>3, <1>4, <1>5 DEF Tasks

LEMMA TasksEnd ==
  ASSUME Types, Tasks, Files, NEW j, Ending(j), local' = local,
         cfd' = IF task_num = 1 THEN None ELSE cfd
  PROVE  /\ Tasks' /\ Files' /\ Active' = Active \ {j} /\ task_num' \in Nat
         /\ task' \in [Index -> TaskRecord]
         /\ \A i \in Active' : task'[i] = task[i]
<1>1. j \in Active /\ j \in Index /\ task' = [task EXCEPT ![j] = NoTask] /\ task_num' = task_num - 1
  BY DEF Ending, Active
<1>2. /\ task'[j] = NoTask /\ task' \in [Index -> TaskRecord]
      /\ \A i \in Index : i # j => task'[i] = task[i]
  BY <1>1, Records DEF Types
<1>3. Active' = Active \ {j}
  BY <1>1, <1>2, Records DEF Active
<1>4. Cardinality(Active \ {j}) = Cardinality(Active) - 1
  BY <1>1, ActiveFinite, FS_RemoveElement
<1>5. task_num' = Cardinality(Active')
  BY <1>1, <1>3, <1>4 DEF Tasks
<1>6. cfd' = None <=> Active' = {}
  <2>1. IsFiniteSet(Active') /\ (Cardinality(Active') = 0 <=> Active' = {})
    <3>1. IsFiniteSet(Active \ {j})
      BY ActiveFinite, FS_RemoveElement
    <3> QED BY <1>3, <3>1, FS_EmptySet
  <2>2. task_num \in Nat /\ cfd # None
    BY DEF Types, Ending
  <2>3. task_num' = 0 <=> task_num = 1
    BY <1>1, <2>2
  <2> QED BY <1>5, <2>1, <2>2, <2>3
<1>7. \A i \in Index : task'[i] = task[i] \/ task'[i] = NoTask
  BY <1>2
<1>8. Tasks' /\ Files' /\ task_num' \in Nat
  BY <1>5, <1>6, <1>7, FewerTasks
<1>9. \A i \in Active' : task'[i] = task[i]
  BY <1>2, <1>3 DEF Active
<1> QED BY <1>2, <1>3, <1>8, <1>9

LEMMA TasksExit ==
  ASSUME Types, Tasks, Files, task' = [j \in 1..TaskMax |-> NoTask], task_num' = 0, cfd' = None,
         local' = local
  PROVE  Tasks' /\ Files' /\ task' \in [Index -> TaskRecord] /\ task_num' \in Nat
<1>1. \A j \in Index : task'[j] = NoTask
  BY DEF Index
<1>2. Active' = {}
  BY <1>1, Records DEF Active
<1>3. task_num' = Cardinality(Active')
  BY <1>2, FS_EmptySet
<1>4. task' \in [Index -> TaskRecord]
  BY Records DEF Index
<1> QED BY <1>1, <1>2, <1>3, <1>4, FewerTasks

LEMMA TasksSame ==
  ASSUME Tasks, Files, UNCHANGED <<task, task_num, cfd, local>>
  PROVE  Tasks' /\ Files' /\ Active' = Active
BY DEF Tasks, Active, Within, Files, FileOk, WrittenTo

-----------------------------------------------------------------------------
(* Connections and slots *)

LEMMA PeerClosesIs ==
  ASSUME NEW sock \in States, NEW unread
  PROVE  /\ PeerCloses(sock, unread) \in States
         /\ PeerCloses(sock, unread) \in {"new", "closed"} <=> sock \in {"new", "closed"}
         /\ PeerCloses(sock, unread) = "new" <=> sock = "new"
         /\ PeerCloses(sock, unread) = "closed" <=> sock = "closed"
BY DEF PeerCloses, States

(* A connection is closed by the server.                                   *)
LEMMA ServerCloses ==
  ASSUME Types, Sockets, NEW conns, \A c \in conns \cap Conn : ssock[c] # "new",
         CloseSockets(conns)
  PROVE  /\ csock' \in [Conn -> States] /\ ssock' \in [Conn -> States]
         /\ \A c \in Conn : csock'[c] = "new" <=> csock[c] = "new"
         /\ \A c \in Conn : csock'[c] = "new" <=> ssock'[c] = "new"
         /\ \A c \in Conn : csock'[c] = "closed" <=> csock[c] = "closed"
         /\ \A c \in Conn \ conns : csock'[c] = csock[c] /\ ssock'[c] = ssock[c]
         /\ \A c \in Conn \cap conns : ssock'[c] = "closed"
<1>1. /\ csock' = [c \in Conn |-> IF c \in conns THEN PeerCloses(csock[c], requests[c])
                                  ELSE csock[c]]
      /\ ssock' = [c \in Conn |-> IF c \in conns THEN "closed" ELSE ssock[c]]
  BY DEF CloseSockets
<1>2. \A c \in Conn : csock[c] \in States /\ ssock[c] \in States
  BY DEF Types
<1>3. \A c \in Conn : /\ PeerCloses(csock[c], requests[c]) \in States
                      /\ PeerCloses(csock[c], requests[c]) = "new" <=> csock[c] = "new"
                      /\ PeerCloses(csock[c], requests[c]) = "closed" <=> csock[c] = "closed"
  BY <1>2, PeerClosesIs
<1>4. "closed" \in States
  BY DEF States
<1>5. csock' \in [Conn -> States] /\ ssock' \in [Conn -> States]
  BY <1>1, <1>2, <1>3, <1>4
<1>6. \A c \in Conn : csock'[c] = "new" <=> csock[c] = "new"
  BY <1>1, <1>3
<1>7. \A c \in Conn : csock'[c] = "closed" <=> csock[c] = "closed"
  BY <1>1, <1>3
<1>8. /\ \A c \in Conn \ conns : csock'[c] = csock[c] /\ ssock'[c] = ssock[c]
      /\ \A c \in Conn \cap conns : ssock'[c] = "closed"
  BY <1>1
<1>9. \A c \in Conn : csock'[c] = "new" <=> ssock'[c] = "new"
  BY <1>6, <1>8 DEF Sockets
<1> QED BY <1>5, <1>6, <1>7, <1>8, <1>9

(* A connection is closed by the client.                                   *)
LEMMA ClientCloses ==
  ASSUME Types, Sockets, cfd # None, NEW rest, CloseConn(rest)
  PROVE  /\ csock' \in [Conn -> States] /\ ssock' \in [Conn -> States]
         /\ trains' \in [Conn -> Seq(TrainRecord)]
         /\ cfd' = None /\ requests' = requests
         /\ \A c \in Conn : Up(c)' <=> Up(c)
         /\ Sockets'
<1>1. /\ cfd \in Conn /\ cfd' = None /\ requests' = requests
      /\ csock' = [csock EXCEPT ![cfd] = "closed"]
      /\ ssock' = [ssock EXCEPT ![cfd] = PeerCloses(ssock[cfd], rest)]
      /\ trains' = [trains EXCEPT ![cfd] = <<>>]
  BY DEF CloseConn, Types
<1>2. \A c \in Conn : csock[c] \in States /\ ssock[c] \in States
  BY DEF Types
<1>3. /\ PeerCloses(ssock[cfd], rest) \in States
      /\ PeerCloses(ssock[cfd], rest) \in {"new", "closed"} <=> ssock[cfd] \in {"new", "closed"}
      /\ PeerCloses(ssock[cfd], rest) = "new" <=> ssock[cfd] = "new"
  BY <1>1, <1>2, PeerClosesIs
<1>4. "closed" \in States /\ <<>> \in Seq(TrainRecord)
  BY DEF States
<1>5. /\ csock' \in [Conn -> States] /\ ssock' \in [Conn -> States]
      /\ trains' \in [Conn -> Seq(TrainRecord)]
  BY <1>1, <1>3, <1>4 DEF Types
<1>6. /\ \A c \in Conn : c # cfd => csock'[c] = csock[c] /\ ssock'[c] = ssock[c] /\ trains'[c] = trains[c]
      /\ csock'[cfd] = "closed" /\ ssock'[cfd] = PeerCloses(ssock[cfd], rest) /\ trains'[cfd] = <<>>
  BY <1>1 DEF Types
<1>7. \A c \in Conn : Up(c)' <=> Up(c)
  <2> SUFFICES ASSUME NEW c \in Conn  PROVE Up(c)' <=> Up(c)
    OBVIOUS
  <2>1. CASE c = cfd
    BY <1>3, <1>6, <2>1 DEF Up
  <2>2. CASE c # cfd
    BY <1>6, <2>2 DEF Up
  <2> QED BY <2>1, <2>2
<1>8. csock[cfd] # "new" /\ ssock[cfd] # "new"
  BY <1>1 DEF Sockets
<1>9. Sockets'
  BY <1>1, <1>3, <1>6, <1>8 DEF Sockets
<1> QED BY <1>1, <1>5, <1>7, <1>9

LEMMA SlotFacts ==
  ASSUME Types
  PROVE  /\ Live \subseteq Slot /\ IsFiniteSet(Live) /\ Cardinality(Live) \in Nat
         /\ Cardinality(Live) <= AVG_CLIENT_NUM
         /\ Cardinality(Live) < AVG_CLIENT_NUM => Min(Slot \ Live) \in Slot \ Live
         /\ \A s \in Slot : client[s] \in SlotRecord
         /\ \A s \in Live : client[s].download_fd \in Conn
         /\ \A c \in Conn : Held(c) \subseteq Live /\ \A s \in Held(c) : client[s].download_fd = c
<1>1. IsFiniteSet(Slot) /\ Cardinality(Slot) = AVG_CLIENT_NUM
  <2>1. 1 \in Int /\ AVG_CLIENT_NUM \in Int /\ ~(1 > AVG_CLIENT_NUM) /\ AVG_CLIENT_NUM - 1 + 1 = AVG_CLIENT_NUM
    BY Constants
  <2> QED BY <2>1, FS_Interval DEF Slot
<1>2. Live \in SUBSET Slot
  BY DEF Live
<1>3. IsFiniteSet(Live) /\ Cardinality(Live) <= AVG_CLIENT_NUM /\ Cardinality(Live) \in Nat
  BY <1>1, <1>2, FS_Subset, FS_CardinalityType
<1>4. Cardinality(Live) < AVG_CLIENT_NUM => Min(Slot \ Live) \in Slot \ Live
  <2> SUFFICES ASSUME Cardinality(Live) < AVG_CLIENT_NUM
               PROVE  Min(Slot \ Live) \in Slot \ Live
    OBVIOUS
  <2>1. Live # Slot
    BY <1>1, <1>3, Constants
  <2>2. Slot \ Live # {} /\ Slot \ Live \in SUBSET Nat
    BY <1>2, <2>1, Constants
  <2> HIDE DEF Slot
  <2> QED BY <2>2, MinIn, Zenon
<1>5. \A s \in Slot : client[s] \in SlotRecord
  BY DEF Types
<1>6. \A s \in Live : client[s].download_fd \in Conn
  BY <1>5 DEF Live, SlotRecord
<1>7. \A c \in Conn : Held(c) \subseteq Live /\ \A s \in Held(c) : client[s].download_fd = c
  BY Constants DEF Held, Live
<1> QED BY <1>2, <1>3, <1>4, <1>5, <1>6, <1>7

(* A step that frees the slots of F and keeps who holds the others.        *)
LEMMA Freeing ==
  ASSUME Types, Slots, Pipes, NEW F \in SUBSET Live,
         client' \in [Slot -> SlotRecord],
         \A s \in F : client'[s] = FreeSlot,
         \A s \in Slot \ F : client'[s].download_fd = client[s].download_fd,
         \A s \in Slot \ Live : client'[s] = client[s],
         \A s \in Live \ F : SlotFits(client'[s]),
         \A c \in Conn : (\A s \in F : client[s].download_fd # c) => (Up(c) => Up(c)'),
         pipe' = pipe, busy_num' = busy_num - Cardinality(F),
         Pipe \in evs' => pipe # <<>>
  PROVE  /\ Slots' /\ Pipes' /\ busy_num' \in Nat
         /\ Live' = Live \ F /\ \A c \in Conn : Held(c)' = Held(c) \ F
<1>1. Live' = Live \ F
  BY Records DEF Live
<1>2. \A c \in Conn : Held(c)' = Held(c) \ F
  <2>1. F \subseteq Slot
    BY DEF Live
  <2> QED BY <2>1, Records, Constants DEF Held
<1>3. \A s \in Live \ F : \E c \in Conn : client[s].download_fd = c /\ Up(c)'
  <2> SUFFICES ASSUME NEW s \in Live \ F
               PROVE  \E c \in Conn : client[s].download_fd = c /\ Up(c)'
    OBVIOUS
  <2>0. PICK c \in Conn : client[s].download_fd = c
    BY SlotFacts
  <2>1. s \in Slot /\ c # None
    BY <2>0 DEF Live
  <2>2. Up(c)
    BY <2>0, <2>1 DEF Slots
  <2>3. \A t \in F : client[t].download_fd # c
    BY <2>0 DEF Slots
  <2> QED BY <2>0, <2>2, <2>3
<1>4. \A s \in Slot : \/ client'[s] = FreeSlot
                     \/ /\ client'[s].download_fd # None /\ SlotFits(client'[s])
                        /\ \E c \in Conn : client'[s].download_fd = c /\ Up(c)'
  <2> SUFFICES ASSUME NEW s \in Slot
               PROVE  \/ client'[s] = FreeSlot
                      \/ /\ client'[s].download_fd # None /\ SlotFits(client'[s])
                         /\ \E c \in Conn : client'[s].download_fd = c /\ Up(c)'
    OBVIOUS
  <2>1. CASE s \in F
    BY <2>1, Records
  <2>2. CASE s \in Live \ F
    BY <1>3, <2>2 DEF Live
  <2>3. CASE s \notin Live
    <3>1. client'[s] = client[s] /\ client[s].download_fd = None
      BY <2>3 DEF Live
    <3> QED BY <3>1 DEF Slots
  <2> QED BY <2>1, <2>2, <2>3
<1>5. \A s, t \in Live' : client'[s].download_fd = client'[t].download_fd => s = t
  <2>1. \A s \in Live \ F : client'[s].download_fd = client[s].download_fd
    BY DEF Live
  <2> QED BY <1>1, <2>1 DEF Slots
<1>6. Slots'
  BY <1>4, <1>5, Records DEF Slots, Up, SlotFits, TasksOf, Within, Startable
<1>7. Cardinality(Live') = Cardinality(Live) - Cardinality(F) /\ Cardinality(F) \in Nat
      /\ Cardinality(F) <= Cardinality(Live)
  <2>1. IsFiniteSet(F) /\ Cardinality(F) <= Cardinality(Live)
    BY SlotFacts, FS_Subset
  <2>2. Live \cap F = F
    OBVIOUS
  <2>3. Cardinality(Live \ F) = Cardinality(Live) - Cardinality(Live \cap F)
    BY <2>1, SlotFacts, FS_Difference
  <2> QED BY <1>1, <2>1, <2>2, <2>3, FS_CardinalityType
<1>8. \A i \in 1..Len(pipe) : pipe[i] \in Conn /\ Up(pipe[i])' /\ Held(pipe[i])' = {}
  <2> SUFFICES ASSUME NEW i \in 1..Len(pipe), NEW c, c = pipe[i]
               PROVE  c \in Conn /\ Up(c)' /\ Held(c)' = {}
    BY DEF Up, Held
  <2>1. c \in Conn
    BY DEF Types
  <2>2. Up(c) /\ Held(c) = {}
    BY DEF Pipes
  <2>3. \A s \in F : client[s].download_fd # c
    BY <2>2 DEF Held, Live
  <2> QED BY <1>2, <2>1, <2>2, <2>3
<1>9. busy_num' = Len(pipe) + Cardinality(Live') /\ busy_num' <= AVG_CLIENT_NUM /\ busy_num' \in Nat
  <2>1. Len(pipe) \in Nat /\ busy_num \in Nat
    BY DEF Types
  <2> QED BY <1>7, <2>1, SlotFacts, Constants DEF Pipes
<1>10. \A i, k \in 1..Len(pipe) : pipe[i] = pipe[k] => i = k
  BY DEF Pipes
<1>11. Pipes'
  BY <1>9, <1>10, <1>8 DEF Pipes, Up, Held
<1> QED BY <1>1, <1>2, <1>6, <1>9, <1>11

LEMMA TrainsSame ==
  ASSUME Types, Arriving, Serving, Awaited,
         UNCHANGED <<task, cfd, trains, requests, client>>,
         \A c \in Conn : Up(c)' => Up(c)
  PROVE  Arriving' /\ Serving' /\ Awaited'
<1>1. Active' = Active /\ \A c \in Conn : Held(c)' = Held(c)
  BY DEF Active, Held
<1>2. cfd # None => cfd \in Conn
  BY DEF Types
<1>3. Arriving'
  BY <1>1 DEF Arriving
<1>4. Serving'
  BY <1>1, <1>2 DEF Serving
<1>5. Awaited'
  <2> SUFFICES ASSUME cfd # None, Up(cfd)'
               PROVE  (\A i \in 1..Len(requests[cfd]) :
                         \E j \in Active : task[j] = requests[cfd][i] /\ Upto(trains[cfd], task[j], task[j].pos))'
    BY DEF Awaited
  <2>1. Up(cfd)
    BY <1>2 DEF Up
  <2>2. \A i \in 1..Len(requests[cfd]) :
          \E j \in Active : task[j] = requests[cfd][i] /\ Upto(trains[cfd], task[j], task[j].pos)
    BY <2>1 DEF Awaited
  <2> QED BY <1>1, <2>2
<1> QED BY <1>3, <1>4, <1>5

LEMMA AskedSame ==
  ASSUME Types, Asked, UNCHANGED <<requests, client>>, \A c \in Conn : Up(c)' => Up(c)
  PROVE  Asked'
<1> SUFFICES ASSUME NEW c \in Conn, Up(c)'
             PROVE  AskedOn(c)'
  BY DEF Asked
<1>1. AskedOn(c)
  BY DEF Asked
<1>2. Held(c)' = Held(c)
  BY DEF Held
<1> QED BY <1>1, <1>2 DEF AskedOn, Within, Startable

(* Nobody's slots change.                                                  *)
LEMMA SlotsSame ==
  ASSUME Types, Slots, Pipes, UNCHANGED <<client, pipe, busy_num>>,
         \A c \in Conn : Up(c) => Up(c)', Pipe \in evs' => pipe # <<>>
  PROVE  Slots' /\ Pipes'
<1>1. {} \in SUBSET Live /\ Cardinality({}) = 0
  BY FS_EmptySet
<1>2. client' \in [Slot -> SlotRecord] /\ busy_num - 0 = busy_num
  BY DEF Types
<1>3. \A s \in Live : SlotFits(client[s])
  BY DEF Live, Slots
<1>4. Slots' /\ Pipes' /\ busy_num' \in Nat
  BY <1>1, <1>2, <1>3, Freeing
<1> QED BY <1>4

(* A step of the server that only handles events.                          *)
LEMMA EventsOnly ==
  ASSUME DownloadInv, UNCHANGED <<clientVars, netVars, pipe, client, busy_num, up>>,
         evs' \subseteq Conn \cup {Pipe, Cin}, Pipe \in evs' => pipe # <<>>
  PROVE  DownloadInv'
<1> USE DEF DownloadInv, clientVars, netVars
<1>1. Types'
  BY DEF Types
<1>2. Tasks' /\ Files'
  BY TasksSame
<1>3. \A c \in Conn : Up(c)' <=> Up(c)
  BY DEF Up
<1>4. Sockets'
  BY DEF Sockets
<1>5. Slots' /\ Pipes'
  BY <1>3, SlotsSame
<1>6. Asked'
  BY <1>3, AskedSame
<1>7. Arriving' /\ Serving' /\ Awaited'
  BY <1>3, TrainsSame
<1> QED BY <1>1, <1>2, <1>4, <1>5, <1>6, <1>7

LEMMA EpollNext ==
  ASSUME DownloadInv, EpollWait
  PROVE  DownloadInv'
<1>0. Types
  BY DEF DownloadInv
<1>1. Sending \subseteq Conn
  BY <1>0, SlotFacts DEF Sending
<1>2. /\ UNCHANGED <<clientVars, netVars, pipe, client, busy_num, up>>
      /\ evs' = {c \in Sending : Writable(c)} \cup (IF pipe # <<>> THEN {Pipe} ELSE {})
                \cup (IF CinReady # {} THEN {Cin} ELSE {})
  BY DEF EpollWait
<1>3. evs' \subseteq Conn \cup {Pipe, Cin}
  BY <1>1, <1>2
<1>4. Pipe \notin Conn /\ Pipe # Cin
  BY Constants DEF Pipe, Cin
<1>5. Pipe \in evs' => pipe # <<>>
  BY <1>1, <1>2, <1>4
<1> QED BY <1>2, <1>3, <1>5, EventsOnly

LEMMA DropNext ==
  ASSUME DownloadInv, NEW c \in Conn, DropEvent(c)
  PROVE  DownloadInv'
<1>1. /\ UNCHANGED <<clientVars, netVars, pipe, client, busy_num, up>>
      /\ evs' = evs \ {c}
  BY DEF DropEvent
<1>2. evs \subseteq Conn \cup {Pipe, Cin} /\ (Pipe \in evs => pipe # <<>>)
  BY DEF DownloadInv, Types, Pipes
<1> QED BY <1>1, <1>2, EventsOnly

LEMMA ResetNext ==
  ASSUME DownloadInv, NEW c \in Conn, ResetArrives(c)
  PROVE  DownloadInv'
<1> USE DEF DownloadInv
<1>1. UNCHANGED <<clientVars, requests, trains, serverVars>>
  BY DEF ResetArrives
<1>2. "epipe" \in States /\ "stale" \in States
  BY DEF States
<1>3. /\ csock' \in [Conn -> States] /\ ssock' \in [Conn -> States]
      /\ \A e \in Conn : csock'[e] = csock[e] \/ (csock[e] = "stale" /\ csock'[e] = "epipe")
      /\ \A e \in Conn : ssock'[e] = ssock[e] \/ (ssock[e] = "stale" /\ ssock'[e] = "epipe")
  <2>1. CASE csock[c] = "stale" /\ csock' = [csock EXCEPT ![c] = "epipe"] /\ UNCHANGED ssock
    <3>1. csock \in [Conn -> States] /\ ssock \in [Conn -> States]
      BY DEF Types
    <3>2. csock' \in [Conn -> States]
      BY <1>2, <2>1, <3>1
    <3>3. csock'[c] = "epipe" /\ \A e \in Conn : e # c => csock'[e] = csock[e]
      BY <2>1, <3>1
    <3> QED BY <2>1, <3>1, <3>2, <3>3
  <2>2. CASE ssock[c] = "stale" /\ ssock' = [ssock EXCEPT ![c] = "epipe"] /\ UNCHANGED csock
    <3>1. ssock \in [Conn -> States] /\ csock \in [Conn -> States]
      BY DEF Types
    <3>2. ssock' \in [Conn -> States]
      BY <1>2, <2>2, <3>1
    <3>3. ssock'[c] = "epipe" /\ \A e \in Conn : e # c => ssock'[e] = ssock[e]
      BY <2>2, <3>1
    <3> QED BY <2>2, <3>1, <3>2, <3>3
  <2> QED BY <2>1, <2>2 DEF ResetArrives
<1>4. Types'
  BY <1>1, <1>3 DEF Types, clientVars, serverVars
<1>5. Tasks' /\ Files'
  BY <1>1, TasksSame DEF clientVars
<1>6. \A e \in Conn : Up(e)' <=> Up(e)
  BY <1>3 DEF Up
<1>7. Sockets'
  <2>1. cfd # None => cfd \in Conn
    BY DEF Types
  <2> QED BY <1>1, <1>3, <2>1 DEF Sockets, clientVars
<1>8. Slots' /\ Pipes'
  <2>1. Pipe \in evs' => pipe # <<>>
    BY <1>1 DEF Pipes, serverVars
  <2> QED BY <1>1, <1>6, <2>1, SlotsSame DEF serverVars
<1>9. Asked'
  BY <1>1, <1>6, AskedSame DEF serverVars
<1>10. Arriving' /\ Serving' /\ Awaited'
  BY <1>1, <1>6, TrainsSame DEF clientVars, serverVars
<1> QED BY <1>4, <1>5, <1>7, <1>8, <1>9, <1>10

(* The client's connection is closed by the client.                        *)
LEMMA ClosingNext ==
  ASSUME DownloadInv, cfd # None, NEW rest, CloseConn(rest), UNCHANGED serverVars,
         Tasks', Files', task' \in [Index -> TaskRecord], task_num' \in Nat, local' = local
  PROVE  DownloadInv'
<1> USE DEF DownloadInv
<1>1. /\ csock' \in [Conn -> States] /\ ssock' \in [Conn -> States]
      /\ trains' \in [Conn -> Seq(TrainRecord)]
      /\ cfd' = None /\ requests' = requests
      /\ \A c \in Conn : Up(c)' <=> Up(c)
      /\ Sockets'
  BY ClientCloses
<1>2. Types'
  BY <1>1 DEF Types, serverVars
<1>3. Slots' /\ Pipes'
  <2>1. Pipe \in evs' => pipe # <<>>
    BY DEF Pipes, serverVars
  <2> QED BY <1>1, <2>1, SlotsSame DEF serverVars
<1>4. Asked'
  BY <1>1, AskedSame DEF serverVars
<1>5. Arriving' /\ Serving' /\ Awaited'
  BY <1>1 DEF Arriving, Serving, Awaited
<1> QED BY <1>1, <1>2, <1>3, <1>4, <1>5

LEMMA ExitNext ==
  ASSUME DownloadInv, cfd # None, Exit
  PROVE  DownloadInv'
<1>1. /\ task' = [j \in 1..TaskMax |-> NoTask] /\ task_num' = 0 /\ CloseConn(trains[cfd])
      /\ local' = local /\ UNCHANGED serverVars
  BY DEF Exit
<1>2. cfd' = None
  BY <1>1 DEF CloseConn
<1>3. Tasks' /\ Files' /\ task' \in [Index -> TaskRecord] /\ task_num' \in Nat
  BY <1>1, <1>2, TasksExit DEF DownloadInv
<1> QED BY <1>1, <1>3, ClosingNext

-----------------------------------------------------------------------------
(* The client takes a train *)

(* What is left when the first train is taken, for a task that is at t     *)
(* before and at v after it.                                               *)
LEMMA TailUpto ==
  ASSUME NEW q \in Seq(TrainRecord), q # <<>>, NEW t \in TaskRecord, NEW v \in TaskRecord,
         v.fd = t.fd, v.file = t.file, t.pos <= v.pos, NEW p \in Nat, Upto(q, t, p),
         \A n \in v.pos + 1..p : q[1] # Train(t, Block(t.file, n))
  PROVE  Upto(Tail(q), v, p)
<1>1. /\ Len(Tail(q)) = Len(q) - 1 /\ Len(q) \in Nat
      /\ \A i \in 1..Len(q) - 1 : Tail(q)[i] = q[i + 1]
  BY Popping
<1>2. t.pos \in Nat /\ v.pos \in Nat
  BY DEF TaskRecord
<1> DEFINE r == Tail(q)
<1> HIDE DEF r
<1>3. \A i \in 1..Len(r) : r[i].ctl_code = v.fd => r[i].block # None /\ r[i].block[2] <= p
  <2> SUFFICES ASSUME NEW i \in 1..Len(r), r[i].ctl_code = v.fd
               PROVE  r[i].block # None /\ r[i].block[2] <= p
    OBVIOUS
  <2>1. r[i] = q[i + 1] /\ i + 1 \in 1..Len(q)
    BY <1>1 DEF r
  <2> QED BY <2>1 DEF Upto
<1>4. \A n \in v.pos + 1..p : \E i \in 1..Len(r) : r[i] = Train(v, Block(v.file, n))
  <2> SUFFICES ASSUME NEW n \in v.pos + 1..p
               PROVE  \E i \in 1..Len(r) : r[i] = Train(v, Block(v.file, n))
    OBVIOUS
  <2>1. n \in t.pos + 1..p
    BY <1>2
  <2>2. PICK i \in 1..Len(q) : q[i] = Train(t, Block(t.file, n))
    BY <2>1 DEF Upto
  <2>3. i # 1
    BY <2>2
  <2>4. i - 1 \in 1..Len(r) /\ r[i - 1] = q[i]
    <3>1. i - 1 \in 1..Len(q) - 1 /\ (i - 1) + 1 = i
      BY <1>1, <2>3
    <3> QED BY <1>1, <3>1 DEF r
  <2>5. Train(v, Block(v.file, n)) = Train(t, Block(t.file, n))
    BY DEF Train
  <2> QED BY <2>2, <2>4, <2>5
<1> QED BY <1>3, <1>4 DEF Upto, r

LEMMA TailGoes ==
  ASSUME NEW q \in Seq(TrainRecord), q # <<>>, NEW t \in TaskRecord, NEW v \in TaskRecord,
         v.fd = t.fd, v.file = t.file, t.pos <= v.pos, NEW i \in 1..Len(q) - 1, Goes(q, i + 1, t),
         \A n \in v.pos + 1..Size[v.file] : q[1] # Train(t, Block(t.file, n)),
         \A n \in t.pos + 1..v.pos : q[i + 1].block # Block(t.file, n)
  PROVE  Goes(Tail(q), i, v)
<1>1. /\ Len(Tail(q)) = Len(q) - 1 /\ Len(q) \in Nat
      /\ \A k \in 1..Len(q) - 1 : Tail(q)[k] = q[k + 1]
  BY Popping
<1>2. t.pos \in Nat /\ v.pos \in Nat
  BY DEF TaskRecord
<1> DEFINE r == Tail(q)
<1> HIDE DEF r
<1>3. r[i] = q[i + 1] /\ r[i].ctl_code = v.fd
  BY <1>1 DEF r, Goes
<1>4. r[i].block # None => \E n \in v.pos + 1..Size[v.file] : r[i].block = Block(v.file, n)
  <2> SUFFICES ASSUME r[i].block # None
               PROVE  \E n \in v.pos + 1..Size[v.file] : r[i].block = Block(v.file, n)
    OBVIOUS
  <2>1. PICK n \in t.pos + 1..Size[t.file] : q[i + 1].block = Block(t.file, n)
    BY <1>3 DEF Goes
  <2>2. n \in v.pos + 1..Size[v.file]
    BY <1>2, <2>1
  <2> QED BY <1>3, <2>1, <2>2
<1>5. \A n \in v.pos + 1..Size[v.file] :
        r[i].block = None \/ n < r[i].block[2] => \E k \in 1..i - 1 : r[k] = Train(v, Block(v.file, n))
  <2> SUFFICES ASSUME NEW n \in v.pos + 1..Size[v.file], r[i].block = None \/ n < r[i].block[2]
               PROVE  \E k \in 1..i - 1 : r[k] = Train(v, Block(v.file, n))
    OBVIOUS
  <2>1. n \in t.pos + 1..Size[t.file]
    BY <1>2
  <2>2. PICK k \in 1..(i + 1) - 1 : q[k] = Train(t, Block(t.file, n))
    BY <1>3, <2>1 DEF Goes
  <2>3. k # 1
    BY <2>2
  <2>4. k - 1 \in 1..i - 1 /\ r[k - 1] = q[k]
    <3>1. k - 1 \in 1..i - 1 /\ k - 1 \in 1..Len(q) - 1 /\ (k - 1) + 1 = k
      BY <1>1, <2>3
    <3> QED BY <1>1, <3>1 DEF r
  <2>5. Train(v, Block(v.file, n)) = Train(t, Block(t.file, n))
    BY DEF Train
  <2> QED BY <2>2, <2>4, <2>5
<1> QED BY <1>3, <1>4, <1>5 DEF Goes, r

LEMMA TailOrdered ==
  ASSUME NEW q \in Seq(TrainRecord), q # <<>>, Ordered(q)
  PROVE  Ordered(Tail(q))
<1>1. /\ Len(Tail(q)) = Len(q) - 1 /\ Len(q) \in Nat
      /\ \A k \in 1..Len(q) - 1 : Tail(q)[k] = q[k + 1]
  BY Popping
<1> SUFFICES ASSUME NEW i \in 1..Len(q) - 1, NEW k \in 1..Len(q) - 1, i < k,
                    Tail(q)[i].ctl_code = Tail(q)[k].ctl_code
             PROVE  Tail(q)[i].block # None /\ Tail(q)[i].block # Tail(q)[k].block
  BY <1>1 DEF Ordered
<1>2. i + 1 \in 1..Len(q) /\ k + 1 \in 1..Len(q) /\ i + 1 < k + 1
  BY <1>1
<1> QED BY <1>1, <1>2 DEF Ordered

(* The first train is of task j: an end, or the slice before v.            *)
LEMMA TailNext ==
  ASSUME Types, Tasks, Arriving, Serving, Awaited, Sockets, cfd # None, trains[cfd] # <<>>,
         NEW j \in Active, NEW After \in [Index -> TaskRecord], NEW r, r = Tail(trains[cfd]),
         \A k \in Index : k # j => After[k] = task[k],
         \/ trains[cfd][1] = End(task[j])
         \/ /\ trains[cfd][1] = Train(task[j], Block(task[j].file, task[j].pos + 1))
            /\ After[j].fd = task[j].fd /\ After[j].file = task[j].file
            /\ After[j].pos = task[j].pos + 1,
         NEW Stays, Stays = {k \in Active : k # j \/ trains[cfd][1].block # None}
  PROVE  /\ r \in Seq(TrainRecord) /\ Ordered(r)
         /\ \A i \in 1..Len(r) : \E k \in Stays : Goes(r, i, After[k])
         /\ \A s \in Held(cfd) : \A l \in TasksOf(client[s]) :
              \E k \in Stays : Ahead(r, After[k], client[s].cdinfo[l])
         /\ Up(cfd) =>
              \A i \in 1..Len(requests[cfd]) :
                \E k \in Stays : After[k] = requests[cfd][i] /\ Upto(r, After[k], After[k].pos)
<1> DEFINE q == trains[cfd]
           v == After[j]
<1>1. cfd \in Conn /\ q \in Seq(TrainRecord) /\ q # <<>>
  BY DEF Types
<1>1a. r = Tail(q)
  OBVIOUS
<1>2. /\ Len(r) = Len(q) - 1 /\ Len(q) \in Nat /\ r \in Seq(TrainRecord) /\ 1 \in 1..Len(q)
      /\ \A k \in 1..Len(q) - 1 : r[k] = q[k + 1]
  BY <1>1, <1>1a, Popping
<1>3. /\ q[1].ctl_code = task[j].fd
      /\ q[1].block = None \/ /\ q[1] = Train(task[j], Block(task[j].file, task[j].pos + 1))
                              /\ q[1].block = Block(task[j].file, task[j].pos + 1)
                              /\ v \in TaskRecord /\ v.fd = task[j].fd /\ v.file = task[j].file
                              /\ v.pos = task[j].pos + 1
  BY DEF End, Train, Active
<1>4. \A k \in Active : /\ k \in Index /\ task[k] \in TaskRecord /\ task[k].fd # 0 /\ task[k].file \in File
                        /\ task[k].pos \in Nat /\ Size[task[k].file] \in Nat
                        /\ task[k].fd = task[j].fd => k = j
  <2> SUFFICES ASSUME NEW k \in Active
               PROVE  /\ k \in Index /\ task[k] \in TaskRecord /\ task[k].fd # 0 /\ task[k].file \in File
                      /\ task[k].pos \in Nat /\ Size[task[k].file] \in Nat
                      /\ task[k].fd = task[j].fd => k = j
    OBVIOUS
  <2>1. k \in Index /\ task[k].fd # 0
    BY DEF Active
  <2>2. task[k].file \in File
    BY <2>1 DEF Tasks, Within
  <2> QED BY <2>1, <2>2, TaskFacts, Constants DEF Tasks
<1>5. Ordered(q) /\ \A i \in 1..Len(q) : \E k \in Active : Goes(q, i, task[k])
  BY DEF Arriving
<1>6. Ordered(r)
  BY <1>1, <1>1a, <1>5, TailOrdered
<1>7. q[1].block # None => Block(task[j].file, task[j].pos + 1)[2] = task[j].pos + 1
  BY <1>4, Blocks_
<1> HIDE DEF q, v
<1>7a. \A k \in Active : k # j => After[k] = task[k]
  BY <1>4
<1>8. \A i \in 1..Len(r) : \E k \in Stays : Goes(r, i, After[k])
  <2> SUFFICES ASSUME NEW i \in 1..Len(q) - 1
               PROVE  \E k \in Stays : Goes(r, i, After[k])
    BY <1>2
  <2>1. i + 1 \in 1..Len(q) /\ 1 < i + 1
    BY <1>2
  <2>2. PICK k \in Active : Goes(q, i + 1, task[k])
    BY <1>5, <2>1
  <2>3. q[i + 1].ctl_code = task[k].fd
    BY <2>2 DEF Goes
  <2>4. CASE k # j
    <3>1. q[1].ctl_code # task[k].fd
      BY <1>3, <1>4, <2>4
    <3>2. \A n : q[1] # Train(task[k], Block(task[k].file, n))
      BY <3>1 DEF Train
    <3>3. Goes(Tail(q), i, task[k])
      <4>1. PICK t \in TaskRecord : t = task[k] /\ t.pos \in Nat
        BY <1>4
      <4>2. Goes(q, i + 1, t) /\ t.pos <= t.pos
        BY <2>2, <4>1
      <4>3. \A n : q[1] # Train(t, Block(t.file, n))
        BY <3>2, <4>1
      <4>4. \A n \in t.pos + 1..t.pos : q[i + 1].block # Block(t.file, n)
        BY <4>1
      <4> QED BY <1>1, <4>1, <4>2, <4>3, <4>4, TailGoes
    <3> QED BY <1>1a, <1>7a, <2>4, <3>3
  <2>5. CASE k = j
    <3>1. q[1].block # None /\ q[1].block # q[i + 1].block
      BY <1>2, <1>3, <1>5, <2>1, <2>3, <2>5 DEF Ordered
    <3>2. v \in TaskRecord /\ v.fd = task[j].fd /\ v.file = task[j].file /\ v.pos = task[j].pos + 1
      BY <1>3, <3>1
    <3>3. \A n \in v.pos + 1..Size[v.file] : q[1] # Train(task[j], Block(task[j].file, n))
      <4> SUFFICES ASSUME NEW n \in v.pos + 1..Size[v.file], q[1] = Train(task[j], Block(task[j].file, n))
                   PROVE  FALSE
        OBVIOUS
      <4>1. q[1].block = Block(task[j].file, n) /\ n \in Nat
        BY <1>4, <3>2 DEF Train
      <4>2. Block(task[j].file, n)[2] = n
        BY <1>4, <4>1, Blocks_
      <4>3. n = task[j].pos + 1
        BY <1>3, <1>7, <3>1, <4>1, <4>2
      <4> QED BY <1>4, <3>2, <4>3
    <3>4. \A n \in task[j].pos + 1..v.pos : q[i + 1].block # Block(task[j].file, n)
      <4> SUFFICES ASSUME NEW n \in task[j].pos + 1..v.pos
                   PROVE  q[i + 1].block # Block(task[j].file, n)
        OBVIOUS
      <4>1. n = task[j].pos + 1
        BY <1>4, <3>2
      <4> QED BY <1>3, <3>1, <4>1
    <3>5. Goes(Tail(q), i, v)
      <4>1. PICK t \in TaskRecord : t = task[j]
        BY <1>4
      <4>2. Goes(q, i + 1, t) /\ v.fd = t.fd /\ v.file = t.file /\ t.pos <= v.pos
        BY <1>4, <2>2, <2>5, <3>2, <4>1
      <4>3. \A n \in v.pos + 1..Size[v.file] : q[1] # Train(t, Block(t.file, n))
        BY <3>3, <4>1
      <4>4. \A n \in t.pos + 1..v.pos : q[i + 1].block # Block(t.file, n)
        BY <3>4, <4>1
      <4> QED BY <1>1, <3>2, <4>2, <4>3, <4>4, TailGoes
    <3> QED BY <1>1a, <2>5, <3>1, <3>5 DEF q, v
  <2> QED BY <2>4, <2>5
<1>9. ASSUME NEW k \in Active, NEW p \in Nat, Upto(q, task[k], p), task[k].pos <= p
      PROVE  /\ k \in Stays /\ After[k].fd = task[k].fd /\ After[k].file = task[k].file
             /\ After[k].pos <= p /\ Upto(r, After[k], p)
             /\ k = j => task[k].pos < p
  <2>1. CASE k # j
    <3>1. q[1].ctl_code # task[k].fd
      BY <1>3, <1>4, <2>1
    <3>2. \A n : q[1] # Train(task[k], Block(task[k].file, n))
      BY <3>1 DEF Train
    <3>3. Upto(Tail(q), task[k], p)
      BY <1>1, <1>4, <1>9, <3>2, TailUpto
    <3> QED BY <1>1a, <1>7a, <1>9, <2>1, <3>3 DEF q
  <2>2. CASE k = j
    <3>1. q[1].block # None /\ q[1].block[2] <= p
      BY <1>2, <1>3, <1>9, <2>2 DEF Upto
    <3>2. v \in TaskRecord /\ v.fd = task[j].fd /\ v.file = task[j].file /\ v.pos = task[j].pos + 1
          /\ q[1].block[2] = task[j].pos + 1
      BY <1>3, <1>7, <3>1
    <3>3. \A n \in v.pos + 1..p : q[1] # Train(task[j], Block(task[j].file, n))
      <4> SUFFICES ASSUME NEW n \in v.pos + 1..p, q[1] = Train(task[j], Block(task[j].file, n))
                   PROVE  FALSE
        OBVIOUS
      <4>1. q[1].block = Block(task[j].file, n) /\ n \in Nat
        BY <1>4, <3>2 DEF Train
      <4>2. Block(task[j].file, n)[2] = n
        BY <1>4, <4>1, Blocks_
      <4>3. n = task[j].pos + 1
        BY <3>2, <4>1, <4>2
      <4> QED BY <1>4, <3>2, <4>3
    <3>4. Upto(Tail(q), v, p)
      BY <1>1, <1>4, <1>9, <2>2, <3>2, <3>3, TailUpto
    <3>5. v.pos <= p /\ task[j].pos < p
      BY <1>4, <3>1, <3>2
    <3> QED BY <1>1a, <2>2, <3>1, <3>2, <3>4, <3>5 DEF q, v
  <2> QED BY <2>1, <2>2
<1>10. \A s \in Held(cfd) : \A l \in TasksOf(client[s]) :
         \E k \in Stays : Ahead(r, After[k], client[s].cdinfo[l])
  <2> SUFFICES ASSUME NEW s \in Held(cfd), NEW l \in TasksOf(client[s]), NEW u, u = client[s].cdinfo[l]
               PROVE  \E k \in Stays : Ahead(r, After[k], u)
    OBVIOUS
  <2>1. PICK k \in Active : Ahead(q, task[k], u)
    BY DEF Serving, q
  <2>2. u.pos \in Nat
    <3>1. client[s] \in SlotRecord /\ l \in Index
      BY <1>1, SlotFacts DEF TasksOf
    <3> QED BY <3>1 DEF SlotRecord, TaskRecord
  <2>3. /\ k \in Stays /\ After[k].fd = task[k].fd /\ After[k].file = task[k].file
        /\ After[k].pos <= u.pos /\ Upto(r, After[k], u.pos)
    BY <1>9, <2>1, <2>2 DEF Ahead
  <2> HIDE DEF q
  <2> QED BY <2>1, <2>3 DEF Ahead
<1>11. Up(cfd) => \A i \in 1..Len(requests[cfd]) :
         \E k \in Stays : After[k] = requests[cfd][i] /\ Upto(r, After[k], After[k].pos)
  <2> SUFFICES ASSUME Up(cfd), NEW i \in 1..Len(requests[cfd])
               PROVE  \E k \in Stays : After[k] = requests[cfd][i] /\ Upto(r, After[k], After[k].pos)
    OBVIOUS
  <2>1. PICK k \in Active : task[k] = requests[cfd][i] /\ Upto(q, task[k], task[k].pos)
    BY DEF Awaited, q
  <2>2. task[k].pos \in Nat /\ task[k].pos <= task[k].pos
    BY <1>4
  <2>3. /\ k \in Stays /\ Upto(r, After[k], task[k].pos)
        /\ k = j => task[k].pos < task[k].pos
    BY <1>9, <2>1, <2>2
  <2> QED BY <1>7a, <2>1, <2>2, <2>3
<1> QED BY <1>2, <1>6, <1>8, <1>10, <1>11 DEF q

(* A train is taken, nothing else moves on the wire.                       *)
LEMMA TakenNext ==
  ASSUME DownloadInv, cfd # None, trains[cfd] # <<>>, NEW j \in Active,
         \/ trains[cfd][1] = End(task[j]) /\ Active' = Active \ {j}
         \/ /\ trains[cfd][1] = Train(task[j], Block(task[j].file, task[j].pos + 1))
            /\ Active' = Active /\ task[j].file \in File /\ task[j].pos \in Nat
            /\ task'[j].fd = task[j].fd /\ task'[j].file = task[j].file
            /\ task'[j].pos = task[j].pos + 1,
         \A k \in Index : k # j => task'[k] = task[k],
         trains' = [trains EXCEPT ![cfd] = Tail(@)],
         UNCHANGED <<cfd, csock, ssock, requests, serverVars>>,
         Tasks', Files', task' \in [Index -> TaskRecord], task_num' \in Nat,
         local' \in [File -> Seq(Blocks)]
  PROVE  DownloadInv'
<1> USE DEF DownloadInv
<1> DEFINE r == Tail(trains[cfd])
           Stays == {k \in Active : k # j \/ trains[cfd][1].block # None}
<1>0. cfd \in Conn /\ cfd' = cfd /\ Active \subseteq Index
  BY DEF Types, Active
<1>1. /\ r \in Seq(TrainRecord) /\ Ordered(r)
      /\ \A i \in 1..Len(r) : \E k \in Stays : Goes(r, i, task'[k])
      /\ \A s \in Held(cfd) : \A l \in TasksOf(client[s]) :
           \E k \in Stays : Ahead(r, task'[k], client[s].cdinfo[l])
      /\ Up(cfd) =>
           \A i \in 1..Len(requests[cfd]) :
             \E k \in Stays : task'[k] = requests[cfd][i] /\ Upto(r, task'[k], task'[k].pos)
  BY TailNext
<1>2. Active' = Stays
  <2>1. CASE trains[cfd][1] = End(task[j])
    <3>1. trains[cfd][1].block = None
      BY <2>1 DEF End, Train
    <3>2. Active' = Active \ {j}
      <4>1. CASE trains[cfd][1] = Train(task[j], Block(task[j].file, task[j].pos + 1))
                 /\ task[j].file \in File /\ task[j].pos \in Nat
        <5>1. trains[cfd][1].block = Block(task[j].file, task[j].pos + 1)
          BY <4>1 DEF Train
        <5>2. task[j].pos + 1 \in Nat
          BY <4>1
        <5> QED BY <3>1, <4>1, <5>1, <5>2, Blocks_
      <4> QED BY <4>1
    <3> QED BY <3>1, <3>2
  <2>2. CASE /\ trains[cfd][1] = Train(task[j], Block(task[j].file, task[j].pos + 1))
             /\ Active' = Active /\ task[j].file \in File /\ task[j].pos \in Nat
    <3>1. trains[cfd][1].block = Block(task[j].file, task[j].pos + 1) /\ task[j].pos + 1 \in Nat
      BY <2>2 DEF Train
    <3>2. trains[cfd][1].block # None
      BY <2>2, <3>1, Blocks_
    <3> QED BY <2>2, <3>2
  <2> QED BY <2>1, <2>2
<1>4. /\ trains' \in [Conn -> Seq(TrainRecord)] /\ trains'[cfd] = r
      /\ \A c \in Conn : c # cfd => trains'[c] = trains[c]
  BY <1>0, <1>1 DEF Types
<1>5. Types'
  BY <1>4 DEF Types, serverVars
<1>6. Sockets'
  BY <1>0, <1>4 DEF Sockets
<1>7. \A c \in Conn : Up(c)' <=> Up(c)
  BY DEF Up
<1>8. Slots' /\ Pipes'
  <2>1. Pipe \in evs' => pipe # <<>>
    BY DEF Pipes, serverVars
  <2> QED BY <1>7, <2>1, SlotsSame DEF serverVars
<1>9. Asked'
  BY <1>7, AskedSame DEF serverVars
<1> HIDE DEF r, Stays
<1>11. Arriving'
  <2>1. \A i \in 1..Len(r) : \E k \in Active' : Goes(r, i, task'[k])
    BY <1>1, <1>2
  <2> QED BY <1>0, <1>1, <1>4, <2>1 DEF Arriving
<1>12. Serving'
  <2>1. \A s \in Held(cfd) : \A l \in TasksOf(client[s]) :
          \E k \in Active' : Ahead(r, task'[k], client[s].cdinfo[l])
    BY <1>1, <1>2
  <2>2. Held(cfd)' = Held(cfd) /\ client' = client
    BY DEF Held, serverVars
  <2> QED BY <1>0, <1>4, <2>1, <2>2 DEF Serving
<1>13. Awaited'
  <2>1. Up(cfd) => \A i \in 1..Len(requests[cfd]) :
          \E k \in Active' : task'[k] = requests[cfd][i] /\ Upto(r, task'[k], task'[k].pos)
    BY <1>1, <1>2
  <2>2. Up(cfd)' <=> Up(cfd)
    BY DEF Up
  <2>3. Up(cfd) => \A i \in 1..Len(requests'[cfd']) : \E k \in Active' :
          task'[k] = requests'[cfd'][i] /\ Upto(trains'[cfd'], task'[k], task'[k].pos)
    <3>1. trains'[cfd'] = r /\ requests'[cfd'] = requests[cfd]
      BY <1>0, <1>4
    <3> QED BY <2>1, <3>1
  <2> QED BY <2>2, <2>3 DEF Awaited
<1> QED BY <1>5, <1>6, <1>8, <1>9, <1>11, <1>12, <1>13

LEMMA ReadDataNext ==
  ASSUME DownloadInv, ReadData
  PROVE  DownloadInv'
<1> USE DEF DownloadInv
<1>1. PICK j \in Index : Receiving(j)
  BY ReceivingData
<1>2. UNCHANGED <<task_num, cfd, csock, ssock, requests, serverVars>>
  BY DEF ReadData
<1>3. /\ Tasks' /\ Active' = Active
      /\ task[j].file \in File /\ task[j].pos \in Nat
      /\ task'[j].fd = task[j].fd /\ task'[j].file = task[j].file
      /\ task'[j].pos = task[j].pos + 1
  BY <1>1, <1>2, TasksReceive
<1>4. Files' /\ local' \in [File -> Seq(Blocks)]
  BY <1>1, <1>2, FilesReceive
<1>5. /\ cfd # None /\ trains[cfd] # <<>> /\ j \in Active
      /\ trains[cfd][1] = Train(task[j], Block(task[j].file, task[j].pos + 1))
      /\ \A i \in Index : i # j => task'[i] = task[i]
      /\ task' \in [Index -> TaskRecord]
      /\ trains' = [trains EXCEPT ![cfd] = Tail(@)]
  BY <1>1 DEF Receiving
<1>6. task_num' \in Nat
  BY <1>2 DEF Types
<1>7. DownloadInv
  OBVIOUS
<1> QED BY <1>2, <1>3, <1>4, <1>5, <1>6, <1>7, TakenNext

LEMMA ReadEndNext ==
  ASSUME DownloadInv, ReadEnd
  PROVE  DownloadInv'
<1> USE DEF DownloadInv
<1>0. DownloadInv
  OBVIOUS
<1>1. PICK j \in Index : Ending(j)
  BY EndingTask
<1>2. /\ local' = local /\ UNCHANGED serverVars
      /\ task_num = 1 => CloseConn(Tail(trains[cfd]))
      /\ task_num # 1 => /\ trains' = [trains EXCEPT ![cfd] = Tail(@)]
                         /\ UNCHANGED <<cfd, csock, ssock, requests>>
  BY DEF ReadEnd
<1>3. cfd' = IF task_num = 1 THEN None ELSE cfd
  BY <1>2 DEF CloseConn
<1>4. /\ Tasks' /\ Files' /\ Active' = Active \ {j} /\ task_num' \in Nat
      /\ task' \in [Index -> TaskRecord]
  BY <1>1, <1>2, <1>3, TasksEnd
<1>5. /\ cfd # None /\ trains[cfd] # <<>> /\ j \in Active /\ trains[cfd][1] = End(task[j])
      /\ \A i \in Index : i # j => task'[i] = task[i]
  BY <1>1 DEF Ending, Types
<1>6. local' \in [File -> Seq(Blocks)]
  BY <1>2 DEF Types
<1>7. CASE task_num = 1
  BY <1>0, <1>2, <1>4, <1>5, <1>7, ClosingNext
<1>8. CASE task_num # 1
  BY <1>0, <1>2, <1>4, <1>5, <1>6, <1>8, TakenNext
<1> QED BY <1>7, <1>8

-----------------------------------------------------------------------------
(* The client asks for a file *)

LEMMA SendOnIs ==
  ASSUME NEW sock \in States
  PROVE  /\ SendOn(sock) \in States
         /\ SendOn(sock) = "new" <=> sock = "new"
         /\ SendOn(sock) = "closed" <=> sock = "closed"
         /\ sock # "fin" => SendOn(sock) = sock
BY DEF SendOn, States

LEMMA GettingStarts ==
  ASSUME Once, Types, Files, NEW c, NEW f, NEW d, NEW j, NEW t, Getting(c, f, d, j, t)
  PROVE  /\ t \in Question /\ t \in TaskRecord /\ t.fd = d /\ t.file = f /\ f \in File
         /\ t.pos = StartAt(f) /\ t.pos \in Nat /\ Within(t) /\ Startable(t)
<1>1. /\ t \in Question /\ t \in TaskRecord /\ t.fd = d /\ t.file = f /\ f \in File
      /\ t.pos = StartAt(f) /\ t.pos \in Nat
  BY Records DEF Getting, Question
<1>2. StartAt(f) \in 0..Size[f] /\ (f \in Mapped => StartAt(f) < Size[f])
  BY Opening DEF Getting, Files
<1> QED BY <1>1, <1>2, Constants DEF Within, Startable

(* One more request is on the wire, or reached a closed socket.            *)
LEMMA AskedMore ==
  ASSUME Types, Asked, NEW c \in Conn, NEW t \in Question, Within(t), Startable(t),
         requests' = [requests EXCEPT ![c] =
                        IF ssock[c] \in {"open", "new"} THEN Append(@, t) ELSE @],
         Up(c) => /\ \A i \in 1..Len(requests[c]) : requests[c][i].fd # t.fd
                  /\ \A s \in Held(c) : \A k \in Index : client[s].cdinfo[k].fd # t.fd,
         ~Up(c) /\ Up(c)' => requests[c] = <<>> /\ Held(c) = {},
         \A e \in Conn : e # c => (Up(e)' => Up(e)), client' = client
  PROVE  Asked' /\ requests' \in [Conn -> Seq(Question)]
<1>1. requests[c] \in Seq(Question) /\ requests \in [Conn -> Seq(Question)]
  BY DEF Types
<1> DEFINE q == Append(requests[c], t)
<1>2. /\ q \in Seq(Question) /\ Len(q) = Len(requests[c]) + 1
      /\ \A i \in 1..Len(requests[c]) : q[i] = requests[c][i]
      /\ q[Len(requests[c]) + 1] = t /\ Len(requests[c]) \in Nat
  BY <1>1, Appending
<1>3. /\ requests' \in [Conn -> Seq(Question)]
      /\ requests'[c] = IF ssock[c] \in {"open", "new"} THEN q ELSE requests[c]
      /\ \A e \in Conn : e # c => requests'[e] = requests[e]
  BY <1>1, <1>2
<1> HIDE DEF q
<1>4. \A i \in 1..Len(q) : i \in 1..Len(requests[c]) \/ i = Len(requests[c]) + 1
  BY <1>2
<1>5. ASSUME NEW e \in Conn, Up(e)'
      PROVE  AskedOn(e)'
  <2>1. Held(e)' = Held(e)
    BY DEF Held
  <2>2. CASE e # c
    <3>1. AskedOn(e)
      BY <1>5, <2>2 DEF Asked
    <3> QED BY <1>3, <2>1, <2>2, <3>1 DEF AskedOn
  <2>3. CASE e = c /\ Up(c)
    <3>1. AskedOn(c)
      BY <2>3 DEF Asked
    <3>2. CASE requests'[c] = requests[c]
      BY <2>1, <2>3, <3>1, <3>2 DEF AskedOn
    <3>3. CASE requests'[c] = q
      <4>1. \A i \in 1..Len(q) : Within(q[i]) /\ Startable(q[i])
        BY <1>2, <1>4, <3>1 DEF AskedOn
      <4>2. \A i, k \in 1..Len(q) : q[i].fd = q[k].fd => i = k
        BY <1>2, <1>4, <2>3, <3>1 DEF AskedOn
      <4>3. \A s \in Held(c), i \in 1..Len(q), k \in Index : client[s].cdinfo[k].fd # q[i].fd
        BY <1>2, <1>4, <2>3, <3>1 DEF AskedOn
      <4>4. requests'[e] = q /\ Held(e)' = Held(c)
        BY <2>1, <2>3, <3>3
      <4>5. \A i \in 1..Len(requests'[e]) : Within(requests'[e][i]) /\ Startable(requests'[e][i])
        BY <4>1, <4>4
      <4>6. \A i, k \in 1..Len(requests'[e]) : requests'[e][i].fd = requests'[e][k].fd => i = k
        BY <4>2, <4>4
      <4>7. \A s \in Held(e)', i \in 1..Len(requests'[e]), k \in Index :
              client'[s].cdinfo[k].fd # requests'[e][i].fd
        BY <4>3, <4>4
      <4> QED BY <4>5, <4>6, <4>7 DEF AskedOn
    <3> QED BY <1>3, <3>2, <3>3
  <2>4. CASE e = c /\ ~Up(c)
    <3>1. requests[c] = <<>> /\ Held(c) = {}
      BY <1>5, <2>4
    <3>2. Len(requests[c]) = 0
      BY <3>1
    <3>3. CASE requests'[c] = requests[c]
      BY <2>1, <2>4, <3>1, <3>2, <3>3 DEF AskedOn
    <3>4. CASE requests'[c] = q
      <4>1. \A i \in 1..Len(q) : q[i] = t /\ i = 1
        BY <1>2, <1>4, <3>2
      <4> QED BY <2>1, <2>4, <3>1, <3>4, <4>1 DEF AskedOn
    <3> QED BY <1>3, <3>3, <3>4
  <2> QED BY <2>2, <2>3, <2>4
<1> QED BY <1>3, <1>5 DEF Asked

LEMMA GetMoreNext ==
  ASSUME Once, DownloadInv, NEW f \in File, NEW d \in Index, GetMore(f, d)
  PROVE  DownloadInv'
<1> USE DEF DownloadInv
<1>1. /\ Wanted(f) /\ task_num \in 1..TaskMax - 1 /\ \A i \in 1..TaskMax : task[i].fd # d
      /\ GetOn(cfd, f, d) /\ csock' = [csock EXCEPT ![cfd] = SendOn(@)]
      /\ UNCHANGED <<ssock, trains, serverVars>>
  BY DEF GetMore
<1>2. cfd # None /\ cfd \in Conn
  <2>1. Active # {}
    <3>1. Cardinality(Active) # 0
      BY <1>1 DEF Tasks
    <3> QED BY <3>1, FS_EmptySet
  <2> QED BY <2>1 DEF Tasks, Types
<1>3. task_num < TaskMax /\ \A i \in Active : task[i].fd # d
  BY <1>1, Constants DEF Active, Index
<1>4. PICK j, t : Getting(cfd, f, d, j, t)
  BY <1>1, <1>2, <1>3, GettingOn
<1>5. Files' /\ local' \in [File -> Seq(Blocks)] /\ StartAt(f) \in 0..Size[f]
  BY <1>4, FilesGet
<1>6. /\ Tasks' /\ task' \in [Index -> TaskRecord] /\ task_num' \in Nat
      /\ Active' = Active \cup {j} /\ task'[j] = t
      /\ \A i \in Active : task'[i] = task[i] /\ i # j
  BY <1>4, <1>5, TasksGet
<1>7. /\ t \in Question /\ t \in TaskRecord /\ t.fd = d /\ t.pos \in Nat /\ Within(t) /\ Startable(t)
  BY <1>4, GettingStarts
<1>8. /\ cfd' = cfd
      /\ requests' = [requests EXCEPT ![cfd] =
                        IF ssock[cfd] \in {"open", "new"} THEN Append(@, t) ELSE @]
  BY <1>4 DEF Getting
<1>9. \A c \in Conn : Up(c)' <=> Up(c)
  BY <1>1 DEF Up
<1>10. csock[cfd] \notin {"new", "closed"} /\ ssock[cfd] \in {"open", "closed"}
  BY <1>2 DEF Sockets
<1>11. Up(cfd) => /\ \A i \in 1..Len(requests[cfd]) : requests[cfd][i].fd # t.fd
                  /\ \A s \in Held(cfd) : \A k \in Index : client[s].cdinfo[k].fd # t.fd
  <2>1. ASSUME Up(cfd), NEW i \in 1..Len(requests[cfd])
        PROVE  requests[cfd][i].fd # t.fd
    BY <1>2, <1>3, <1>7, <2>1 DEF Awaited
  <2>2. ASSUME NEW s \in Held(cfd), NEW k \in Index, client[s].cdinfo[k].fd = t.fd
        PROVE  FALSE
    <3>1. k \in TasksOf(client[s])
      BY <1>7, <2>2, Constants DEF TasksOf
    <3> QED BY <1>2, <1>3, <1>7, <2>2, <3>1 DEF Serving, Ahead
  <2> QED BY <2>1, <2>2
<1>12. Asked' /\ requests' \in [Conn -> Seq(Question)]
  <2>1. client' = client /\ (Up(cfd)' => Up(cfd))
    BY <1>1, <1>8 DEF serverVars, Up
  <2> QED BY <1>2, <1>7, <1>8, <1>9, <1>11, <2>1, AskedMore
<1>13. /\ csock' \in [Conn -> States] /\ csock'[cfd] \notin {"new", "closed"}
       /\ \A c \in Conn : c # cfd => csock'[c] = csock[c]
  <2>1. csock \in [Conn -> States]
    BY DEF Types
  <2>2. SendOn(csock[cfd]) \in States /\ SendOn(csock[cfd]) \notin {"new", "closed"}
    BY <1>2, <1>10, <2>1, SendOnIs
  <2> QED BY <1>1, <1>2, <2>1, <2>2
<1>14. Types'
  BY <1>1, <1>2, <1>5, <1>6, <1>8, <1>12, <1>13 DEF Types, serverVars
<1>15. Sockets'
  <2>1. \A c \in Conn : c # cfd => requests'[c] = requests[c]
    BY <1>8 DEF Types
  <2> QED BY <1>1, <1>2, <1>8, <1>10, <1>13, <2>1 DEF Sockets
<1>16. Slots' /\ Pipes'
  <2>1. Pipe \in evs' => pipe # <<>>
    BY <1>1 DEF Pipes, serverVars
  <2> QED BY <1>1, <1>9, <2>1, SlotsSame DEF serverVars
<1>17. Arriving'
  <2>1. \A i \in 1..Len(trains[cfd]) : \E k \in Active' : Goes(trains[cfd], i, task'[k])
    BY <1>2, <1>6 DEF Arriving
  <2> QED BY <1>1, <1>2, <1>8, <2>1 DEF Arriving
<1>18. Serving'
  <2>1. \A s \in Held(cfd) : \A l \in TasksOf(client[s]) :
          \E k \in Active' : Ahead(trains[cfd], task'[k], client[s].cdinfo[l])
    BY <1>2, <1>6 DEF Serving
  <2>2. Held(cfd)' = Held(cfd) /\ client' = client
    BY <1>1, <1>8 DEF Held, serverVars
  <2> QED BY <1>1, <1>8, <2>1, <2>2 DEF Serving
<1>19. Awaited'
  <2>1. Upto(trains[cfd], t, t.pos)
    <3>1. \A i \in 1..Len(trains[cfd]) : trains[cfd][i].ctl_code # t.fd
      BY <1>2, <1>3, <1>7 DEF Arriving, Goes
    <3>2. \A n \in t.pos + 1..t.pos : FALSE
      BY <1>7
    <3> QED BY <3>1, <3>2 DEF Upto
  <2>2. \A i \in 1..Len(requests'[cfd]) : \/ i \in 1..Len(requests[cfd]) /\ requests'[cfd][i] = requests[cfd][i]
                                        \/ requests'[cfd][i] = t
    <3>1. requests[cfd] \in Seq(Question) /\ (requests'[cfd] = requests[cfd] \/ requests'[cfd] = Append(requests[cfd], t))
      BY <1>2, <1>8 DEF Types
    <3>2. \A i \in 1..Len(requests[cfd]) + 1 : i \in 1..Len(requests[cfd]) \/ i = Len(requests[cfd]) + 1
      BY <3>1
    <3> QED BY <1>7, <3>1, <3>2, Appending
  <2>3. Up(cfd) => \A i \in 1..Len(requests'[cfd]) :
          \E k \in Active' : task'[k] = requests'[cfd][i] /\ Upto(trains[cfd], task'[k], task'[k].pos)
    <3> SUFFICES ASSUME Up(cfd), NEW i \in 1..Len(requests'[cfd])
                 PROVE  \E k \in Active' : task'[k] = requests'[cfd][i] /\ Upto(trains[cfd], task'[k], task'[k].pos)
      OBVIOUS
    <3>1. CASE i \in 1..Len(requests[cfd]) /\ requests'[cfd][i] = requests[cfd][i]
      <4>1. PICK k \in Active : task[k] = requests[cfd][i] /\ Upto(trains[cfd], task[k], task[k].pos)
        BY <1>2, <3>1 DEF Awaited
      <4> QED BY <1>6, <3>1, <4>1
    <3>2. CASE requests'[cfd][i] = t
      BY <1>6, <2>1, <3>2
    <3> QED BY <2>2, <3>1, <3>2
  <2>4. Up(cfd)' <=> Up(cfd)
    BY <1>1, <1>8 DEF Up
  <2> QED BY <1>1, <1>8, <2>3, <2>4 DEF Awaited
<1> QED BY <1>5, <1>6, <1>12, <1>14, <1>15, <1>16, <1>17, <1>18, <1>19

LEMMA GetFirstNext ==
  ASSUME Once, DownloadInv, NEW f \in File, NEW d \in Index, GetFirst(f, d)
  PROVE  DownloadInv'
<1> USE DEF DownloadInv
<1>0. PICK c \in Conn : c \in Unused /\ c = Min(Unused)
  <2>1. Unused \in SUBSET Nat /\ Unused # {} /\ Unused \subseteq Conn
    BY Constants DEF Unused, GetFirst
  <2> QED BY <2>1, MinIn
<1>1. /\ Wanted(f) /\ task_num = 0 /\ Unused # {} /\ busy_num < AVG_CLIENT_NUM
      /\ GetOn(c, f, d)
      /\ csock' = [csock EXCEPT ![cfd'] = "open"] /\ ssock' = [ssock EXCEPT ![cfd'] = "open"]
      /\ pipe' = Append(pipe, cfd') /\ busy_num' = busy_num + 1
      /\ UNCHANGED <<trains, client, evs, up>>
  BY <1>0 DEF GetFirst
<1>2. c \in Conn /\ csock[c] = "new" /\ ssock[c] = "new" /\ trains[c] = <<>> /\ requests[c] = <<>>
  BY <1>0 DEF Unused, Sockets
<1>3. ~Up(c) /\ Held(c) = {}
  <2>1. ~Up(c)
    BY <1>2 DEF Up
  <2>2. \A s \in Held(c) : Up(c)
    BY <1>2, Constants DEF Held, Slots
  <2> QED BY <2>1, <2>2
<1>4. Active = {} /\ task_num < TaskMax
  <2>1. Active = {}
    BY <1>1, ActiveFinite, FS_EmptySet DEF Tasks
  <2> QED BY <1>1, <2>1, Constants
<1>5. PICK j, t : Getting(c, f, d, j, t)
  BY <1>1, <1>2, <1>4, GettingOn
<1>6. Files' /\ local' \in [File -> Seq(Blocks)] /\ StartAt(f) \in 0..Size[f]
  BY <1>5, FilesGet
<1>7. /\ Tasks' /\ task' \in [Index -> TaskRecord] /\ task_num' \in Nat
      /\ Active' = {j} /\ task'[j] = t
  BY <1>4, <1>5, <1>6, TasksGet
<1>8. /\ t \in Question /\ t \in TaskRecord /\ t.fd = d /\ t.pos \in Nat /\ Within(t) /\ Startable(t)
  BY <1>5, GettingStarts
<1>9. /\ cfd' = c
      /\ requests' = [requests EXCEPT ![c] =
                        IF ssock[c] \in {"open", "new"} THEN Append(@, t) ELSE @]
  BY <1>5 DEF Getting
<1>10. /\ csock' \in [Conn -> States] /\ ssock' \in [Conn -> States]
       /\ csock'[c] = "open" /\ ssock'[c] = "open"
       /\ \A e \in Conn : e # c => csock'[e] = csock[e] /\ ssock'[e] = ssock[e]
  <2>1. "open" \in States /\ csock \in [Conn -> States] /\ ssock \in [Conn -> States]
    BY DEF States, Types
  <2> QED BY <1>1, <1>2, <1>9, <2>1
<1>11. \A e \in Conn : /\ e # c => (Up(e)' <=> Up(e))
                       /\ Up(e) => Up(e)'
  BY <1>3, <1>10 DEF Up
<1>11a. Up(c)'
  BY <1>9, <1>10 DEF Up
<1>12. Asked' /\ requests' \in [Conn -> Seq(Question)]
  BY <1>1, <1>2, <1>3, <1>8, <1>9, <1>11, AskedMore
<1>13. requests'[c] = <<t>> /\ \A e \in Conn : e # c => requests'[e] = requests[e]
  <2>1. requests \in [Conn -> Seq(Question)] /\ Append(<<>>, t) = <<t>>
    BY DEF Types
  <2> QED BY <1>2, <1>9, <2>1
<1>14. /\ pipe \in Seq(Conn) /\ pipe' \in Seq(Conn) /\ Len(pipe') = Len(pipe) + 1
       /\ \A i \in 1..Len(pipe) : pipe'[i] = pipe[i]
       /\ pipe'[Len(pipe) + 1] = c /\ Len(pipe) \in Nat
  <2>1. pipe \in Seq(Conn) /\ pipe' = Append(pipe, c)
    BY <1>1, <1>9 DEF Types
  <2> QED BY <1>2, <2>1, Appending
<1>15. busy_num' \in Nat /\ busy_num' = busy_num + 1
  BY <1>1 DEF Types
<1>16. Types'
  BY <1>1, <1>2, <1>6, <1>7, <1>9, <1>10, <1>12, <1>14, <1>15 DEF Types
<1>17. Sockets'
  BY <1>1, <1>2, <1>9, <1>10, <1>13 DEF Sockets
<1>18. Slots'
  <2>1. \A s \in Slot : client[s].download_fd # None =>
          \E e \in Conn : client[s].download_fd = e /\ Up(e)'
    <3> SUFFICES ASSUME NEW s \in Slot, client[s].download_fd # None
                 PROVE  \E e \in Conn : client[s].download_fd = e /\ Up(e)'
      OBVIOUS
    <3>1. PICK e \in Conn : client[s].download_fd = e
      BY SlotFacts DEF Live
    <3>2. Up(e)
      BY <3>1 DEF Slots
    <3> QED BY <1>11, <3>1, <3>2
  <2>2. client' = client /\ Live' = Live
    BY <1>1 DEF Live
  <2> QED BY <2>1, <2>2 DEF Slots, Up
<1>19. Pipes'
  <2>1. \A e : Held(e)' = Held(e)
    BY <1>1 DEF Held
  <2>2. \A i \in 1..Len(pipe) : \E e \in Conn : pipe[i] = e /\ Up(e)' /\ Held(e)' = {} /\ e # c
    <3> SUFFICES ASSUME NEW i \in 1..Len(pipe)
                 PROVE  \E e \in Conn : pipe[i] = e /\ Up(e)' /\ Held(e)' = {} /\ e # c
      OBVIOUS
    <3>1. PICK e \in Conn : pipe[i] = e
      BY <1>14
    <3>2. Up(e) /\ Held(e) = {}
      BY <3>1 DEF Pipes
    <3> QED BY <1>3, <1>11, <2>1, <3>1, <3>2
  <2>3. \A i \in 1..Len(pipe) + 1 : i \in 1..Len(pipe) \/ i = Len(pipe) + 1
    BY <1>14
  <2>4. \A i \in 1..Len(pipe') : \E e \in Conn : pipe'[i] = e /\ Up(e)' /\ Held(e)' = {}
    <3>1. Up(c)' /\ Held(c)' = {}
      BY <1>3, <1>11a, <2>1
    <3> QED BY <1>2, <1>14, <2>2, <2>3, <3>1
  <2>5. \A i, k \in 1..Len(pipe') : pipe'[i] = pipe'[k] => i = k
    <3>1. \A i, k \in 1..Len(pipe) : pipe[i] = pipe[k] => i = k
      BY DEF Pipes
    <3> QED BY <1>14, <2>2, <2>3, <3>1
  <2>6. busy_num' = Len(pipe') + Cardinality(Live') /\ busy_num' <= AVG_CLIENT_NUM
    <3>1. Live' = Live /\ Cardinality(Live) \in Nat
      BY <1>1, SlotFacts DEF Live
    <3>2. busy_num = Len(pipe) + Cardinality(Live) /\ busy_num \in Nat
      BY DEF Pipes, Types
    <3> QED BY <1>1, <1>14, <1>15, <3>1, <3>2, Constants
  <2>7. pipe' # <<>>
    BY <1>14
  <2> QED BY <2>4, <2>5, <2>6, <2>7 DEF Pipes, Up
<1>20. Held(c)' = {} /\ Len(trains[c]) = 0 /\ trains'[cfd'] = <<>>
  BY <1>1, <1>2, <1>3, <1>9 DEF Held
<1>21. Arriving'
  <2>1. \A i \in 1..Len(trains'[cfd']) : FALSE
    BY <1>20
  <2> QED BY <2>1 DEF Arriving, Ordered
<1>22. Serving'
  BY <1>9, <1>20 DEF Serving, Held
<1>23. Awaited'
  <2>1. Upto(<<>>, t, t.pos)
    <3>1. \A n \in t.pos + 1..t.pos : FALSE
      BY <1>8
    <3> QED BY <3>1 DEF Upto
  <2>2. \A i \in 1..Len(<<t>>) : task'[j] = <<t>>[i]
    BY <1>7
  <2> QED BY <1>7, <1>9, <1>13, <1>20, <2>1, <2>2 DEF Awaited
<1> QED BY <1>6, <1>7, <1>12, <1>16, <1>17, <1>18, <1>19, <1>21, <1>22, <1>23

-----------------------------------------------------------------------------
(* The server takes a connection from the dispatcher *)

LEMMA EmptySlot ==
  ASSUME NEW c \in Conn, NEW slot, slot = [FreeSlot EXCEPT !.download_fd = c]
  PROVE  /\ slot \in SlotRecord /\ slot.download_fd = c /\ TasksOf(slot) = {} /\ SlotFits(slot)
         /\ \A k \in Index : slot.cdinfo[k].fd = 0
<1>1. /\ slot \in SlotRecord /\ slot.download_fd = c /\ slot.task_num = 0
      /\ slot.cdinfo = FreeSlot.cdinfo
  BY Records DEF SlotRecord, FreeSlot
<1>2. \A k \in Index : slot.cdinfo[k].fd = 0
  BY <1>1, Records
<1>3. TasksOf(slot) = {}
  BY <1>2 DEF TasksOf
<1> QED BY <1>1, <1>2, <1>3, FS_EmptySet DEF SlotFits

LEMMA TakeNext ==
  ASSUME DownloadInv, TakeConnection
  PROVE  DownloadInv'
<1> USE DEF DownloadInv
<1>1. /\ pipe # <<>> /\ pipe' = Tail(pipe) /\ evs' = evs \ {Pipe}
      /\ UNCHANGED <<clientVars, netVars, busy_num, up>>
  BY DEF TakeConnection, Pipes
<1>2. /\ pipe \in Seq(Conn) /\ Tail(pipe) \in Seq(Conn) /\ Len(Tail(pipe)) = Len(pipe) - 1
      /\ Len(pipe) \in Nat /\ Len(pipe) > 0 /\ Head(pipe) = pipe[1] /\ pipe[1] \in Conn
      /\ \A i \in 1..Len(pipe) - 1 : Tail(pipe)[i] = pipe[i + 1]
  BY <1>1, Popping DEF Types
<1>3. PICK c \in Conn : c = Head(pipe) /\ Up(c) /\ Held(c) = {} /\ \A i \in 2..Len(pipe) : pipe[i] # c
  <2>1. 1 \in 1..Len(pipe) /\ \A i \in 2..Len(pipe) : i \in 1..Len(pipe) /\ i # 1
    BY <1>2
  <2> QED BY <1>2, <2>1 DEF Pipes
<1>4. PICK s \in Slot \ Live : s = Min(Slot \ Live)
  <2>1. Cardinality(Live) < AVG_CLIENT_NUM
    BY <1>2, SlotFacts, Constants DEF Pipes
  <2> QED BY <2>1, SlotFacts
<1>5. client[s] = FreeSlot
  BY DEF Live, Slots
<1> DEFINE slot == [FreeSlot EXCEPT !.download_fd = c]
<1>6. /\ slot \in SlotRecord /\ slot.download_fd = c /\ TasksOf(slot) = {} /\ SlotFits(slot)
      /\ \A k \in Index : slot.cdinfo[k].fd = 0
  BY EmptySlot
<1>7. client' = [client EXCEPT ![s] = slot]
  BY <1>3, <1>4, <1>5 DEF TakeConnection
<1> HIDE DEF slot
<1>8. /\ client' \in [Slot -> SlotRecord] /\ client'[s] = slot
      /\ \A t \in Slot : t # s => client'[t] = client[t]
  BY <1>6, <1>7 DEF Types
<1>9. Live' = Live \cup {s} /\ c # None
  BY <1>6, <1>8, Constants DEF Live
<1>10. /\ Held(c)' = {s}
       /\ \A e \in Conn : e # c => Held(e)' = Held(e)
  <2>1. \A e \in Conn : client[s].download_fd # e
    BY <1>5, Records, Constants
  <2>2. \A t \in Slot : client[t].download_fd # c
    BY <1>3 DEF Held
  <2> QED BY <1>6, <1>8, <2>1, <2>2 DEF Held
<1>11. \A e \in Conn : Up(e)' <=> Up(e)
  BY <1>1 DEF Up, netVars
<1>12. Types'
  BY <1>1, <1>2, <1>8 DEF Types, clientVars, netVars
<1>13. Tasks' /\ Files'
  BY <1>1, TasksSame DEF clientVars
<1>14. Sockets'
  BY <1>1 DEF Sockets, clientVars, netVars
<1>15. Slots'
  <2>1. \A t \in Slot : \/ client'[t] = FreeSlot
                        \/ /\ client'[t].download_fd # None /\ SlotFits(client'[t])
                           /\ \E e \in Conn : client'[t].download_fd = e /\ Up(e)'
    <3> SUFFICES ASSUME NEW t \in Slot
                 PROVE  \/ client'[t] = FreeSlot
                        \/ /\ client'[t].download_fd # None /\ SlotFits(client'[t])
                           /\ \E e \in Conn : client'[t].download_fd = e /\ Up(e)'
      OBVIOUS
    <3>1. CASE t = s
      BY <1>3, <1>6, <1>8, <1>9, <1>11, <3>1
    <3>2. CASE t # s /\ t \notin Live
      BY <1>8, <3>2 DEF Live, Slots
    <3>3. CASE t # s /\ t \in Live
      <4>1. PICK e \in Conn : client[t].download_fd = e
        BY <3>3, SlotFacts
      <4>2. client[t].download_fd # None /\ Up(e) /\ SlotFits(client[t])
        BY <3>3, <4>1 DEF Slots, Live
      <4> QED BY <1>8, <1>11, <3>3, <4>1, <4>2
    <3> QED BY <3>1, <3>2, <3>3
  <2>2. \A t, r \in Live' : client'[t].download_fd = client'[r].download_fd => t = r
    <3>1. \A t \in Live : t \in Slot /\ t # s /\ client[t].download_fd # c
      BY <1>3 DEF Held, Live
    <3>2. \A t, r \in Live : client[t].download_fd = client[r].download_fd => t = r
      BY DEF Slots
    <3> QED BY <1>6, <1>8, <1>9, <3>1, <3>2
  <2> QED BY <2>1, <2>2, Records DEF Slots, Up
<1>16. Pipes'
  <2>1. \A i \in 1..Len(pipe') : /\ pipe'[i] = pipe[i + 1] /\ i + 1 \in 1..Len(pipe)
                                 /\ i + 1 \in 2..Len(pipe)
    BY <1>1, <1>2
  <2>2. \A i \in 1..Len(pipe') : \E e \in Conn : pipe'[i] = e /\ Up(e)' /\ Held(e)' = {}
    <3> SUFFICES ASSUME NEW i \in 1..Len(pipe')
                 PROVE  \E e \in Conn : pipe'[i] = e /\ Up(e)' /\ Held(e)' = {}
      OBVIOUS
    <3>1. PICK e \in Conn : pipe[i + 1] = e
      BY <1>2, <2>1
    <3>2. Up(e) /\ Held(e) = {} /\ e # c
      BY <1>3, <2>1, <3>1 DEF Pipes
    <3> QED BY <1>10, <1>11, <2>1, <3>1, <3>2
  <2>3. \A i, k \in 1..Len(pipe') : pipe'[i] = pipe'[k] => i = k
    <3>1. \A i, k \in 1..Len(pipe) : pipe[i] = pipe[k] => i = k
      BY DEF Pipes
    <3>2. \A i, k \in 1..Len(pipe') : i + 1 = k + 1 => i = k
      OBVIOUS
    <3> QED BY <2>1, <3>1, <3>2
  <2>4. busy_num' = Len(pipe') + Cardinality(Live') /\ busy_num' <= AVG_CLIENT_NUM
    <3>1. Cardinality(Live') = Cardinality(Live) + 1
      BY <1>9, SlotFacts, FS_AddElement
    <3> QED BY <1>1, <1>2, <3>1, SlotFacts DEF Pipes
  <2>5. Pipe \notin evs'
    BY <1>1
  <2> QED BY <2>2, <2>3, <2>4, <2>5 DEF Pipes, Up
<1>17. Asked'
  <2> SUFFICES ASSUME NEW e \in Conn, Up(e)'
               PROVE  AskedOn(e)'
    BY DEF Asked
  <2>1. AskedOn(e) /\ requests' = requests
    BY <1>1, <1>11 DEF Asked, netVars
  <2>2. \A i \in 1..Len(requests[e]) : requests[e][i].fd # 0
    <3>1. requests[e] \in Seq(Question)
      BY DEF Types
    <3>2. \A i \in 1..Len(requests[e]) : requests[e][i] \in Question
      BY <3>1
    <3>3. \A x \in Question : x.fd # 0
      BY Constants DEF Question
    <3> QED BY <3>2, <3>3
  <2>3. \A t \in Held(e)' : \A k \in Index : \A i \in 1..Len(requests[e]) :
          client'[t].cdinfo[k].fd # requests[e][i].fd
    <3>1. CASE e = c
      BY <1>6, <1>8, <1>10, <2>2, <3>1
    <3>2. CASE e # c
      <4>1. \A t \in Held(e) : t \in Slot /\ client'[t] = client[t]
        BY <1>8, SlotFacts DEF Live
      <4> QED BY <1>10, <2>1, <3>2, <4>1 DEF AskedOn
    <3> QED BY <3>1, <3>2
  <2> QED BY <2>1, <2>3 DEF AskedOn
<1>18. Arriving'
  BY <1>1 DEF Arriving, clientVars, netVars, Active
<1>19. Serving'
  <2> SUFFICES ASSUME cfd # None, NEW t \in Held(cfd)', NEW k \in TasksOf(client'[t])
               PROVE  \E j \in Active : Ahead(trains[cfd], task[j], client'[t].cdinfo[k])
    BY <1>1 DEF Serving, clientVars, netVars, Active
  <2>1. cfd \in Conn /\ t \in Slot /\ cfd' = cfd
    BY <1>1 DEF Types, Held, clientVars
  <2>2. t # s
    BY <1>6, <1>8
  <2>3. client'[t] = client[t]
    BY <1>8, <2>1, <2>2
  <2>4. t \in Held(cfd)
    BY <2>1, <2>3 DEF Held
  <2> QED BY <2>3, <2>4 DEF Serving
<1>20. Awaited'
  <2>1. Up(cfd)' => Up(cfd)
    BY <1>1 DEF Up, clientVars, netVars
  <2> QED BY <1>1, <2>1 DEF Awaited, clientVars, netVars, Active
<1> QED BY <1>12, <1>13, <1>14, <1>15, <1>16, <1>17, <1>18, <1>19, <1>20

-----------------------------------------------------------------------------
(* The server drops connections *)

(* Nothing the client's connection sees changes.                           *)
LEMMA Elsewhere ==
  ASSUME Types, Arriving, Serving, Awaited, UNCHANGED clientVars,
         \A e \in Conn : e = cfd =>
           /\ trains'[e] = trains[e] /\ requests'[e] = requests[e]
           /\ Up(e)' => Up(e)
           /\ \A s \in Held(e)' : s \in Held(e) /\ client'[s] = client[s]
  PROVE  Arriving' /\ Serving' /\ Awaited'
<1>1. Active' = Active /\ task' = task /\ cfd' = cfd
  BY DEF Active, clientVars
<1>2. CASE cfd = None
  BY <1>1, <1>2 DEF Arriving, Serving, Awaited
<1>3. CASE cfd # None
  <2>1. PICK e \in Conn : e = cfd
    BY <1>3 DEF Types
  <2>2. /\ trains'[e] = trains[e] /\ requests'[e] = requests[e]
        /\ Up(e)' => Up(e)
        /\ \A s \in Held(e)' : s \in Held(e) /\ client'[s] = client[s]
    BY <2>1
  <2>3. Held(cfd)' = Held(e)' /\ (Up(cfd)' <=> Up(e)') /\ Held(cfd) = Held(e) /\ (Up(cfd) <=> Up(e))
    BY <1>1, <2>1 DEF Held, Up
  <2>4. Arriving'
    BY <1>1, <2>1, <2>2 DEF Arriving
  <2>5. Serving'
    BY <1>1, <1>3, <2>1, <2>2, <2>3 DEF Serving
  <2>6. Awaited'
    BY <1>1, <1>3, <2>1, <2>2, <2>3 DEF Awaited
  <2> QED BY <2>4, <2>5, <2>6
<1> QED BY <1>2, <1>3

LEMMA AskedFewer ==
  ASSUME Types, Asked, requests' = requests,
         \A e \in Conn : Up(e)' => /\ Up(e) /\ Held(e)' \subseteq Held(e)
                                   /\ \A s \in Held(e)' : \A k \in Index :
                                        client'[s].cdinfo[k].fd \in {0, client[s].cdinfo[k].fd}
  PROVE  Asked'
<1> SUFFICES ASSUME NEW e \in Conn, Up(e)'
             PROVE  AskedOn(e)'
  BY DEF Asked
<1>1. AskedOn(e)
  BY DEF Asked
<1>2. \A i \in 1..Len(requests[e]) : requests[e][i].fd # 0
  <2>1. requests[e] \in Seq(Question)
    BY DEF Types
  <2>2. \A i \in 1..Len(requests[e]) : requests[e][i] \in Question
    BY <2>1
  <2>3. \A x \in Question : x.fd # 0
    BY Constants DEF Question
  <2> QED BY <2>2, <2>3
<1>3. \A s \in Held(e)' : \A k \in Index : \A i \in 1..Len(requests[e]) :
        client'[s].cdinfo[k].fd # requests[e][i].fd
  <2> SUFFICES ASSUME NEW s \in Held(e)', NEW k \in Index, NEW i \in 1..Len(requests[e])
               PROVE  client'[s].cdinfo[k].fd # requests[e][i].fd
    OBVIOUS
  <2>1. client[s].cdinfo[k].fd # requests[e][i].fd
    BY <1>1 DEF AskedOn
  <2> QED BY <1>2, <2>1
<1> QED BY <1>1, <1>3 DEF AskedOn

(* The sockets after the server closed some of its connections.            *)
LEMMA SocketsDropped ==
  ASSUME Types, Sockets, NEW conns \in SUBSET Conn, CloseSockets(conns),
         \A c \in conns : ssock[c] # "new", cfd' = cfd,
         \A c \in Conn : csock[c] = "new" => trains'[c] = trains[c] /\ requests'[c] = requests[c]
  PROVE  /\ Sockets' /\ csock' \in [Conn -> States] /\ ssock' \in [Conn -> States]
         /\ \A c \in Conn \ conns : Up(c)' <=> Up(c)
         /\ \A c \in conns : ~Up(c)'
<1>1. /\ csock' \in [Conn -> States] /\ ssock' \in [Conn -> States]
      /\ \A c \in Conn : csock'[c] = "new" <=> csock[c] = "new"
      /\ \A c \in Conn : csock'[c] = "new" <=> ssock'[c] = "new"
      /\ \A c \in Conn : csock'[c] = "closed" <=> csock[c] = "closed"
      /\ \A c \in Conn \ conns : csock'[c] = csock[c] /\ ssock'[c] = ssock[c]
      /\ \A c \in Conn \cap conns : ssock'[c] = "closed"
  BY ServerCloses
<1>2. \A c \in Conn \ conns : Up(c)' <=> Up(c)
  BY <1>1 DEF Up
<1>3. \A c \in conns : ~Up(c)'
  BY <1>1 DEF Up
<1>4. Sockets'
  <2>1. \A c \in Conn : csock'[c] = "new" => trains'[c] = <<>> /\ requests'[c] = <<>>
    BY <1>1 DEF Sockets
  <2>2. cfd # None => /\ csock'[cfd] \notin {"new", "closed"}
                      /\ ssock'[cfd] \in {"open", "closed"}
    <3>1. cfd # None => cfd \in Conn
      BY DEF Types
    <3> QED BY <1>1, <3>1 DEF Sockets
  <2> QED BY <1>1, <2>1, <2>2 DEF Sockets
<1> QED BY <1>1, <1>2, <1>3, <1>4

LEMMA FailsNext ==
  ASSUME DownloadInv, NEW c \in Conn, SendFails(c)
  PROVE  DownloadInv'
<1> USE DEF DownloadInv
<1>1. PICK s \in Held(c) : client' = [client EXCEPT ![s] = FreeSlot]
  BY DEF SendFails
<1>2. /\ evs' = evs \ {c} /\ ssock[c] = "reset" /\ busy_num' = busy_num - 1
      /\ CloseSockets({c}) /\ UNCHANGED <<clientVars, requests, trains, pipe, up>>
  BY DEF SendFails
<1>3. s \in Live /\ s \in Slot /\ client[s].download_fd = c
  BY SlotFacts
<1>4. /\ client' \in [Slot -> SlotRecord] /\ client'[s] = FreeSlot
      /\ \A t \in Slot : t # s => client'[t] = client[t]
  BY <1>1, <1>3, Records DEF Types
<1>5. /\ Sockets' /\ csock' \in [Conn -> States] /\ ssock' \in [Conn -> States]
      /\ \A e \in Conn \ {c} : Up(e)' <=> Up(e)
      /\ \A e \in {c} : ~Up(e)'
  <2>1. {c} \in SUBSET Conn /\ cfd' = cfd /\ \A e \in {c} : ssock[e] # "new"
    BY <1>2 DEF clientVars
  <2> QED BY <1>2, <2>1, SocketsDropped
<1>6. /\ Slots' /\ Pipes' /\ busy_num' \in Nat
      /\ \A e \in Conn : Held(e)' = Held(e) \ {s}
  <2>1. {s} \in SUBSET Live /\ Cardinality({s}) = 1
    BY <1>3, FS_Singleton
  <2>2. \A t \in Live \ {s} : SlotFits(client'[t])
    BY <1>4 DEF Live, Slots
  <2>3. Pipe \in evs' => pipe # <<>>
    BY <1>2 DEF Pipes
  <2>4. \A e \in Conn : (\A t \in {s} : client[t].download_fd # e) => (Up(e) => Up(e)')
    BY <1>3, <1>5
  <2>5. pipe' = pipe /\ \A t \in Slot \ Live : client'[t] = client[t]
    BY <1>2, <1>3, <1>4
  <2> QED BY <1>2, <1>4, <2>1, <2>2, <2>3, <2>4, <2>5, Freeing
<1>7. Types'
  BY <1>2, <1>4, <1>5, <1>6 DEF Types, clientVars
<1>8. Tasks' /\ Files'
  BY <1>2, TasksSame DEF clientVars
<1>9. \A e \in Conn : \A t \in Held(e)' : t \in Held(e) /\ client'[t] = client[t]
  BY <1>4, <1>6, SlotFacts
<1>10. \A e \in Conn : Up(e)' => Up(e)
  BY <1>5
<1>11. Asked'
  BY <1>2, <1>9, <1>10, AskedFewer
<1>12. Arriving' /\ Serving' /\ Awaited'
  BY <1>2, <1>9, <1>10, Elsewhere
<1> QED BY <1>5, <1>6, <1>7, <1>8, <1>11, <1>12

LEMMA SigPipeNext ==
  ASSUME DownloadInv, NEW c \in Conn, SigPipe(c)
  PROVE  DownloadInv'
<1> USE DEF DownloadInv
<1> DEFINE D == {d \in Conn : ssock[d] # "new"}
<1>1. /\ up' = FALSE /\ client' = [s \in Slot |-> FreeSlot] /\ pipe' = <<>> /\ evs' = {}
      /\ busy_num' = 0 /\ CloseSockets(D)
      /\ UNCHANGED <<clientVars, requests, trains>>
  BY DEF SigPipe
<1>2. /\ Sockets' /\ csock' \in [Conn -> States] /\ ssock' \in [Conn -> States]
      /\ \A e \in Conn \ D : Up(e)' <=> Up(e)
      /\ \A e \in D : ~Up(e)'
  <2>1. D \in SUBSET Conn /\ cfd' = cfd /\ \A e \in D : ssock[e] # "new"
    BY <1>1 DEF clientVars
  <2> HIDE DEF D
  <2> QED BY <1>1, <2>1, SocketsDropped
<1>3. \A e \in Conn : ~Up(e)'
  BY <1>2 DEF Up
<1>4. \A s \in Slot : client'[s] = FreeSlot
  BY <1>1
<1>5. Live' = {} /\ \A e \in Conn : Held(e)' = {}
  BY <1>4, Records, Constants DEF Live, Held
<1>6. Types'
  <2>1. client' \in [Slot -> SlotRecord] /\ <<>> \in Seq(Conn)
    BY <1>1, Records
  <2> QED BY <1>1, <1>2, <2>1 DEF Types, clientVars
<1>7. Tasks' /\ Files'
  BY <1>1, TasksSame DEF clientVars
<1>8. Slots' /\ Pipes'
  <2>1. Slots'
    BY <1>4, <1>5, Records DEF Slots
  <2>2. Cardinality(Live') = 0 /\ Len(pipe') = 0
    BY <1>1, <1>5, FS_EmptySet
  <2> QED BY <1>1, <2>1, <2>2, Constants DEF Pipes
<1>9. Asked'
  BY <1>3 DEF Asked
<1>10. Arriving' /\ Serving' /\ Awaited'
  BY <1>1, <1>3, <1>5, Elsewhere
<1> QED BY <1>2, <1>6, <1>7, <1>8, <1>9, <1>10

-----------------------------------------------------------------------------
(* The server reads requests *)

(* A request that nobody of the slot has the descriptor of finds a free    *)
(* task: the limit is never met.                                           *)
LEMMA RoomFor ==
  ASSUME NEW slot \in SlotRecord, SlotFits(slot), NEW d \in Index,
         \A k \in Index : slot.cdinfo[k].fd # d
  PROVE  /\ \E k \in Index : slot.cdinfo[k].fd = 0
         /\ slot.task_num < TaskMax
<1>1. /\ IsFiniteSet(Index) /\ Cardinality(Index) = TaskMax /\ TaskMax \in Nat
  <2>1. 1 \in Int /\ TaskMax \in Int /\ ~(1 > TaskMax) /\ TaskMax - 1 + 1 = TaskMax
    BY Constants
  <2> QED BY <2>1, Constants, FS_Interval DEF Index
<1>2. \A k \in Index : slot.cdinfo[k] \in TaskRecord /\ slot.cdinfo[k].fd \in 0..TaskMax
  BY DEF SlotRecord, TaskRecord
<1>3. \E k \in Index : slot.cdinfo[k].fd = 0
  <2> SUFFICES ASSUME \A k \in Index : slot.cdinfo[k].fd # 0  PROVE FALSE
    OBVIOUS
  <2> DEFINE f == [k \in Index |-> slot.cdinfo[k].fd]
             T == Index \ {d}
  <2>1. IsFiniteSet(T) /\ Cardinality(T) < Cardinality(Index)
    <3>1. IsFiniteSet(T) /\ Cardinality(T) = Cardinality(Index) - 1
      BY <1>1, FS_RemoveElement
    <3> QED BY <1>1, <3>1
  <2>2. f \in [Index -> T]
    <3>1. \A k \in Index : slot.cdinfo[k].fd \in Index
      BY <1>2 DEF Index
    <3> QED BY <3>1
  <2> HIDE DEF T, f
  <2>3. \E x, y \in Index : x # y /\ f[x] = f[y]
    BY <1>1, <2>1, <2>2, FS_PigeonHole
  <2>4. PICK x, y \in Index : x # y /\ slot.cdinfo[x].fd = slot.cdinfo[y].fd
    BY <2>3 DEF f
  <2> QED BY <2>4 DEF SlotFits, TasksOf
<1>4. TasksOf(slot) \in SUBSET Index /\ TasksOf(slot) # Index
  BY <1>3 DEF TasksOf
<1>5. Cardinality(TasksOf(slot)) <= TaskMax /\ Cardinality(TasksOf(slot)) # TaskMax
      /\ IsFiniteSet(TasksOf(slot))
  BY <1>1, <1>4, FS_Subset
<1>6. slot.task_num < TaskMax
  BY <1>1, <1>5, FS_CardinalityType DEF SlotFits
<1> QED BY <1>3, <1>6

LEMMA TaskAdded ==
  ASSUME NEW slot \in SlotRecord, SlotFits(slot), NEW dq \in Question, Within(dq), Startable(dq),
         \A k \in Index : slot.cdinfo[k].fd # dq.fd
  PROVE  /\ WithTask(slot, dq) \in SlotRecord /\ SlotFits(WithTask(slot, dq))
         /\ WithTask(slot, dq).download_fd = slot.download_fd
         /\ \A k \in Index : WithTask(slot, dq).cdinfo[k] \in {slot.cdinfo[k], dq}
<1> DEFINE m == Min({k \in 1..TaskMax : slot.cdinfo[k].fd = 0})
           new == WithTask(slot, dq)
<1>0. dq.fd \in Index /\ dq \in TaskRecord /\ dq.fd # 0
  BY Records, Constants DEF Question
<1>1. m \in Index /\ slot.cdinfo[m].fd = 0
  <2>1. {k \in 1..TaskMax : slot.cdinfo[k].fd = 0} \in SUBSET Nat
    BY Constants
  <2>2. {k \in 1..TaskMax : slot.cdinfo[k].fd = 0} # {}
    BY <1>0, RoomFor DEF Index
  <2>3. m \in {k \in 1..TaskMax : slot.cdinfo[k].fd = 0}
    BY <2>1, <2>2, MinIn
  <2> QED BY <2>3 DEF Index
<1>2. new = [slot EXCEPT !.task_num = @ + 1, !.cdinfo = [@ EXCEPT ![m] = dq]]
  BY DEF WithTask
<1> HIDE DEF m, new
<1>3. slot.cdinfo \in [Index -> TaskRecord] /\ slot.task_num \in Nat
  BY DEF SlotRecord
<1>4. /\ new.download_fd = slot.download_fd /\ new.task_num = slot.task_num + 1
      /\ new.cdinfo = [slot.cdinfo EXCEPT ![m] = dq]
  BY <1>2 DEF SlotRecord
<1>5. /\ new.cdinfo \in [Index -> TaskRecord] /\ new.cdinfo[m] = dq
      /\ \A k \in Index : k # m => new.cdinfo[k] = slot.cdinfo[k]
  BY <1>0, <1>1, <1>3, <1>4
<1>6. new \in SlotRecord
  <2>1. new = [download_fd |-> new.download_fd, task_num |-> new.task_num, cdinfo |-> new.cdinfo]
    BY <1>2 DEF SlotRecord
  <2>2. slot.download_fd \in Conn \cup {None} /\ slot.task_num + 1 \in Nat
    BY DEF SlotRecord
  <2> QED BY <1>4, <1>5, <2>1, <2>2 DEF SlotRecord
<1>7. TasksOf(new) = TasksOf(slot) \cup {m} /\ m \notin TasksOf(slot)
  BY <1>0, <1>1, <1>5 DEF TasksOf
<1>8. IsFiniteSet(TasksOf(slot))
  <2>1. 1 \in Int /\ TaskMax \in Int /\ TasksOf(slot) \in SUBSET Index
    BY Constants DEF TasksOf
  <2>2. IsFiniteSet(Index)
    BY <2>1, FS_Interval DEF Index
  <2> QED BY <2>1, <2>2, FS_Subset
<1>9. new.task_num = Cardinality(TasksOf(new))
  BY <1>4, <1>7, <1>8, FS_AddElement DEF SlotFits
<1>10. \A k \in TasksOf(new) : Within(new.cdinfo[k]) /\ Startable(new.cdinfo[k])
  BY <1>5, <1>7 DEF SlotFits, TasksOf
<1>11. \A k, l \in TasksOf(new) : new.cdinfo[k].fd = new.cdinfo[l].fd => k = l
  BY <1>5, <1>7 DEF SlotFits, TasksOf
<1>12. SlotFits(new)
  BY <1>9, <1>10, <1>11 DEF SlotFits
<1> QED BY <1>4, <1>5, <1>6, <1>12 DEF new

LEMMA ReadRequestsNext ==
  ASSUME DownloadInv, ReadRequests
  PROVE  DownloadInv'
<1> USE DEF DownloadInv
<1> DEFINE chan(s) == client[s].download_fd
           q(s) == requests[chan(s)]
           A0 == {s \in CinReady : requests[client[s].download_fd] = <<>>}
           F0 == {s \in CinReady \ A0 : client[s].task_num >= TaskMax}
           D0 == Disconnected(A0)
(* A slot with a request.                                                  *)
<1>1. \A s \in CinReady : /\ s \in Slot /\ s \in Live /\ s \in Held(chan(s)) /\ chan(s) \in Conn
                          /\ client[s] \in SlotRecord /\ SlotFits(client[s]) /\ Up(chan(s))
                          /\ q(s) # <<>> \/ ssock[chan(s)] # "open"
                          /\ q(s) \in Seq(Question) /\ requests[chan(s)] = q(s)
  <2> SUFFICES ASSUME NEW s \in CinReady
               PROVE  /\ s \in Slot /\ s \in Live /\ s \in Held(chan(s)) /\ chan(s) \in Conn
                      /\ client[s] \in SlotRecord /\ SlotFits(client[s]) /\ Up(chan(s))
                      /\ q(s) # <<>> \/ ssock[chan(s)] # "open"
                      /\ q(s) \in Seq(Question) /\ requests[chan(s)] = q(s)
    OBVIOUS
  <2>1. s \in Live /\ (q(s) # <<>> \/ ssock[chan(s)] # "open")
    BY DEF CinReady
  <2>2. s \in Slot /\ chan(s) \in Conn /\ client[s] \in SlotRecord
    BY <2>1, SlotFacts DEF Live
  <2>3. SlotFits(client[s]) /\ Up(chan(s))
    BY <2>1, <2>2, Constants DEF Slots, Live
  <2>4. s \in Held(chan(s)) /\ q(s) \in Seq(Question)
    BY <2>2 DEF Held, Types
  <2> QED BY <2>1, <2>2, <2>3, <2>4
<1>2. \A s \in CinReady \ A0 :
        /\ q(s) # <<>> /\ Head(q(s)) = q(s)[1] /\ 1 \in 1..Len(q(s))
        /\ Head(q(s)) \in Question /\ Within(Head(q(s))) /\ Startable(Head(q(s)))
        /\ \A k \in Index : client[s].cdinfo[k].fd # Head(q(s)).fd
  <2> SUFFICES ASSUME NEW s \in CinReady \ A0
               PROVE  /\ q(s) # <<>> /\ Head(q(s)) = q(s)[1] /\ 1 \in 1..Len(q(s))
                      /\ Head(q(s)) \in Question /\ Within(Head(q(s))) /\ Startable(Head(q(s)))
                      /\ \A k \in Index : client[s].cdinfo[k].fd # Head(q(s)).fd
    OBVIOUS
  <2>1. q(s) # <<>>
    OBVIOUS
  <2>2. Head(q(s)) = q(s)[1] /\ 1 \in 1..Len(q(s)) /\ Head(q(s)) \in Question
    BY <1>1, <2>1, Popping
  <2>3. AskedOn(chan(s)) /\ s \in Held(chan(s))
    BY <1>1 DEF Asked
  <2> QED BY <2>1, <2>2, <2>3 DEF AskedOn
<1>3. F0 = {}
  <2> SUFFICES ASSUME NEW s \in F0  PROVE FALSE
    OBVIOUS
  <2>1. s \in CinReady /\ s \in CinReady \ A0 /\ client[s].task_num >= TaskMax
    OBVIOUS
  <2>2. client[s] \in SlotRecord /\ SlotFits(client[s]) /\ client[s].task_num \in Nat
    BY <1>1, <2>1 DEF SlotRecord
  <2>3. Head(q(s)).fd \in Index /\ \A k \in Index : client[s].cdinfo[k].fd # Head(q(s)).fd
    BY <1>2, <2>1 DEF Question
  <2>4. client[s].task_num < TaskMax
    BY <2>2, <2>3, RoomFor
  <2> QED BY <2>1, <2>2, <2>4, Constants
<1>4. /\ evs' = evs \ {Cin}
      /\ client' = [s \in Slot |->
                      IF s \in A0 THEN FreeSlot
                      ELSE IF s \in F0 THEN WithTask(FreeSlot, Head(q(s)))
                      ELSE IF s \in CinReady THEN WithTask(client[s], Head(q(s)))
                      ELSE client[s]]
      /\ requests' = [c \in Conn |-> IF c \in Disconnected(CinReady \ A0)
                                     THEN Tail(requests[c]) ELSE requests[c]]
      /\ busy_num' = busy_num - Reports(A0 \cup F0)
      /\ CloseSockets(Disconnected(A0 \cup F0))
      /\ UNCHANGED <<clientVars, trains, pipe, up>>
  BY DEF ReadRequests
<1>5. A0 \cup F0 = A0
  BY <1>3
<1>6. /\ \A s \in Slot : client'[s] = IF s \in A0 THEN FreeSlot
                                      ELSE IF s \in CinReady THEN WithTask(client[s], Head(q(s)))
                                      ELSE client[s]
      /\ busy_num' = busy_num - Cardinality(A0) /\ CloseSockets(D0)
  BY <1>3, <1>4, <1>5 DEF Reports
<1>7. PICK A \in SUBSET Live, D \in SUBSET Conn : A = A0 /\ D = D0 /\ A \subseteq CinReady
  <2>1. A0 \subseteq CinReady /\ A0 \in SUBSET Live /\ D0 \in SUBSET Conn
    BY <1>1 DEF Disconnected
  <2> QED BY <2>1
<1>8. /\ \A s \in A : q(s) = <<>> /\ s \in CinReady
      /\ D = {client[s].download_fd : s \in A}
      /\ \A s \in CinReady : s \in A <=> q(s) = <<>>
  BY <1>7 DEF Disconnected
<1>9. /\ \A s \in Slot : client'[s] = IF s \in A THEN FreeSlot
                                      ELSE IF s \in CinReady THEN WithTask(client[s], Head(q(s)))
                                      ELSE client[s]
      /\ busy_num' = busy_num - Cardinality(A) /\ CloseSockets(D)
  BY <1>6, <1>7
<1>10. PICK B \in SUBSET Live : /\ B = CinReady \ A
                                /\ \A s \in B : s \in CinReady /\ s \in CinReady \ A0
                                /\ \A s \in CinReady : s \in A \/ s \in B
  BY <1>1, <1>7
<1>11. \A e \in Conn : requests'[e] = IF \E s \in B : chan(s) = e THEN Tail(requests[e]) ELSE requests[e]
  <2>1. CinReady \ A0 = B
    BY <1>7, <1>10
  <2>2. \A e \in Conn : e \in Disconnected(B) <=> \E s \in B : chan(s) = e
    BY DEF Disconnected
  <2> QED BY <1>4, <2>1, <2>2
<1>12. \A s \in B : /\ client'[s] = WithTask(client[s], Head(q(s)))
                    /\ client'[s] \in SlotRecord /\ SlotFits(client'[s])
                    /\ client'[s].download_fd = client[s].download_fd
                    /\ \A k \in Index : client'[s].cdinfo[k] \in {client[s].cdinfo[k], Head(q(s))}
  <2> SUFFICES ASSUME NEW s \in B
               PROVE  /\ client'[s] = WithTask(client[s], Head(q(s)))
                      /\ client'[s] \in SlotRecord /\ SlotFits(client'[s])
                      /\ client'[s].download_fd = client[s].download_fd
                      /\ \A k \in Index : client'[s].cdinfo[k] \in {client[s].cdinfo[k], Head(q(s))}
    OBVIOUS
  <2>1. s \in CinReady /\ s \notin A /\ s \in CinReady \ A0
    BY <1>10
  <2>2. client'[s] = WithTask(client[s], Head(q(s)))
    BY <1>1, <1>9, <2>1
  <2>3. client[s] \in SlotRecord /\ SlotFits(client[s])
    BY <1>1, <2>1
  <2>4. /\ Head(q(s)) \in Question /\ Within(Head(q(s))) /\ Startable(Head(q(s)))
        /\ \A k \in Index : client[s].cdinfo[k].fd # Head(q(s)).fd
    BY <1>2, <2>1
  <2> QED BY <2>2, <2>3, <2>4, TaskAdded
<1> HIDE DEF A0, F0, D0
<1>13. \A s \in Slot : s \notin A /\ s \notin B => client'[s] = client[s]
  BY <1>9, <1>10
<1>14. \A s \in A : client'[s] = FreeSlot
  BY <1>9, SlotFacts
<1>15. client' \in [Slot -> SlotRecord]
  <2>1. \A s \in Slot : client'[s] \in SlotRecord
    BY <1>12, <1>13, <1>14, Records, SlotFacts
  <2>2. client' = [s \in Slot |-> client'[s]]
    BY <1>4
  <2> QED BY <2>1, <2>2
<1>16. \A e \in Conn : (\E s \in B : chan(s) = e) => requests[e] # <<>>
  BY <1>2, <1>10
<1>17. /\ Sockets' /\ csock' \in [Conn -> States] /\ ssock' \in [Conn -> States]
       /\ \A e \in Conn \ D : Up(e)' <=> Up(e)
       /\ \A e \in D : ~Up(e)'
  <2>1. \A c \in D : ssock[c] # "new"
    BY <1>1, <1>8 DEF Up
  <2>2. \A e \in Conn : csock[e] = "new" => trains'[e] = trains[e] /\ requests'[e] = requests[e]
    BY <1>4, <1>11, <1>16 DEF Sockets
  <2>3. cfd' = cfd
    BY <1>4 DEF clientVars
  <2> QED BY <1>9, <2>1, <2>2, <2>3, SocketsDropped
<1>18. /\ Slots' /\ Pipes' /\ busy_num' \in Nat
       /\ \A e \in Conn : Held(e)' = Held(e) \ A
  <2>1. \A s \in Slot \ A : client'[s].download_fd = client[s].download_fd
    BY <1>12, <1>13
  <2>2. \A s \in Slot \ Live : client'[s] = client[s]
    BY <1>13
  <2>3. \A s \in Live \ A : SlotFits(client'[s])
    <3> SUFFICES ASSUME NEW s \in Live \ A, s \notin B  PROVE SlotFits(client'[s])
      BY <1>12
    <3>1. s \in Slot /\ client'[s] = client[s]
      BY <1>13, SlotFacts
    <3> QED BY <3>1 DEF Live, Slots
  <2>4. \A e \in Conn : (\A s \in A : client[s].download_fd # e) => (Up(e) => Up(e)')
    BY <1>8, <1>17
  <2>5. pipe' = pipe /\ (Pipe \in evs' => pipe # <<>>)
    BY <1>4 DEF Pipes
  <2> QED BY <1>9, <1>14, <1>15, <2>1, <2>2, <2>3, <2>4, <2>5, Freeing
<1>19. requests' \in [Conn -> Seq(Question)]
  <2>1. \A e \in Conn : requests[e] \in Seq(Question) /\ (requests[e] # <<>> => Tail(requests[e]) \in Seq(Question))
    BY Popping DEF Types
  <2>2. \A e \in Conn : requests'[e] \in Seq(Question)
    BY <1>11, <1>16, <2>1
  <2>3. requests' = [e \in Conn |-> requests'[e]]
    BY <1>4
  <2> QED BY <2>2, <2>3
<1>20. Types'
  BY <1>4, <1>15, <1>17, <1>18, <1>19 DEF Types, clientVars
<1>21. Tasks' /\ Files'
  BY <1>4, TasksSame DEF clientVars
(* The connections whose first request is read.                            *)
<1>22. ASSUME NEW s \in B, NEW e \in Conn, chan(s) = e
       PROVE  /\ requests'[e] = Tail(requests[e]) /\ requests[e] \in Seq(Question) /\ requests[e] # <<>>
              /\ Len(requests'[e]) = Len(requests[e]) - 1 /\ Len(requests[e]) \in Nat
              /\ \A i \in 1..Len(requests'[e]) : /\ requests'[e][i] = requests[e][i + 1]
                                                 /\ i + 1 \in 1..Len(requests[e]) /\ i + 1 # 1
              /\ 1 \in 1..Len(requests[e]) /\ Head(q(s)) = requests[e][1] /\ s \in Held(e)
  <2>1. /\ requests'[e] = Tail(requests[e]) /\ requests[e] \in Seq(Question) /\ requests[e] # <<>>
        /\ requests[e] = q(s) /\ s \in Held(e)
    BY <1>1, <1>10, <1>11, <1>16, <1>22
  <2> QED BY <2>1, Popping
<1>23. \A e \in Conn : \A s \in Held(e)' : s \in Held(e) /\ s \in Slot /\ chan(s) = e /\ s \notin A
  BY <1>18, SlotFacts
<1>24. Asked'
  <2> SUFFICES ASSUME NEW e \in Conn, Up(e)'
               PROVE  AskedOn(e)'
    BY DEF Asked
  <2>1. AskedOn(e)
    BY <1>17 DEF Asked
  <2>2. CASE \E s \in B : chan(s) = e
    <3>1. PICK s \in B : chan(s) = e
      BY <2>2
    <3>2. /\ \A i \in 1..Len(requests'[e]) : /\ requests'[e][i] = requests[e][i + 1]
                                             /\ i + 1 \in 1..Len(requests[e]) /\ i + 1 # 1
          /\ 1 \in 1..Len(requests[e]) /\ Head(q(s)) = requests[e][1]
      BY <1>22, <3>1
    <3>3. \A i \in 1..Len(requests'[e]) : Within(requests'[e][i]) /\ Startable(requests'[e][i])
      BY <2>1, <3>2 DEF AskedOn
    <3>4. \A i, k \in 1..Len(requests'[e]) : requests'[e][i].fd = requests'[e][k].fd => i = k
      <4> SUFFICES ASSUME NEW i \in 1..Len(requests'[e]), NEW k \in 1..Len(requests'[e]),
                          requests'[e][i].fd = requests'[e][k].fd
                   PROVE  i = k
        OBVIOUS
      <4>1. PICK m \in 1..Len(requests[e]), n \in 1..Len(requests[e]) : m = i + 1 /\ n = k + 1
        BY <3>2
      <4>2. requests[e][m].fd = requests[e][n].fd
        BY <3>2, <4>1
      <4>3. m = n
        BY <2>1, <4>2 DEF AskedOn
      <4> QED BY <4>1, <4>3
    <3>5. \A t \in Held(e)', i \in 1..Len(requests'[e]), k \in Index :
            client'[t].cdinfo[k].fd # requests'[e][i].fd
      <4> SUFFICES ASSUME NEW t \in Held(e)', NEW i \in 1..Len(requests'[e]), NEW k \in Index
                   PROVE  client'[t].cdinfo[k].fd # requests[e][i + 1].fd
        BY <3>2
      <4>1. t = s
        <5>1. t \in Live /\ s \in Live /\ client[t].download_fd = client[s].download_fd
          BY <1>23, <3>1, SlotFacts
        <5> QED BY <5>1 DEF Slots
      <4>2. client'[t].cdinfo[k] = client[s].cdinfo[k] \/ client'[t].cdinfo[k] = requests[e][1]
        BY <1>12, <3>2, <4>1
      <4>3. client[s].cdinfo[k].fd # requests[e][i + 1].fd
        BY <1>23, <2>1, <3>2, <4>1 DEF AskedOn
      <4>4. requests[e][1].fd # requests[e][i + 1].fd
        BY <2>1, <3>2 DEF AskedOn
      <4> QED BY <4>2, <4>3, <4>4
    <3> QED BY <3>3, <3>4, <3>5 DEF AskedOn
  <2>3. CASE ~ \E s \in B : chan(s) = e
    <3>1. requests'[e] = requests[e]
      BY <1>11, <2>3
    <3>2. \A t \in Held(e)' : t \in Held(e) /\ client'[t] = client[t]
      BY <1>13, <1>23, <2>3
    <3> QED BY <2>1, <3>1, <3>2 DEF AskedOn
  <2> QED BY <2>2, <2>3
<1>25. Arriving'
  BY <1>4 DEF Arriving, clientVars, Active
<1>26. ASSUME NEW e \in Conn, e = cfd
       PROVE  /\ e \notin D /\ (Up(e)' <=> Up(e))
              /\ \A t \in Held(e)' : \A k \in TasksOf(client'[t]) :
                   \E j \in Active : Ahead(trains[e], task[j], client'[t].cdinfo[k])
              /\ Up(e) => \A i \in 1..Len(requests'[e]) :
                   \E j \in Active : task[j] = requests'[e][i] /\ Upto(trains[e], task[j], task[j].pos)
  <2>0. cfd # None
    BY <1>26, Constants
  <2>1. e \notin D
    <3> SUFFICES ASSUME NEW s \in A, chan(s) = e  PROVE FALSE
      BY <1>8
    <3>1. s \in CinReady /\ q(s) = <<>>
      BY <1>8
    <3>2. ssock[e] # "open" /\ Up(e)
      BY <1>1, <3>1
    <3> QED BY <1>26, <2>0, <3>2 DEF Sockets, Up
  <2>2. Up(e)' <=> Up(e)
    BY <1>17, <2>1
  <2>3. Up(e) => \A i \in 1..Len(requests[e]) :
                   \E j \in Active : task[j] = requests[e][i] /\ Upto(trains[e], task[j], task[j].pos)
    BY <1>26, <2>0 DEF Awaited
  <2>4. \A t \in Held(e) : \A k \in TasksOf(client[t]) :
          \E j \in Active : Ahead(trains[e], task[j], client[t].cdinfo[k])
    BY <1>26, <2>0 DEF Serving
  <2>5. ASSUME NEW t \in Held(e)', NEW k \in TasksOf(client'[t])
        PROVE  \E j \in Active : Ahead(trains[e], task[j], client'[t].cdinfo[k])
    <3>1. k \in Index /\ client'[t].cdinfo[k].fd # 0
      BY DEF TasksOf
    <3>2. CASE client'[t].cdinfo[k] = client[t].cdinfo[k]
      <4>1. k \in TasksOf(client[t]) /\ t \in Held(e)
        BY <1>23, <3>1, <3>2 DEF TasksOf
      <4> QED BY <2>4, <3>2, <4>1
    <3>3. CASE client'[t].cdinfo[k] # client[t].cdinfo[k]
      <4>1. t \in B /\ chan(t) = e
        BY <1>13, <1>23, <3>3
      <4>2. client'[t].cdinfo[k] = requests[e][1] /\ 1 \in 1..Len(requests[e]) /\ requests[e][1] \in Question
        <5>1. Head(q(t)) = requests[e][1] /\ 1 \in 1..Len(requests[e]) /\ requests[e] \in Seq(Question)
          BY <1>22, <4>1
        <5> QED BY <1>12, <3>1, <3>3, <4>1, <5>1
      <4>3. Up(e)
        BY <1>1, <1>10, <4>1
      <4>4. PICK j \in Active : task[j] = requests[e][1] /\ Upto(trains[e], task[j], task[j].pos)
        BY <2>3, <4>2, <4>3
      <4>5. task[j].pos <= task[j].pos
        <5>1. task[j].pos \in Nat
          BY <4>2, <4>4 DEF Question
        <5> QED BY <5>1
      <4> QED BY <4>2, <4>4, <4>5 DEF Ahead
    <3> QED BY <3>2, <3>3
  <2>6. ASSUME Up(e), NEW i \in 1..Len(requests'[e])
        PROVE  \E j \in Active : task[j] = requests'[e][i] /\ Upto(trains[e], task[j], task[j].pos)
    <3>1. CASE \E s \in B : chan(s) = e
      <4>1. requests'[e][i] = requests[e][i + 1] /\ i + 1 \in 1..Len(requests[e])
        BY <1>22, <3>1
      <4> QED BY <2>3, <2>6, <4>1
    <3>2. CASE ~ \E s \in B : chan(s) = e
      BY <1>11, <2>3, <2>6, <3>2
    <3> QED BY <3>1, <3>2
  <2> QED BY <2>1, <2>2, <2>5, <2>6
<1>27. Serving' /\ Awaited'
  <2>1. CASE cfd = None
    BY <1>4, <2>1 DEF Serving, Awaited, clientVars
  <2>2. CASE cfd # None
    <3>1. PICK e \in Conn : e = cfd
      BY <2>2 DEF Types
    <3>2. /\ cfd' = e /\ Active' = Active /\ task' = task /\ trains' = trains
          /\ Held(cfd)' = Held(e)' /\ (Up(cfd)' <=> Up(e)')
      BY <1>4, <3>1 DEF clientVars, Held, Up, Active
    <3> QED BY <1>26, <3>1, <3>2 DEF Serving, Awaited
  <2> QED BY <2>1, <2>2
<1> QED BY <1>17, <1>18, <1>20, <1>21, <1>24, <1>25, <1>27

-----------------------------------------------------------------------------
(* The server sends *)

LEMMA AdvancedIs ==
  ASSUME NEW t \in TaskRecord, t.fd # 0 => Within(t) /\ Startable(t)
  PROVE  /\ Advanced(t) \in TaskRecord
         /\ t.fd = 0 => Advanced(t) = t /\ ~Ends(t)
         /\ t.fd # 0 /\ Ends(t) => Advanced(t) = NoTask
         /\ t.fd # 0 /\ ~Ends(t) =>
              /\ Advanced(t).fd = t.fd /\ Advanced(t).file = t.file
              /\ Advanced(t).pos = t.pos + 1 /\ t.pos < Size[t.file]
              /\ Within(Advanced(t)) /\ Startable(Advanced(t))
<1>1. CASE t.fd = 0
  BY <1>1 DEF Advanced, Ends
<1>2. CASE t.fd # 0 /\ Ends(t)
  BY <1>2, Records DEF Advanced
<1>3. CASE t.fd # 0 /\ ~Ends(t)
  <2>1. t.file \in File /\ t.pos \in Nat /\ Size[t.file] \in Nat
    BY <1>3, Constants DEF TaskRecord, Within
  <2>2. t.pos < Size[t.file] /\ (t.file \in Mapped => t.pos + 1 < Size[t.file])
    BY <1>3, <2>1 DEF Ends
  <2>3. Advanced(t) = [t EXCEPT !.pos = @ + 1]
    BY <1>3 DEF Advanced
  <2>4. /\ Advanced(t) \in TaskRecord /\ Advanced(t).fd = t.fd /\ Advanced(t).file = t.file
        /\ Advanced(t).pos = t.pos + 1
    BY <2>1, <2>3 DEF TaskRecord
  <2>5. Within(Advanced(t)) /\ Startable(Advanced(t))
    BY <2>1, <2>2, <2>4 DEF Within, Startable
  <2> QED BY <1>3, <2>2, <2>4, <2>5
<1> QED BY <1>1, <1>2, <1>3

LEMMA SlotRuns ==
  ASSUME NEW slot \in SlotRecord, SlotFits(slot)
  PROVE  Runs(slot.cdinfo)
<1>1. slot.cdinfo \in [Index -> TaskRecord]
  BY DEF SlotRecord
<1>2. \A k \in Index : slot.cdinfo[k].fd # 0 => k \in TasksOf(slot)
  BY DEF TasksOf
<1>3. \A k, l \in Index : slot.cdinfo[k].fd # 0 /\ slot.cdinfo[k].fd = slot.cdinfo[l].fd => k = l
  BY <1>2 DEF SlotFits
<1> QED BY <1>1, <1>2, <1>3 DEF Runs, SlotFits

(* A slot with a task left, after an event.                                *)
LEMMA SlotAdvances ==
  ASSUME NEW slot \in SlotRecord, SlotFits(slot), NEW c \in Conn, NEW left,
         left = slot.task_num - Cardinality({k \in 1..TaskMax : Ends(slot.cdinfo[k])}),
         NEW new, new = [download_fd |-> c, task_num |-> left,
                         cdinfo |-> [k \in 1..TaskMax |-> Advanced(slot.cdinfo[k])]]
  PROVE  /\ new \in SlotRecord /\ SlotFits(new)
         /\ new.download_fd = c /\ \A k \in Index : new.cdinfo[k] = Advanced(slot.cdinfo[k])
<1> DEFINE old == slot.cdinfo
           E == {k \in Index : Ends(old[k])}
<1>1. Runs(old)
  BY SlotRuns
<1>2. \A k \in Index :
        /\ Advanced(old[k]) \in TaskRecord
        /\ old[k].fd = 0 => Advanced(old[k]) = old[k] /\ ~Ends(old[k])
        /\ old[k].fd # 0 /\ Ends(old[k]) => Advanced(old[k]) = NoTask
        /\ old[k].fd # 0 /\ ~Ends(old[k]) =>
             /\ Advanced(old[k]).fd = old[k].fd
             /\ Within(Advanced(old[k])) /\ Startable(Advanced(old[k]))
  BY <1>1, AdvancedIs DEF Runs
<1>3. /\ new.download_fd = c /\ new.task_num = left
      /\ new.cdinfo = [k \in Index |-> Advanced(old[k])]
  BY DEF Index
<1> HIDE DEF old
<1>4. TasksOf(slot) = {k \in Index : old[k].fd # 0}
  BY DEF TasksOf, old
<1>5. /\ \A k \in Index : new.cdinfo[k] = Advanced(old[k])
      /\ new.cdinfo \in [Index -> TaskRecord]
  BY <1>2, <1>3
<1>6. TasksOf(new) = TasksOf(slot) \ E
  BY <1>2, <1>4, <1>5, Records DEF TasksOf
<1>7. E \in SUBSET TasksOf(slot)
  BY <1>2, <1>4
<1>8. IsFiniteSet(TasksOf(slot))
  <2>1. 1 \in Int /\ TaskMax \in Int /\ TasksOf(slot) \in SUBSET Index
    BY Constants DEF TasksOf
  <2>2. IsFiniteSet(Index)
    BY <2>1, FS_Interval DEF Index
  <2> QED BY <2>1, <2>2, FS_Subset
<1>9. left = Cardinality(TasksOf(new)) /\ left \in Nat
  <2>1. left = slot.task_num - Cardinality(E)
    BY DEF E, Index, old
  <2> HIDE DEF E
  <2>2. IsFiniteSet(E) /\ TasksOf(slot) \cap E = E
    BY <1>7, <1>8, FS_Subset
  <2>3. /\ IsFiniteSet(TasksOf(slot) \ E)
        /\ Cardinality(TasksOf(slot) \ E) = Cardinality(TasksOf(slot)) - Cardinality(TasksOf(slot) \cap E)
    BY <1>8, FS_Difference
  <2> QED BY <1>6, <2>1, <2>2, <2>3, FS_CardinalityType DEF SlotFits
<1>10. new \in SlotRecord
  <2>1. new = [download_fd |-> c, task_num |-> left, cdinfo |-> new.cdinfo]
    OBVIOUS
  <2> QED BY <1>5, <1>9, <2>1 DEF SlotRecord
<1>11. \A k \in TasksOf(new) : /\ k \in Index /\ old[k].fd # 0 /\ new.cdinfo[k].fd = old[k].fd
                               /\ Within(new.cdinfo[k]) /\ Startable(new.cdinfo[k])
  BY <1>2, <1>4, <1>5, <1>6
<1>12. \A k, l \in TasksOf(new) : new.cdinfo[k].fd = new.cdinfo[l].fd => k = l
  BY <1>1, <1>11 DEF Runs
<1> QED BY <1>3, <1>5, <1>9, <1>10, <1>11, <1>12 DEF SlotFits, old

(* Trains sent after a train do not concern it.                            *)
LEMMA GoesOn ==
  ASSUME NEW q \in Seq(TrainRecord), NEW out \in Seq(TrainRecord), NEW i \in 1..Len(q), NEW t,
         Goes(q, i, t)
  PROVE  Goes(q \o out, i, t)
<1> DEFINE r == q \o out
<1>1. Len(q) \in Nat /\ \A k \in 1..Len(q) : r[k] = q[k]
  BY Concat
<1> HIDE DEF r
<1>2. \A k \in 1..i - 1 : k \in 1..Len(q)
  BY <1>1
<1>3. r[i] = q[i]
  BY <1>1
<1>4. \A n \in t.pos + 1..Size[t.file] :
        r[i].block = None \/ n < r[i].block[2] => \E k \in 1..i - 1 : r[k] = Train(t, Block(t.file, n))
  <2> SUFFICES ASSUME NEW n \in t.pos + 1..Size[t.file], r[i].block = None \/ n < r[i].block[2]
               PROVE  \E k \in 1..i - 1 : r[k] = Train(t, Block(t.file, n))
    OBVIOUS
  <2>1. PICK k \in 1..i - 1 : q[k] = Train(t, Block(t.file, n))
    BY <1>3 DEF Goes
  <2> QED BY <1>1, <1>2, <2>1
<1> QED BY <1>3, <1>4 DEF Goes, r

(* A train sent for u, the place of the client's task t at the server.     *)
LEMMA SentGoes ==
  ASSUME NEW q \in Seq(TrainRecord), NEW out \in Seq(TrainRecord), NEW t \in TaskRecord, NEW u \in TaskRecord,
         Ahead(q, t, u), u.file \in File, NEW i \in 1..Len(out),
         \/ out[i] = Slice(u) /\ u.pos < Size[u.file]
         \/ /\ out[i] = End(u) /\ Ends(u)
            /\ u.pos < Size[u.file] => \E l \in 1..i - 1 : out[l] = Slice(u)
  PROVE  Goes(q \o out, Len(q) + i, t)
<1> DEFINE r == q \o out
           m == Len(q) + i
<1>1. /\ Len(q) \in Nat /\ Len(out) \in Nat /\ \A k \in 1..Len(q) : r[k] = q[k]
      /\ \A k \in 1..Len(out) : r[Len(q) + k] = out[k]
  BY Concat
<1>2. r[m] = out[i]
  BY <1>1
<1>3. /\ t.fd = u.fd /\ t.file = u.file /\ t.pos <= u.pos /\ Upto(q, t, u.pos)
      /\ t.pos \in Nat /\ u.pos \in Nat /\ Size[u.file] \in Nat /\ u.pos + 1 \in Nat
  BY Constants DEF Ahead, TaskRecord
<1>4. \A k \in 1..Len(q) : k \in 1..m - 1
  BY <1>1
<1> HIDE DEF r
<1>5. \A n \in t.pos + 1..u.pos : \E k \in 1..m - 1 : r[k] = Train(t, Block(t.file, n))
  <2> SUFFICES ASSUME NEW n \in t.pos + 1..u.pos
               PROVE  \E k \in 1..m - 1 : r[k] = Train(t, Block(t.file, n))
    OBVIOUS
  <2>1. PICK k \in 1..Len(q) : q[k] = Train(t, Block(t.file, n))
    BY <1>3 DEF Upto
  <2> QED BY <1>1, <1>4, <2>1
<1>6. CASE out[i] = Slice(u) /\ u.pos < Size[u.file]
  <2>1. /\ r[m].ctl_code = t.fd /\ r[m].block = Block(t.file, u.pos + 1)
        /\ r[m].block[2] = u.pos + 1
    BY <1>2, <1>3, <1>6, Blocks_ DEF Slice, Train
  <2>2. u.pos + 1 \in t.pos + 1..Size[t.file]
    BY <1>3, <1>6
  <2>3. \A n \in t.pos + 1..Size[t.file] : n < u.pos + 1 => n \in t.pos + 1..u.pos
    BY <1>3
  <2>4. r[m].block # None
    BY <1>3, <2>1, Blocks_
  <2> QED BY <1>5, <2>1, <2>2, <2>3, <2>4 DEF Goes, r
<1>7. CASE /\ out[i] = End(u) /\ Ends(u)
           /\ u.pos < Size[u.file] => \E l \in 1..i - 1 : out[l] = Slice(u)
  <2>1. r[m].ctl_code = t.fd /\ r[m].block = None
    BY <1>2, <1>3, <1>7 DEF End, Train
  <2>2. u.pos + 1 >= Size[u.file]
    BY <1>3, <1>7 DEF Ends
  <2>3. \A n \in t.pos + 1..Size[t.file] : \E k \in 1..m - 1 : r[k] = Train(t, Block(t.file, n))
    <3> SUFFICES ASSUME NEW n \in t.pos + 1..Size[t.file]
                 PROVE  \E k \in 1..m - 1 : r[k] = Train(t, Block(t.file, n))
      OBVIOUS
    <3>1. CASE n \in t.pos + 1..u.pos
      BY <1>5, <3>1
    <3>2. CASE n \notin t.pos + 1..u.pos
      <4>1. n = u.pos + 1 /\ u.pos < Size[u.file]
        BY <1>3, <2>2, <3>2
      <4>2. PICK l \in 1..i - 1 : out[l] = Slice(u)
        BY <1>7, <4>1
      <4>3. Len(q) + l \in 1..m - 1 /\ l \in 1..Len(out)
        BY <1>1, <4>2
      <4>4. r[Len(q) + l] = Train(t, Block(t.file, n))
        BY <1>1, <1>3, <4>1, <4>2, <4>3 DEF Slice, Train
      <4> QED BY <4>3, <4>4
    <3> QED BY <3>1, <3>2
  <2> QED BY <2>1, <2>3 DEF Goes, r
<1> QED BY <1>6, <1>7

(* The slices of t on the wire, after the next one of u.                   *)
LEMMA SentAhead ==
  ASSUME NEW q \in Seq(TrainRecord), NEW out \in Seq(TrainRecord), NEW t \in TaskRecord, NEW u \in TaskRecord,
         Ahead(q, t, u), u.file \in File,
         \A i \in 1..Len(out) : out[i].ctl_code = u.fd => out[i] = Slice(u),
         \E i \in 1..Len(out) : out[i] = Slice(u),
         NEW v, v.fd = u.fd, v.file = u.file, v.pos = u.pos + 1
  PROVE  Ahead(q \o out, t, v)
<1> DEFINE r == q \o out
<1>1. /\ Len(q) \in Nat /\ Len(out) \in Nat /\ \A k \in 1..Len(q) : r[k] = q[k]
      /\ \A k \in 1..Len(out) : r[Len(q) + k] = out[k] /\ Len(r) = Len(q) + Len(out)
      /\ Len(r) = Len(q) + Len(out)
  BY Concat
<1>2. /\ t.fd = u.fd /\ t.file = u.file /\ t.pos <= u.pos /\ Upto(q, t, u.pos)
      /\ t.pos \in Nat /\ u.pos \in Nat /\ u.pos + 1 \in Nat
  BY DEF Ahead, TaskRecord
<1> HIDE DEF r
<1>3. \A i \in 1..Len(r) : i \in 1..Len(q) \/ (i - Len(q) \in 1..Len(out) /\ r[i] = out[i - Len(q)])
  <2> SUFFICES ASSUME NEW i \in 1..Len(r), i \notin 1..Len(q)
               PROVE  i - Len(q) \in 1..Len(out) /\ r[i] = out[i - Len(q)]
    OBVIOUS
  <2>1. i - Len(q) \in 1..Len(out) /\ Len(q) + (i - Len(q)) = i
    BY <1>1
  <2> QED BY <1>1, <2>1
<1>4. ASSUME NEW i \in 1..Len(r), r[i].ctl_code = t.fd
      PROVE  r[i].block # None /\ r[i].block[2] <= v.pos
  <2>1. CASE i \in 1..Len(q)
    <3>1. q[i].block # None /\ q[i].block[2] <= u.pos
      BY <1>1, <1>2, <1>4, <2>1 DEF Upto
    <3>2. q[i].block[2] \in Nat
      <4>1. q[i] \in TrainRecord
        BY <2>1
      <4>2. q[i].block \in File \X Nat
        BY <3>1, <4>1 DEF TrainRecord
      <4> QED BY <4>2
    <3> QED BY <1>1, <1>2, <2>1, <3>1, <3>2
  <2>2. CASE i \notin 1..Len(q)
    <3>1. r[i] = Slice(u)
      BY <1>2, <1>3, <1>4, <2>2
    <3>2. r[i].block = Block(u.file, u.pos + 1)
      BY <3>1 DEF Slice, Train
    <3> QED BY <1>2, <3>2, Blocks_
  <2> QED BY <2>1, <2>2
<1>5. ASSUME NEW n \in t.pos + 1..v.pos
      PROVE  \E i \in 1..Len(r) : r[i] = Train(t, Block(t.file, n))
  <2>1. CASE n \in t.pos + 1..u.pos
    <3>1. PICK i \in 1..Len(q) : q[i] = Train(t, Block(t.file, n))
      BY <1>2, <2>1 DEF Upto
    <3>2. i \in 1..Len(r)
      BY <1>1
    <3> QED BY <1>1, <3>1, <3>2
  <2>2. CASE n \notin t.pos + 1..u.pos
    <3>1. n = u.pos + 1
      BY <1>2, <2>2
    <3>2. PICK i \in 1..Len(out) : out[i] = Slice(u)
      OBVIOUS
    <3>3. Len(q) + i \in 1..Len(r) /\ r[Len(q) + i] = Slice(u)
      BY <1>1, <3>2
    <3> QED BY <1>2, <3>1, <3>3 DEF Slice, Train
  <2> QED BY <2>1, <2>2
<1> QED BY <1>2, <1>4, <1>5 DEF Ahead, Upto, r

(* The trains r of connection c, when the tasks have sent their share.      *)
Sent(c, tasks, r) ==
  /\ r \in Seq(TrainRecord) /\ Ordered(r)
  /\ \A i \in 1..Len(r) : \E j \in Active : Goes(r, i, task[j])
  /\ \A k \in Index : \A v :
       /\ tasks[k].fd # 0 /\ ~Ends(tasks[k])
       /\ v.fd = tasks[k].fd /\ v.file = tasks[k].file /\ v.pos = tasks[k].pos + 1
       => \E j \in Active : Ahead(r, task[j], v)
  /\ \A i \in 1..Len(requests[c]) :
       \E j \in Active : task[j] = requests[c][i] /\ Upto(r, task[j], task[j].pos)

(* What is on the wire of the client's connection after an event.          *)
LEMMA SentTrains ==
  ASSUME DownloadInv, NEW c \in Conn, c = cfd, Up(c), NEW s \in Held(c),
         NEW tasks, tasks = client[s].cdinfo, NEW q, q = trains[c],
         NEW out, Carries(out, tasks, TaskMax), NEW r, r = q \o out
  PROVE  Sent(c, tasks, r)
<1> USE DEF DownloadInv, Sent
<1>0. cfd # None /\ client[s] \in SlotRecord /\ SlotFits(client[s]) /\ s \in Slot
  BY SlotFacts, Constants DEF Slots, Live
<1>1. Runs(tasks)
  BY <1>0, SlotRuns
<1>2. \A k \in Index : tasks[k].fd # 0 => k \in TasksOf(client[s])
  BY DEF TasksOf
(* The client's task of a task of the slot.                                *)
<1>3. ASSUME NEW k \in Index, tasks[k].fd # 0
      PROVE  /\ tasks[k] \in TaskRecord /\ tasks[k].file \in File
             /\ tasks[k].pos \in Nat /\ Size[tasks[k].file] \in Nat
             /\ \E j \in Active : task[j] \in TaskRecord /\ Ahead(q, task[j], tasks[k])
  <2>1. tasks[k] \in TaskRecord /\ Within(tasks[k])
    BY <1>1, <1>3 DEF Runs
  <2>2. \E j \in Active : Ahead(q, task[j], tasks[k])
    BY <1>0, <1>2, <1>3 DEF Serving
  <2>3. \A j \in Active : task[j] \in TaskRecord
    BY TaskFacts DEF Active
  <2> QED BY <1>3, <2>1, <2>2, <2>3, Constants DEF TaskRecord, Within
<1>4. /\ q \in Seq(TrainRecord) /\ out \in Seq(TrainRecord) /\ r \in Seq(TrainRecord)
      /\ Len(r) = Len(q) + Len(out) /\ Len(q) \in Nat /\ Len(out) \in Nat
      /\ \A i \in 1..Len(q) : r[i] = q[i]
      /\ \A i \in 1..Len(out) : r[Len(q) + i] = out[i]
  <2>1. q \in Seq(TrainRecord) /\ out \in Seq(TrainRecord)
    BY DEF Types, Carries
  <2> QED BY <2>1, Concat
<1>5. \A i \in 1..Len(r) : i \in 1..Len(q) \/ \E l \in 1..Len(out) : i = Len(q) + l
  <2> SUFFICES ASSUME NEW i \in 1..Len(r), i \notin 1..Len(q)
               PROVE  \E l \in 1..Len(out) : i = Len(q) + l
    OBVIOUS
  <2>1. i - Len(q) \in 1..Len(out) /\ i = Len(q) + (i - Len(q))
    BY <1>4
  <2> QED BY <2>1
(* A train sent is a task's next slice, or its end.                        *)
<1>6. ASSUME NEW i \in 1..Len(out)
      PROVE  \E k \in Index :
               /\ tasks[k].fd # 0 /\ out[i].ctl_code = tasks[k].fd
               /\ \/ out[i] = Slice(tasks[k]) /\ tasks[k].pos < Size[tasks[k].file]
                  \/ /\ out[i] = End(tasks[k]) /\ Ends(tasks[k])
                     /\ tasks[k].pos < Size[tasks[k].file] =>
                          \E l \in 1..i - 1 : out[l] = Slice(tasks[k])
  <2>1. PICK k \in 1..TaskMax :
          /\ tasks[k].fd # 0
          /\ \/ out[i] = Slice(tasks[k]) /\ tasks[k].pos < Size[tasks[k].file]
             \/ out[i] = End(tasks[k]) /\ Ends(tasks[k])
    BY DEF Carries
  <2>2. out[i].ctl_code = tasks[k].fd
    BY <2>1 DEF Slice, End, Train
  <2>3. out[i] = End(tasks[k]) /\ tasks[k].pos < Size[tasks[k].file] =>
          \E l \in 1..i - 1 : out[l] = Slice(tasks[k])
    BY <2>1 DEF Carries
  <2> QED BY <2>1, <2>2, <2>3 DEF Index
<1>7. \A i \in 1..Len(r) : \E j \in Active : Goes(r, i, task[j])
  <2> SUFFICES ASSUME NEW i \in 1..Len(r)
               PROVE  \E j \in Active : Goes(r, i, task[j])
    OBVIOUS
  <2>1. CASE i \in 1..Len(q)
    <3>1. PICK j \in Active : Goes(q, i, task[j])
      BY <1>0, <2>1 DEF Arriving
    <3>2. Goes(q \o out, i, task[j])
      BY <1>4, <2>1, <3>1, GoesOn
    <3> QED BY <3>2
  <2>2. ASSUME NEW l \in 1..Len(out), i = Len(q) + l
        PROVE  \E j \in Active : Goes(r, i, task[j])
    <3>1. PICK k \in Index :
            /\ tasks[k].fd # 0
            /\ \/ out[l] = Slice(tasks[k]) /\ tasks[k].pos < Size[tasks[k].file]
               \/ /\ out[l] = End(tasks[k]) /\ Ends(tasks[k])
                  /\ tasks[k].pos < Size[tasks[k].file] =>
                       \E m \in 1..l - 1 : out[m] = Slice(tasks[k])
      BY <1>6
    <3>2. PICK j \in Active : task[j] \in TaskRecord /\ Ahead(q, task[j], tasks[k])
      BY <1>3, <3>1
    <3>3. PICK t \in TaskRecord, u \in TaskRecord : t = task[j] /\ u = tasks[k]
      BY <1>3, <3>1, <3>2
    <3>4. Ahead(q, t, u) /\ u.file \in File
      BY <1>3, <3>1, <3>2, <3>3
    <3>5. \/ out[l] = Slice(u) /\ u.pos < Size[u.file]
          \/ /\ out[l] = End(u) /\ Ends(u)
             /\ u.pos < Size[u.file] => \E m \in 1..l - 1 : out[m] = Slice(u)
      BY <3>1, <3>3
    <3>6. Goes(q \o out, Len(q) + l, t)
      BY <1>4, <3>4, <3>5, SentGoes
    <3> QED BY <2>2, <3>3, <3>6
  <2> QED BY <1>5, <2>1, <2>2
<1>8. Ordered(q)
  BY <1>0 DEF Arriving
<1>9. ASSUME NEW i \in 1..Len(q), NEW l \in 1..Len(out), q[i].ctl_code = out[l].ctl_code
      PROVE  q[i].block # None /\ q[i].block # out[l].block
  <2>1. PICK k \in Index :
          /\ tasks[k].fd # 0 /\ out[l].ctl_code = tasks[k].fd
          /\ \/ out[l] = Slice(tasks[k]) /\ tasks[k].pos < Size[tasks[k].file]
             \/ out[l] = End(tasks[k]) /\ Ends(tasks[k])
    BY <1>6
  <2>2. PICK j \in Active : Ahead(q, task[j], tasks[k])
    BY <1>3, <2>1
  <2>3. q[i].block # None /\ q[i].block[2] <= tasks[k].pos
    BY <1>9, <2>1, <2>2 DEF Ahead, Upto
  <2>4. out[l].block = None \/ out[l].block = Block(tasks[k].file, tasks[k].pos + 1)
    BY <2>1 DEF Slice, End, Train
  <2>5. Block(tasks[k].file, tasks[k].pos + 1)[2] = tasks[k].pos + 1 /\ tasks[k].pos \in Nat
    BY <1>3, <2>1, Blocks_
  <2>6. ~(tasks[k].pos + 1 <= tasks[k].pos)
    BY <2>5
  <2> QED BY <2>3, <2>4, <2>5, <2>6
<1>10. ASSUME NEW i \in 1..Len(r), NEW k \in 1..Len(r), i < k, r[i].ctl_code = r[k].ctl_code
       PROVE  r[i].block # None /\ r[i].block # r[k].block
  <2>1. CASE k \in 1..Len(q)
    <3>1. i \in 1..Len(q)
      BY <1>4, <1>10, <2>1
    <3> QED BY <1>4, <1>8, <1>10, <2>1, <3>1 DEF Ordered
  <2>2. CASE i \in 1..Len(q) /\ k \notin 1..Len(q)
    <3>1. PICK l \in 1..Len(out) : k = Len(q) + l
      BY <1>5, <2>2
    <3>2. r[i] = q[i] /\ r[k] = out[l]
      BY <1>4, <2>2, <3>1
    <3> QED BY <1>9, <1>10, <2>2, <3>2
  <2>3. CASE i \notin 1..Len(q) /\ k \notin 1..Len(q)
    <3>1. PICK m \in 1..Len(out), l \in 1..Len(out) : i = Len(q) + m /\ k = Len(q) + l
      BY <1>5, <2>3
    <3>2. m < l /\ out[m].ctl_code = out[l].ctl_code
      BY <1>4, <1>10, <3>1
    <3>3. out[m].block # None /\ out[l].block = None
      BY <3>2 DEF Carries
    <3> QED BY <1>4, <3>1, <3>3
  <2>4. CASE i \notin 1..Len(q) /\ k \in 1..Len(q)
    BY <1>4, <1>10, <2>4
  <2> QED BY <2>1, <2>2, <2>3, <2>4
<1>10a. Ordered(r)
  BY ONLY <1>10 DEF Ordered
<1>11. ASSUME NEW k \in Index, NEW v, tasks[k].fd # 0, ~Ends(tasks[k]),
              v.fd = tasks[k].fd, v.file = tasks[k].file, v.pos = tasks[k].pos + 1
       PROVE  \E j \in Active : Ahead(r, task[j], v)
  <2>1. PICK j \in Active : task[j] \in TaskRecord /\ Ahead(q, task[j], tasks[k])
    BY <1>3, <1>11
  <2>2. PICK t \in TaskRecord, u \in TaskRecord : t = task[j] /\ u = tasks[k]
    BY <1>3, <1>11, <2>1
  <2>3. Ahead(q, t, u) /\ u.file \in File /\ u.fd # 0
    BY <1>3, <1>11, <2>1, <2>2
  <2>4. \A i \in 1..Len(out) : out[i].ctl_code = u.fd => out[i] = Slice(u)
    <3> SUFFICES ASSUME NEW i \in 1..Len(out), out[i].ctl_code = u.fd
                 PROVE  out[i] = Slice(u)
      OBVIOUS
    <3>1. PICK m \in Index :
            /\ tasks[m].fd # 0 /\ out[i].ctl_code = tasks[m].fd
            /\ \/ out[i] = Slice(tasks[m])
               \/ out[i] = End(tasks[m]) /\ Ends(tasks[m])
      BY <1>6
    <3>2. m = k
      BY <1>1, <2>2, <3>1 DEF Runs
    <3> QED BY <1>11, <2>2, <3>1, <3>2
  <2>5. \E i \in 1..Len(out) : out[i] = Slice(u)
    <3>1. tasks[k].pos < Size[tasks[k].file]
      BY <1>3, <1>11 DEF Ends
    <3> QED BY <1>11, <2>2, <3>1 DEF Carries, Index
  <2>6. Ahead(q \o out, t, v)
    BY <1>4, <1>11, <2>2, <2>3, <2>4, <2>5, SentAhead
  <2> QED BY <2>2, <2>6
<1>12. ASSUME NEW i \in 1..Len(requests[c])
       PROVE  \E j \in Active : task[j] = requests[c][i] /\ Upto(r, task[j], task[j].pos)
  <2>1. PICK j \in Active : task[j] = requests[c][i] /\ Upto(q, task[j], task[j].pos)
    BY <1>0 DEF Awaited
  <2>2. \A l \in 1..Len(out) : out[l].ctl_code # task[j].fd
    <3> SUFFICES ASSUME NEW l \in 1..Len(out), out[l].ctl_code = task[j].fd  PROVE FALSE
      OBVIOUS
    <3>1. PICK k \in Index : tasks[k].fd = task[j].fd
      BY <1>6
    <3>2. AskedOn(c)
      BY DEF Asked
    <3> QED BY <2>1, <3>1, <3>2 DEF AskedOn
  <2>3. ASSUME NEW l \in 1..Len(r), r[l].ctl_code = task[j].fd
        PROVE  l \in 1..Len(q) /\ r[l] = q[l]
    <3>1. CASE l \in 1..Len(q)
      BY <1>4, <3>1
    <3>2. ASSUME NEW m \in 1..Len(out), l = Len(q) + m  PROVE FALSE
      <4>1. r[l] = out[m]
        BY <1>4, <3>2
      <4> QED BY <2>2, <2>3, <4>1
    <3> QED BY <1>5, <3>1, <3>2
  <2>4. \A l \in 1..Len(q) : l \in 1..Len(r)
    BY <1>4
  <2>5. Upto(r, task[j], task[j].pos)
    <3>1. \A l \in 1..Len(r) : r[l].ctl_code = task[j].fd => r[l].block # None /\ r[l].block[2] <= task[j].pos
      <4> SUFFICES ASSUME NEW l \in 1..Len(r), r[l].ctl_code = task[j].fd
                   PROVE  r[l].block # None /\ r[l].block[2] <= task[j].pos
        OBVIOUS
      <4>1. l \in 1..Len(q) /\ r[l] = q[l]
        BY <2>3
      <4> QED BY <2>1, <4>1 DEF Upto
    <3>2. \A n \in task[j].pos + 1..task[j].pos :
            \E l \in 1..Len(r) : r[l] = Train(task[j], Block(task[j].file, n))
      BY <1>4, <2>1, <2>4 DEF Upto
    <3> QED BY <3>1, <3>2 DEF Upto
  <2> QED BY <2>1, <2>5
<1> QED BY <1>4, <1>7, <1>10a, <1>11, <1>12

LEMMA SendSlicesNext ==
  ASSUME DownloadInv, NEW c \in Conn, SendSlices(c)
  PROVE  DownloadInv'
<1> USE DEF DownloadInv
<1>0. PICK s \in Held(c) :
        LET tasks == client[s].cdinfo
            left  == client[s].task_num - Cardinality({k \in 1..TaskMax : Ends(tasks[k])})
        IN /\ trains' = [trains EXCEPT ![c] =
                           IF ssock[c] = "open" THEN @ \o Outgoing(tasks) ELSE @]
           /\ IF left = 0
              THEN /\ client' = [client EXCEPT ![s] = FreeSlot]
                   /\ busy_num' = busy_num - 1
                   /\ CloseSockets({c})
              ELSE /\ client' = [client EXCEPT ![s] =
                                   [download_fd |-> c, task_num |-> left,
                                    cdinfo |-> [k \in 1..TaskMax |-> Advanced(tasks[k])]]]
                   /\ ssock' = [ssock EXCEPT ![c] = SendOn(@)]
                   /\ UNCHANGED <<busy_num, csock>>
  BY DEF SendSlices
<1>1. PICK tasks, left : /\ tasks = client[s].cdinfo
                         /\ left = client[s].task_num - Cardinality({k \in 1..TaskMax : Ends(client[s].cdinfo[k])})
  OBVIOUS
<1>2. /\ evs' = evs \ {c} /\ ~Failed(ssock[c])
      /\ UNCHANGED <<clientVars, requests, pipe, up>>
  BY DEF SendSlices
<1>3. /\ s \in Live /\ s \in Slot /\ client[s].download_fd = c /\ c # None
      /\ client[s] \in SlotRecord /\ SlotFits(client[s]) /\ Up(c) /\ Runs(tasks)
      /\ \A t \in Slot : t # s => t \notin Held(c)
  <2>1. s \in Live /\ s \in Slot /\ client[s].download_fd = c /\ client[s] \in SlotRecord
    BY SlotFacts
  <2>2. SlotFits(client[s]) /\ Up(c)
    BY <2>1, Constants DEF Slots
  <2>3. \A t \in Held(c) : t \in Live /\ client[t].download_fd = c
    BY SlotFacts
  <2> QED BY <1>1, <2>1, <2>2, <2>3, SlotRuns, Constants DEF Slots
<1>4. PICK out \in Seq(TrainRecord) : out = Outgoing(tasks) /\ Carries(out, tasks, TaskMax)
  BY <1>3, OutgoingCarries DEF Carries
<1>5. /\ trains' \in [Conn -> Seq(TrainRecord)]
      /\ trains'[c] = IF ssock[c] = "open" THEN trains[c] \o out ELSE trains[c]
      /\ \A e \in Conn : e # c => trains'[e] = trains[e]
  <2>1. trains \in [Conn -> Seq(TrainRecord)]
    BY DEF Types
  <2>2. trains[c] \o out \in Seq(TrainRecord)
    BY <2>1, Concat
  <2>3. trains' = [trains EXCEPT ![c] = IF ssock[c] = "open" THEN trains[c] \o out ELSE trains[c]]
    BY <1>0, <1>1, <1>4
  <2> QED BY <2>1, <2>2, <2>3
<1>5a. ASSUME cfd = c, NEW r, r = trains[c] \o out
       PROVE  /\ r \in Seq(TrainRecord) /\ Ordered(r)
              /\ \A i \in 1..Len(r) : \E j \in Active : Goes(r, i, task[j])
              /\ \A k \in Index : \A v :
                   /\ tasks[k].fd # 0 /\ ~Ends(tasks[k])
                   /\ v.fd = tasks[k].fd /\ v.file = tasks[k].file /\ v.pos = tasks[k].pos + 1
                   => \E j \in Active : Ahead(r, task[j], v)
              /\ \A i \in 1..Len(requests[c]) :
                   \E j \in Active : task[j] = requests[c][i] /\ Upto(r, task[j], task[j].pos)
  <2> HIDE DEF DownloadInv
  <2>1. DownloadInv /\ c \in Conn /\ c = cfd /\ Up(c) /\ s \in Held(c)
    BY ONLY DownloadInv, c \in Conn, s \in Held(c), <1>3, <1>5a
  <2>2. tasks = client[s].cdinfo /\ Carries(out, tasks, TaskMax)
    BY ONLY <1>1, <1>4
  <2>3. PICK q : q = trains[c]
    OBVIOUS
  <2>4. r = q \o out
    BY ONLY <1>5a, <2>3
  <2>5. Sent(c, tasks, r)
    BY ONLY <2>1, <2>2, <2>3, <2>4, SentTrains
  <2> QED BY ONLY <2>5 DEF Sent
<1>6. Tasks' /\ Files'
  BY <1>2, TasksSame DEF clientVars
<1>7. Pipe \in evs' => pipe # <<>>
  BY <1>2 DEF Pipes
<1>8. \A e \in Conn : csock[e] = "new" => trains'[e] = trains[e] /\ requests'[e] = requests[e]
  BY <1>2, <1>3, <1>5 DEF Sockets, Up
<1>9. CASE left = 0
  <2>1. /\ client' = [client EXCEPT ![s] = FreeSlot] /\ busy_num' = busy_num - 1 /\ CloseSockets({c})
    BY <1>0, <1>1, <1>9
  <2>2. /\ client' \in [Slot -> SlotRecord] /\ client'[s] = FreeSlot
        /\ \A t \in Slot : t # s => client'[t] = client[t]
    BY <1>3, <2>1, Records DEF Types
  <2>3. /\ Sockets' /\ csock' \in [Conn -> States] /\ ssock' \in [Conn -> States]
        /\ \A e \in Conn \ {c} : Up(e)' <=> Up(e)
        /\ \A e \in {c} : ~Up(e)'
    <3>1. {c} \in SUBSET Conn /\ cfd' = cfd /\ \A e \in {c} : ssock[e] # "new"
      BY <1>2, <1>3 DEF clientVars, Up
    <3> QED BY <1>8, <2>1, <3>1, SocketsDropped
  <2>4. /\ Slots' /\ Pipes' /\ busy_num' \in Nat
        /\ \A e \in Conn : Held(e)' = Held(e) \ {s}
    <3>1. {s} \in SUBSET Live /\ Cardinality({s}) = 1
      BY <1>3, FS_Singleton
    <3>2. \A t \in Live \ {s} : SlotFits(client'[t])
      BY <2>2 DEF Live, Slots
    <3>3. \A e \in Conn : (\A t \in {s} : client[t].download_fd # e) => (Up(e) => Up(e)')
      BY <1>3, <2>3
    <3>4. pipe' = pipe /\ \A t \in Slot \ Live : client'[t] = client[t]
      BY <1>2, <1>3, <2>2
    <3> QED BY <1>7, <2>1, <2>2, <3>1, <3>2, <3>3, <3>4, Freeing
  <2>5. Types'
    BY <1>2, <1>5, <2>2, <2>3, <2>4 DEF Types, clientVars
  <2>6. \A e \in Conn : \A t \in Held(e)' : t \in Held(e) /\ client'[t] = client[t]
    BY <2>2, <2>4, SlotFacts
  <2>7. \A e \in Conn : Up(e)' => Up(e)
    BY <2>3
  <2>8. Asked'
    BY <1>2, <2>6, <2>7, AskedFewer
  <2>9. Arriving' /\ Serving' /\ Awaited'
    <3>1. CASE cfd # c
      BY <1>2, <1>5, <2>6, <2>7, <3>1, Elsewhere
    <3>2. CASE cfd = c
      <4>1. /\ cfd' = c /\ task' = task /\ Active' = Active /\ Held(c)' = {} /\ ~Up(c)'
        BY <1>2, <1>3, <2>3, <2>4, <3>2, SlotFacts DEF clientVars, Active, Held
      <4>2. Held(cfd)' = {} /\ ~Up(cfd)'
        BY <4>1 DEF Held, Up
      <4>3. /\ Ordered(trains'[c])
            /\ \A i \in 1..Len(trains'[c]) : \E j \in Active : Goes(trains'[c], i, task[j])
        <5>1. CASE ssock[c] = "open"
          <6>1. PICK r : r = trains[c] \o out
            OBVIOUS
          <6>2. Ordered(r) /\ \A i \in 1..Len(r) : \E j \in Active : Goes(r, i, task[j])
            BY <1>5a, <3>2, <6>1
          <6> QED BY <1>5, <5>1, <6>1, <6>2
        <5>2. CASE ssock[c] # "open"
          BY <1>3, <1>5, <3>2, <5>2 DEF Arriving
        <5> QED BY <5>1, <5>2
      <4>4. Arriving'
        BY <4>1, <4>3 DEF Arriving
      <4> QED BY <4>2, <4>4 DEF Serving, Awaited
    <3> QED BY <3>1, <3>2
  <2> QED BY <1>6, <2>3, <2>4, <2>5, <2>8, <2>9
<1>10. CASE left # 0
  <2>0. PICK slot, old :
          /\ old = client[s]
          /\ slot = [download_fd |-> c, task_num |-> left,
                     cdinfo |-> [k \in 1..TaskMax |-> Advanced(client[s].cdinfo[k])]]
    OBVIOUS
  <2>1. /\ client' = [client EXCEPT ![s] = slot] /\ ssock' = [ssock EXCEPT ![c] = SendOn(@)]
        /\ UNCHANGED <<busy_num, csock>>
    BY <1>0, <1>1, <1>10, <2>0
  <2>2. /\ slot \in SlotRecord /\ SlotFits(slot) /\ slot.download_fd = c
        /\ \A k \in Index : slot.cdinfo[k] = Advanced(tasks[k])
    <3>1. old \in SlotRecord /\ SlotFits(old) /\ c \in Conn
      BY ONLY <1>3, <2>0, c \in Conn
    <3>2. left = old.task_num - Cardinality({k \in 1..TaskMax : Ends(old.cdinfo[k])})
      BY ONLY <1>1, <2>0
    <3>3. slot = [download_fd |-> c, task_num |-> left,
                  cdinfo |-> [k \in 1..TaskMax |-> Advanced(old.cdinfo[k])]]
      BY ONLY <2>0
    <3>4. /\ slot \in SlotRecord /\ SlotFits(slot) /\ slot.download_fd = c
          /\ \A k \in Index : slot.cdinfo[k] = Advanced(old.cdinfo[k])
      BY ONLY <3>1, <3>2, <3>3, SlotAdvances
    <3>5. tasks = old.cdinfo
      BY ONLY <1>1, <2>0
    <3> QED BY ONLY <3>4, <3>5
  <2>3. /\ client' \in [Slot -> SlotRecord] /\ client'[s] = slot
        /\ \A t \in Slot : t # s => client'[t] = client[t]
    BY <1>3, <2>1, <2>2 DEF Types
  <2>4. /\ ssock' \in [Conn -> States]
        /\ ssock'[c] = SendOn(ssock[c]) /\ \A e \in Conn : e # c => ssock'[e] = ssock[e]
        /\ SendOn(ssock[c]) = "new" <=> ssock[c] = "new"
        /\ SendOn(ssock[c]) = "closed" <=> ssock[c] = "closed"
        /\ ssock[c] # "fin" => SendOn(ssock[c]) = ssock[c]
    <3>1. ssock \in [Conn -> States] /\ ssock[c] \in States
      BY DEF Types
    <3>2. /\ SendOn(ssock[c]) \in States
          /\ SendOn(ssock[c]) = "new" <=> ssock[c] = "new"
          /\ SendOn(ssock[c]) = "closed" <=> ssock[c] = "closed"
          /\ ssock[c] # "fin" => SendOn(ssock[c]) = ssock[c]
      BY <3>1, SendOnIs
    <3> QED BY <2>1, <3>1, <3>2
  <2>5. \A e \in Conn : Up(e)' <=> Up(e)
    BY <2>4 DEF Up
  <2>6. Sockets'
    <3>1. cfd # None => cfd \in Conn
      BY DEF Types
    <3>2. cfd # None => ssock'[cfd] \in {"open", "closed"}
      BY <2>4, <3>1 DEF Sockets
    <3> QED BY <1>2, <1>8, <2>1, <2>4, <3>1, <3>2 DEF Sockets, clientVars
  <2>7. /\ Slots' /\ Pipes' /\ \A e \in Conn : Held(e)' = Held(e)
    <3>0. PICK none : none = {}
      OBVIOUS
    <3>1. none \in SUBSET Live /\ Cardinality(none) = 0 /\ busy_num' = busy_num - Cardinality(none)
      <4>1. busy_num' = busy_num /\ busy_num \in Nat
        BY <2>1 DEF Types
      <4>2. Cardinality(none) = 0
        BY <3>0, FS_EmptySet
      <4> QED BY ONLY <3>0, <4>1, <4>2
    <3>2. \A t \in Live \ none : SlotFits(client'[t])
      BY <2>2, <2>3 DEF Live, Slots
    <3>3. /\ \A t \in none : client'[t] = FreeSlot
          /\ \A t \in Slot \ none : client'[t].download_fd = client[t].download_fd
      BY <1>3, <2>2, <2>3, <3>0
    <3>4. pipe' = pipe /\ \A t \in Slot \ Live : client'[t] = client[t]
      BY <1>2, <1>3, <2>3
    <3>5. \A e \in Conn : (\A t \in none : client[t].download_fd # e) => (Up(e) => Up(e)')
      BY <2>5
    <3>6. Types /\ Slots /\ Pipes
      OBVIOUS
    <3>7. Slots' /\ Pipes' /\ \A e \in Conn : Held(e)' = Held(e) \ none
      BY ONLY <1>7, <2>3, <3>1, <3>2, <3>3, <3>4, <3>5, <3>6, Freeing
    <3> QED BY ONLY <3>0, <3>7
  <2>8. Types'
    BY <1>2, <1>5, <2>1, <2>3, <2>4 DEF Types, clientVars
  <2>9. \A k \in Index : /\ slot.cdinfo[k].fd \in {0, tasks[k].fd}
                         /\ slot.cdinfo[k].fd # 0 =>
                              /\ tasks[k].fd # 0 /\ ~Ends(tasks[k])
                              /\ slot.cdinfo[k].fd = tasks[k].fd /\ slot.cdinfo[k].file = tasks[k].file
                              /\ slot.cdinfo[k].pos = tasks[k].pos + 1
    <3> SUFFICES ASSUME NEW k \in Index
                 PROVE  /\ slot.cdinfo[k].fd \in {0, tasks[k].fd}
                        /\ slot.cdinfo[k].fd # 0 =>
                             /\ tasks[k].fd # 0 /\ ~Ends(tasks[k])
                             /\ slot.cdinfo[k].fd = tasks[k].fd /\ slot.cdinfo[k].file = tasks[k].file
                             /\ slot.cdinfo[k].pos = tasks[k].pos + 1
      OBVIOUS
    <3>1. PICK t \in TaskRecord : t = tasks[k] /\ (t.fd # 0 => Within(t) /\ Startable(t))
      BY <1>3 DEF Runs
    <3> QED BY <2>2, <3>1, AdvancedIs, Records
  <2>10. Asked'
    <3>1. \A e \in Conn : \A t \in Held(e)' : \A k \in Index :
            client'[t].cdinfo[k].fd \in {0, client[t].cdinfo[k].fd}
      BY <1>1, <2>3, <2>7, <2>9, SlotFacts DEF Live
    <3> QED BY <1>2, <2>5, <2>7, <3>1, AskedFewer
  <2>11. Arriving' /\ Serving' /\ Awaited'
    <3>1. CASE cfd # c
      <4>1. \A e \in Conn : e = cfd => \A t \in Held(e)' : t \in Held(e) /\ client'[t] = client[t]
        BY <1>3, <2>3, <2>7, <3>1, SlotFacts DEF Live
      <4>2. \A e \in Conn : e = cfd => trains'[e] = trains[e] /\ requests'[e] = requests[e] /\ (Up(e)' => Up(e))
        BY <1>2, <1>5, <2>5, <3>1
      <4> QED BY <1>2, <4>1, <4>2, Elsewhere
    <3>2. CASE cfd = c
      <4>1. ssock[c] = "open"
        BY <1>3, <3>2 DEF Sockets, Up
      <4>2. PICK r : r = trains[c] \o out
        OBVIOUS
      <4>3. /\ r \in Seq(TrainRecord) /\ Ordered(r)
            /\ \A i \in 1..Len(r) : \E j \in Active : Goes(r, i, task[j])
            /\ \A k \in Index : \A v :
                 /\ tasks[k].fd # 0 /\ ~Ends(tasks[k])
                 /\ v.fd = tasks[k].fd /\ v.file = tasks[k].file /\ v.pos = tasks[k].pos + 1
                 => \E j \in Active : Ahead(r, task[j], v)
            /\ \A i \in 1..Len(requests[c]) :
                 \E j \in Active : task[j] = requests[c][i] /\ Upto(r, task[j], task[j].pos)
        BY ONLY <1>5a, <3>2, <4>2
      <4>4. trains'[c] = r /\ requests' = requests
        BY <1>2, <1>5, <4>1, <4>2
      <4>5. /\ cfd' = c /\ task' = task /\ Active' = Active /\ Held(c)' = Held(c)
        BY <1>2, <2>7, <3>2 DEF clientVars, Active
      <4>6. Held(cfd)' = Held(c)'
        BY <4>5 DEF Held
      <4>7. Arriving'
        BY <4>3, <4>4, <4>5 DEF Arriving
      <4>8. \A t \in Held(c) : \A k \in TasksOf(client'[t]) :
              \E j \in Active : Ahead(r, task[j], client'[t].cdinfo[k])
        <5> SUFFICES ASSUME NEW t \in Held(c), NEW k \in TasksOf(client'[t])
                     PROVE  \E j \in Active : Ahead(r, task[j], client'[t].cdinfo[k])
          OBVIOUS
        <5>1. t = s /\ client'[t] = slot
          BY <1>3, <2>3, SlotFacts DEF Live
        <5>2. k \in Index /\ slot.cdinfo[k].fd # 0
          BY <5>1 DEF TasksOf
        <5> QED BY <2>9, <4>3, <5>1, <5>2
      <4>9. Serving'
        BY <4>4, <4>5, <4>6, <4>8 DEF Serving
      <4>10. Awaited'
        BY <4>3, <4>4, <4>5 DEF Awaited
      <4> QED BY <4>7, <4>9, <4>10
    <3> QED BY <3>1, <3>2
  <2> QED BY <1>6, <2>6, <2>7, <2>8, <2>10, <2>11
<1> QED BY <1>9, <1>10

-----------------------------------------------------------------------------
(* Theorems *)

LEMMA InitDownload == Init => DownloadInv
<1> SUFFICES ASSUME Init  PROVE DownloadInv
  OBVIOUS
<1>1. /\ task = [j \in 1..TaskMax |-> NoTask] /\ task_num = 0 /\ cfd = None
      /\ local = [f \in File |-> <<>>]
      /\ csock = [c \in Conn |-> "new"] /\ ssock = [c \in Conn |-> "new"]
      /\ requests = [c \in Conn |-> <<>>] /\ trains = [c \in Conn |-> <<>>]
      /\ pipe = <<>> /\ client = [s \in Slot |-> FreeSlot] /\ busy_num = 0
      /\ evs = {} /\ up = TRUE
  BY DEF Init
<1>2. "new" \in States /\ <<>> \in Seq(Blocks) /\ <<>> \in Seq(Question) /\ <<>> \in Seq(TrainRecord)
      /\ <<>> \in Seq(Conn)
  BY DEF States
<1>3. Types
  BY <1>1, <1>2, Records DEF Types, Index
<1>4. \A j \in Index : task[j] = NoTask
  BY <1>1 DEF Index
<1>5. Active = {}
  BY <1>4, Records DEF Active
<1>6. Tasks
  BY <1>1, <1>4, <1>5, Records, FS_EmptySet DEF Tasks, Within
<1>7. Files
  BY <1>1, <1>5, Constants DEF Files, FileOk
<1>8. \A s \in Slot : client[s] = FreeSlot
  BY <1>1
<1>9. Live = {} /\ \A c \in Conn : ~Up(c)
  BY <1>1, <1>8, Records DEF Live, Up
<1>10. Sockets
  BY <1>1 DEF Sockets
<1>11. Slots
  BY <1>8, <1>9, Records DEF Slots
<1>12. Pipes
  <2>1. Cardinality(Live) = 0 /\ Len(pipe) = 0
    BY <1>1, <1>9, FS_EmptySet
  <2> QED BY <1>1, <2>1, Constants DEF Pipes
<1>13. Asked
  BY <1>9 DEF Asked
<1>14. Arriving /\ Serving /\ Awaited
  BY <1>1 DEF Arriving, Serving, Awaited
<1> QED BY <1>3, <1>6, <1>7, <1>10, <1>11, <1>12, <1>13, <1>14 DEF DownloadInv

LEMMA StepDownload ==
  ASSUME Once, DownloadInv, [Next]_vars
  PROVE  DownloadInv'
<1>1. ASSUME NEW f \in File, NEW d \in 1..TaskMax, GetFirst(f, d) \/ GetMore(f, d)
      PROVE  DownloadInv'
  BY <1>1, GetFirstNext, GetMoreNext DEF Index
<1>2. CASE ReadData
  BY <1>2, ReadDataNext
<1>3. CASE ReadEnd
  BY <1>3, ReadEndNext
<1>4. CASE ReadEof \/ Quit
  BY <1>4, ExitNext DEF ReadEof, Quit
<1>5. CASE EpollWait
  BY <1>5, EpollNext
<1>6. CASE TakeConnection
  BY <1>6, TakeNext
<1>7. CASE ReadRequests
  BY <1>7, ReadRequestsNext
<1>8. ASSUME NEW c \in Conn, SendSlices(c) \/ SendFails(c) \/ SigPipe(c) \/ DropEvent(c) \/ ResetArrives(c)
      PROVE  DownloadInv'
  BY <1>8, SendSlicesNext, FailsNext, SigPipeNext, DropNext, ResetNext
<1>9. CASE UNCHANGED vars
  <2>1. evs \subseteq Conn \cup {Pipe, Cin} /\ (Pipe \in evs => pipe # <<>>)
    BY DEF DownloadInv, Types, Pipes
  <2> QED BY <1>9, <2>1, EventsOnly DEF vars, serverVars
<1> QED BY <1>1, <1>2, <1>3, <1>4, <1>5, <1>6, <1>7, <1>8, <1>9
        DEF Next, Get, ClientStep, ServerStep

THEOREM DownloadInvariant ==
  ASSUME Once
  PROVE  Spec => []DownloadInv
<1>1. Init => DownloadInv
  BY InitDownload
<1>2. DownloadInv /\ [Next]_vars => DownloadInv'
  BY StepDownload
<1> QED BY <1>1, <1>2, PTL DEF Spec


LEMMA WholeIs ==
  ASSUME NEW f \in File
  PROVE  /\ Whole(f) \in Seq(Blocks) /\ Len(Whole(f)) = Size[f]
         /\ \A i \in 1..Size[f] : Whole(f)[i] = Block(f, i)
<1>1. PICK n \in Nat : n = Size[f]
  BY Constants
<1>2. \A i \in 1..n : Block(f, i) \in Blocks
  BY Blocks_
<1>3. PICK s \in [1..n -> Blocks] : s = [i \in 1..n |-> Block(f, i)]
  BY <1>2
<1>4. s \in Seq(Blocks) /\ Len(s) = n
  BY Listing
<1> QED BY <1>1, <1>3, <1>4 DEF Whole

(* In every state allowed by the invariant, each variable has the type and *)
(* the bounds TypeOK gives it.                                             *)
LEMMA InvTypes ==
  ASSUME DownloadInv
  PROVE  TypeOK
<1> USE DEF DownloadInv
<1>1. ASSUME NEW j \in 1..TaskMax
      PROVE  /\ task[j].fd \in 0..TaskMax
             /\ task[j].pos \in 0..(IF task[j].fd = 0 THEN 0 ELSE Size[task[j].file])
  <2>1. PICK t \in TaskRecord : t = task[j] /\ Within(t) /\ (t.fd = 0 => t = NoTask)
    BY DEF Types, Tasks, Index
  <2>2. t.fd \in 0..TaskMax /\ t.pos \in Nat
    BY DEF TaskRecord
  <2>3. CASE t.fd = 0
    BY <2>1, <2>2, <2>3, Records
  <2>4. CASE t.fd # 0
    <3>1. t.pos <= Size[t.file] /\ Size[t.file] \in Nat
      BY <2>1, <2>4, Constants DEF Within
    <3> QED BY <2>1, <2>2, <2>4, <3>1
  <2> QED BY <2>3, <2>4
<1>2. task_num \in 0..TaskMax
  BY ActiveFinite, Constants DEF Tasks
<1>3. ASSUME NEW s \in Slot
      PROVE  SlotOk(s)
  <2>1. client[s] \in SlotRecord
    BY SlotFacts
  <2>2. client[s].download_fd \in Conn \cup {None} /\ client[s].task_num \in Nat
    BY <2>1 DEF SlotRecord
  <2>3. \A k \in 1..TaskMax : client[s].cdinfo[k].fd \in 0..TaskMax
    BY <2>1 DEF SlotRecord, TaskRecord, Index
  <2>4. client[s].task_num <= TaskMax
    <3>1. CASE s \in Live
      <4>1. client[s].task_num = Cardinality(TasksOf(client[s]))
        BY <3>1 DEF Live, Slots, SlotFits
      <4>2. IsFiniteSet(Index) /\ Cardinality(Index) = TaskMax
        <5>1. 1 \in Int /\ TaskMax \in Int /\ ~(1 > TaskMax) /\ TaskMax - 1 + 1 = TaskMax
          BY Constants
        <5> QED BY <5>1, FS_Interval DEF Index
      <4>3. TasksOf(client[s]) \in SUBSET Index
        BY DEF TasksOf
      <4> QED BY <4>1, <4>2, <4>3, FS_Subset
    <3>2. CASE s \notin Live
      <4>1. client[s] = FreeSlot
        BY <3>2 DEF Live, Slots
      <4> QED BY <4>1, Records, Constants
    <3> QED BY <3>1, <3>2
  <2>5. client[s].task_num \in 0..TaskMax
    BY <2>2, <2>4, Constants
  <2> QED BY <2>2, <2>3, <2>5 DEF SlotOk
<1>4. busy_num \in 0..AVG_CLIENT_NUM
  BY Constants DEF Types, Pipes
<1> QED BY <1>1, <1>2, <1>3, <1>4 DEF TypeOK, Types

(* Every variable has its type; a slot has at most TaskMax tasks, the      *)
(* thread at most AVG_CLIENT_NUM connections, a task is within its file.   *)
THEOREM DownloadTypes ==
  ASSUME Once
  PROVE  Spec => []TypeOK
<1>1. DownloadInv => TypeOK
  BY InvTypes
<1> QED BY <1>1, DownloadInvariant, PTL

LEMMA InvRightFile ==
  ASSUME DownloadInv
  PROVE  RightFile
<1> USE DEF DownloadInv
<1> SUFFICES ASSUME cfd # None, NEW i \in 1..Len(trains[cfd])
             PROVE  \E j \in Owner(trains[cfd][i].ctl_code) :
                      trains[cfd][i].block # None => trains[cfd][i].block[1] = task[j].file
  BY DEF RightFile
<1>1. PICK j \in Active : Goes(trains[cfd], i, task[j])
  BY DEF Arriving
<1>2. PICK train, t : train = trains[cfd][i] /\ t = task[j]
  OBVIOUS
<1>3. train.ctl_code = t.fd
  BY <1>1, <1>2 DEF Goes
<1>4. j \in Owner(train.ctl_code)
  BY <1>2, <1>3 DEF Active, Owner, Index
<1>5. train.block # None => train.block[1] = t.file
  <2> SUFFICES ASSUME train.block # None  PROVE train.block[1] = t.file
    OBVIOUS
  <2>1. t \in TaskRecord /\ t.file \in File /\ t.pos \in Nat /\ Size[t.file] \in Nat
    BY <1>2, Constants DEF Types, Tasks, Active, Within, TaskRecord
  <2>2. PICK n \in t.pos + 1..Size[t.file] : train.block = Block(t.file, n)
    BY <1>1, <1>2 DEF Goes
  <2>3. n \in Nat
    BY <2>1
  <2> QED BY <2>1, <2>2, <2>3, Blocks_
<1> QED BY <1>2, <1>4, <1>5

(* RightFile: every train on the client's connection carries the           *)
(* descriptor of a task that is still there and, if it is a slice, a slice *)
(* of that task's file, though descriptors are reused and requests added   *)
(* while trains are on the way.                                            *)
THEOREM TrainsFindTheirTask ==
  ASSUME Once
  PROVE  Spec => []RightFile
<1>1. DownloadInv => RightFile
  BY InvRightFile
<1> QED BY <1>1, DownloadInvariant, PTL

LEMMA InvWholeAtEnd ==
  ASSUME DownloadInv
  PROVE  WholeAtEnd
<1> USE DEF DownloadInv
<1>0. \A f \in File : local[f] \in Seq(Blocks) /\ Len(local[f]) \in Nat /\ Size[f] \in Nat
  BY Constants DEF Types
<1>1. ASSUME NEW f \in File \ Mapped
      PROVE  local[f] = SubSeq(Whole(f), 1, Len(local[f]))
  <2>1. PICK s \in Seq(Blocks) : s = local[f]
    BY <1>0
  <2>2. Len(s) <= Size[f] /\ \A i \in 1..Len(s) : s[i] = Block(f, i)
    BY <2>1 DEF Files, FileOk
  <2>3. Whole(f) \in Seq(Blocks) /\ Len(Whole(f)) = Size[f]
        /\ \A i \in 1..Size[f] : Whole(f)[i] = Block(f, i)
    BY <1>0, WholeIs
  <2>4. PICK w \in Seq(Blocks) : w = Whole(f)
    BY <2>3
  <2>5. Len(w) = Size[f] /\ Len(s) \in Nat /\ Size[f] \in Nat
    BY <1>0, <2>3, <2>4
  <2>6. \A i \in 1..Len(s) : s[i] = w[i]
    BY <2>2, <2>3, <2>4, <2>5
  <2>7. s = SubSeq(w, 1, Len(s))
    BY <2>2, <2>5, <2>6
  <2> QED BY <2>1, <2>4, <2>7
<1>2. ASSUME cfd # None, trains[cfd] # <<>>, Head(trains[cfd]).block = None,
             NEW i \in Owner(Head(trains[cfd]).ctl_code)
      PROVE  local[task[i].file] = Whole(task[i].file)
  <2>1. trains[cfd] \in Seq(TrainRecord)
    BY <1>2 DEF Types
  <2>2. Head(trains[cfd]) = trains[cfd][1]
    BY <1>2, <2>1, Popping
  <2>3. PICK j \in Active : /\ trains[cfd][1] = End(task[j])
                            /\ task[j].pos = Size[task[j].file] /\ task[j].file \in File
    BY <1>2, <2>2, EndingOne
  <2>4. Owner(task[j].fd) = {j}
    BY OwnerIs
  <2>5. i = j
    BY <1>2, <2>2, <2>3, <2>4 DEF End, Train
  <2>6. PICK f \in File : f = task[j].file
    BY <2>3
  <2>7. WrittenTo(f, Size[f]) /\ FileOk(f)
    BY <2>3, <2>6 DEF Files
  <2>8. PICK s \in Seq(Blocks) : s = local[f]
    BY <1>0
  <2>9. Len(s) = Size[f] /\ Size[f] \in Nat /\ \A k \in 1..Size[f] : s[k] = Block(f, k)
    BY <1>0, <2>7, <2>8 DEF WrittenTo, FileOk
  <2>10. PICK w \in Seq(Blocks) : w = Whole(f)
    BY <1>0, WholeIs
  <2>11. Len(w) = Size[f] /\ \A k \in 1..Size[f] : w[k] = Block(f, k)
    BY <1>0, <2>10, WholeIs
  <2>12. s = w
    BY <2>9, <2>11
  <2> QED BY <2>5, <2>6, <2>8, <2>10, <2>12
<1> QED BY <1>1, <1>2 DEF WholeAtEnd

(* WholeAtEnd: when the last train of a download arrives the local file is *)
(* the server's file, and a file that is not mapped is at all times a      *)
(* beginning of it, so that its size is where to resume.                   *)
THEOREM CompleteIsWhole ==
  ASSUME Once
  PROVE  Spec => []WholeAtEnd
<1>1. DownloadInv => WholeAtEnd
  BY InvWholeAtEnd
<1> QED BY <1>1, DownloadInvariant, PTL
===============================================================================
