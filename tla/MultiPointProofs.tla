--------------------------- MODULE MultiPointProofs ---------------------------
(***************************************************************************)
(* Proofs about MultiPoint, for any files, numbers of slices, sections,    *)
(* servers and downloads, and any bounds on requests and exits.            *)
(*   - A section is at one server exactly while its record says so.        *)
(*   - If files have different names, the .temp record never claims a      *)
(*     slice that is not there, and a download that is over is whole.      *)
(***************************************************************************)
EXTENDS MultiPoint, TLAPS, FiniteSetTheorems

Phases == {"none", "failed", "backlog", "accepted", "known", "serving", "dropped"}

ConnRecord == [phase : Phases, unread : 0..2, file : File \cup {None},
               number : Section, start : 0..FileSize, end : 0..FileSize,
               off : 0..FileSize, down : Seq(Trains)]

(* The sections keep the places init_task gave them.                       *)
SecOk(sec) ==
  /\ sec \in [Section -> SectionRecord]
  /\ \A i \in Section : Begin(i) <= sec[i].start /\ sec[i].end = End(i)

(* Train q of a server's, when the client has its section up to from.      *)
Sent(t, from, q) ==
  IF t.start < t.end /\ from + q - 1 < FileSize
  THEN [code |-> t.number, len |-> 1, data |-> Slice(t.file, from + q - 1)]
  ELSE [code |-> t.number, len |-> 0, data |-> Hole]

(* Where the server reads next: behind the trains it has sent.             *)
Offset(t, from) ==
  IF t.start >= t.end THEN t.start
  ELSE IF from + Len(t.down) < FileSize THEN from + Len(t.down) ELSE FileSize

(* A server that is asked for a section of f: it is one that is marked, it *)
(* was sent from where the client was then, and the trains under way are   *)
(* those that follow what the client has.                                  *)
LinkOk(f, sec, t) ==
  IF t.phase = "none" THEN t = NoConn
  ELSE
    LET from == sec[t.number].start
    IN /\ t.file = f /\ sec[t.number].state = 1
       /\ Begin(t.number) <= t.start /\ t.start <= from /\ t.end = End(t.number)
       /\ t.start >= t.end => from = t.start
       /\ t.phase \in {"failed", "backlog", "accepted", "known"} =>
            t.down = <<>> /\ from = t.start
       /\ t.phase = "serving" => t.off = Offset(t, from)
       /\ \A q \in 1..Len(t.down) : t.down[q] = Sent(t, from, q)

(* One server for a section, and one for each that is marked.              *)
Distinct(sfd) ==
  \A k, l \in Spot : sfd[k].phase # "none" /\ sfd[l].phase # "none"
                       /\ sfd[k].number = sfd[l].number => k = l
Served(sec, sfd) ==
  \A i \in Section : sec[i].state = 1 =>
    \E k \in Spot : sfd[k].phase # "none" /\ sfd[k].number = i

PackOk(f, sec, sfd) ==
  /\ SecOk(sec) /\ sfd \in [Spot -> ConnRecord]
  /\ \A k \in Spot : LinkOk(f, sec, sfd[k]) /\ Len(sfd[k].down) <= Window
  /\ Distinct(sfd) /\ Served(sec, sfd)

Waiting(sec) == AllDone(sec) \/ \E i \in Section : sec[i].state = 1

Package == [file : File \cup {None}, sec : [Section -> SectionRecord],
            linked : BOOLEAN]

IInv ==
  /\ pk \in [Pk -> Package]
  /\ last \in {None} \cup [len : {0, 1}, code : Section]
  /\ temp \in [Name -> {None} \cup [Section -> SectionRecord]]
  /\ disk \in [Name -> [Pos -> {Hole} \cup (File \X Pos)]]
  /\ conn \in [Pk -> [Spot -> ConnRecord]]
  /\ alive \subseteq Spot /\ gets \in 0..MaxGets /\ exits \in 0..MaxExits
  /\ \A n \in Name : temp[n] # None => SecOk(temp[n])
  /\ \A j \in Pk : IF pk[j].file = None THEN conn[j] = NoConns
                   ELSE /\ PackOk(pk[j].file, pk[j].sec, conn[j])
                        /\ Waiting(pk[j].sec)

(* What the sections of a file claim is in dir, its slices on the disk.    *)
Written(dir, f, from, to) == \A x \in from..to - 1 : dir[x] = Slice(f, x)
Honest(dir, f, sec) ==
  \A i \in Section : /\ Written(dir, f, Begin(i), sec[i].start)
                     /\ sec[i].state = 2 => Written(dir, f, Begin(i), End(i))

HInv ==
  /\ \A j \in Pk : pk[j].file # None =>
       Honest(disk[NameOf[pk[j].file]], pk[j].file, pk[j].sec)
  /\ \A n \in Name : temp[n] # None =>
       \E f \in File : NameOf[f] = n /\ Honest(disk[n], f, temp[n])

(* No two files of the drive have one name.                                *)
OwnNames == \A f, g \in File : NameOf[f] = NameOf[g] => f = g

-----------------------------------------------------------------------------
(* The places of the sections *)

LEMMA Least ==
  ASSUME NEW S \in SUBSET Nat, S # {}
  PROVE  Min(S) \in S /\ \A y \in S : Min(S) <= y
<1>1. PICK x \in S : \A y \in S : <<y, x>> \notin OpToRel(<, Nat)
  BY WFMin, NatLessThanWellFounded, Zenon
<1>2. \A y \in S : ~(y < x)
  BY <1>1 DEF OpToRel
<1>3. \A y \in S : x <= y
  BY <1>2
<1> QED BY <1>3 DEF Min

LEMMA Places ==
  ASSUME NEW i \in Section
  PROVE  /\ Begin(i) \in 0..FileSize /\ End(i) \in 0..FileSize
         /\ Begin(i) <= End(i) /\ Begin(0) = 0
         /\ i # 0 => i - 1 \in Section /\ End(i - 1) = Begin(i)
<1> DEFINE q == FileSize \div SECTION_NUM
<1>1. q \in Nat /\ SECTION_NUM * q <= FileSize
  BY MultiPointAssumption
<1>2. \A n \in Nat : n <= SECTION_NUM => n * q \in Nat /\ n * q <= SECTION_NUM * q
  BY <1>1, MultiPointAssumption
<1>3. i * q <= (i + 1) * q /\ 0 * q = 0
  BY <1>1 DEF Section
<1>4. i \in Nat /\ i + 1 \in Nat /\ i <= SECTION_NUM /\ i + 1 <= SECTION_NUM
  BY MultiPointAssumption DEF Section
<1>5. i * q \in 0..FileSize /\ (i + 1) * q \in 0..FileSize
  BY <1>1, <1>2, <1>4, MultiPointAssumption
<1> HIDE DEF q
<1>6. Begin(i) = i * q /\ Begin(i + 1) = (i + 1) * q /\ Begin(0) = 0 * q
  BY DEF Begin, q
<1>7. i # 0 => i - 1 \in Section /\ i - 1 # SECTION_NUM - 1 /\ (i - 1) + 1 = i
  BY MultiPointAssumption DEF Section
<1> QED BY <1>3, <1>5, <1>6, <1>7, MultiPointAssumption DEF End

LEMMA Cover ==
  ASSUME NEW x \in Pos
  PROVE  \E i \in Section : x \in Begin(i)..End(i) - 1
<1> DEFINE S == {i \in Section : x < End(i)}
<1>1. SECTION_NUM - 1 \in S
  BY MultiPointAssumption DEF Section, End, Pos
<1>0. S \in SUBSET Nat /\ S # {}
  BY <1>1 DEF Section
<1>2. Min(S) \in S /\ \A y \in S : Min(S) <= y
  BY <1>0, Least, Zenon
<1>3. CASE Min(S) = 0
  BY <1>2, <1>3, Places DEF Pos
<1>4. CASE Min(S) # 0
  <2>1. Min(S) - 1 \in Section /\ Min(S) - 1 \notin S /\ End(Min(S) - 1) = Begin(Min(S))
    BY <1>2, <1>4, Places DEF Section
  <2>2. End(Min(S) - 1) <= x
    BY <2>1, Places DEF Pos
  <2> QED BY <1>2, <2>1, <2>2, Places DEF Pos
<1> QED BY <1>3, <1>4

-----------------------------------------------------------------------------
(* Sending sections to servers *)

LEMMA Sections01 == 0 \in Section /\ SECTION_NUM - 1 \in Section
BY MultiPointAssumption DEF Section

(* The connection send_task makes.                                         *)
Asked(f, k, i, from, to) ==
  [MtokenIdent(k) EXCEPT !.unread = @ + 1, !.file = f, !.number = i,
     !.start = from, !.end = to]

LEMMA Connections ==
  ASSUME NEW f \in File, NEW k \in Spot, NEW i \in Section,
         NEW from \in 0..FileSize, NEW to \in 0..FileSize
  PROVE  LET t == Asked(f, k, i, from, to)
         IN  /\ t \in ConnRecord
             /\ t.phase \in {"failed", "backlog"} /\ t.down = <<>>
             /\ t.file = f /\ t.number = i /\ t.start = from /\ t.end = to
<1> DEFINE r == MtokenIdent(k)
           t == Asked(f, k, i, from, to)
<1>1. NoConn = [phase |-> "none", unread |-> 0, file |-> None, number |-> 0,
                start |-> 0, end |-> 0, off |-> 0, down |-> <<>>]
  BY DEF NoConn
<1>2. 0 \in 0..FileSize /\ <<>> \in Seq(Trains)
  BY MultiPointAssumption
<1>3. NoConn \in ConnRecord
  BY <1>1, <1>2, Sections01 DEF ConnRecord, Phases
<1>4. r \in ConnRecord /\ r.unread \in 0..1 /\ r.phase \in {"failed", "backlog"}
      /\ r.down = <<>>
  <2>1. NoConn.unread = 0 /\ NoConn.down = <<>>
    BY <1>1
  <2>2. CASE k \in alive
    <3>1. r = [NoConn EXCEPT !.phase = "backlog", !.unread = 1]
      BY <2>2 DEF MtokenIdent
    <3> HIDE DEF r
    <3>2. "backlog" \in Phases /\ 1 \in 0..2
      BY DEF Phases
    <3>3. r \in ConnRecord
      BY <1>3, <3>1, <3>2 DEF ConnRecord
    <3>4. r.unread = 1 /\ r.phase = "backlog" /\ r.down = NoConn.down
      BY <1>3, <3>1 DEF ConnRecord
    <3> QED BY <2>1, <3>3, <3>4
  <2>3. CASE k \notin alive
    <3>1. r = [NoConn EXCEPT !.phase = "failed"]
      BY <2>3 DEF MtokenIdent
    <3> HIDE DEF r
    <3> QED BY <1>3, <2>1, <3>1 DEF ConnRecord, Phases
  <2> QED BY <2>2, <2>3
<1> HIDE DEF r
<1>5. t = [r EXCEPT !.unread = r.unread + 1, !.file = f, !.number = i,
                    !.start = from, !.end = to]
  BY DEF Asked, r
<1> HIDE DEF t
<1>6. r.unread + 1 \in 0..2
  BY <1>4
<1>7. t \in ConnRecord
  BY <1>4, <1>5, <1>6 DEF ConnRecord
<1>8. /\ t.phase = r.phase /\ t.down = r.down
      /\ t.file = f /\ t.number = i /\ t.start = from /\ t.end = to
  BY <1>4, <1>5 DEF ConnRecord
<1> QED BY <1>4, <1>7, <1>8 DEF t

(* Only the states of sections to do change.                               *)
Marked(sec, new) ==
  \A i \in Section : /\ new[i].start = sec[i].start
                     /\ new[i].state = 2 <=> sec[i].state = 2

LEMMA SendTaskOk ==
  ASSUME NEW f \in File, NEW sec, NEW sfd, PackOk(f, sec, sfd),
         NEW k \in Spot, sfd[k].phase = "none"
  PROVE  LET e == SendTask(f, [sec |-> sec, sfd |-> sfd], k)
         IN  /\ PackOk(f, e.sec, e.sfd) /\ Waiting(e.sec) /\ Marked(sec, e.sec)
             /\ \A l \in Spot \ {k} : e.sfd[l] = sfd[l]
             /\ e = [sec |-> e.sec, sfd |-> e.sfd]
<1> DEFINE d == [sec |-> sec, sfd |-> sfd]
           e == SendTask(f, d, k)
<1>0. sec \in [Section -> SectionRecord] /\ \A l \in Section : sec[l].state \in 0..2
  BY DEF PackOk, SecOk, SectionRecord
<1>1. CASE ToDo(sec) = {}
  <2>1. e = d
    BY <1>1 DEF SendTask
  <2>2. Waiting(sec)
    BY <1>0, <1>1 DEF ToDo, Waiting, AllDone
  <2> QED BY <2>1, <2>2 DEF Marked
<1>2. CASE ToDo(sec) # {}
  <2> DEFINE i == Min(ToDo(sec))
             new == Taken(sec, i)
             t == Asked(f, k, i, sec[i].start, sec[i].end)
  <2>1. ToDo(sec) \in SUBSET Nat
    BY DEF ToDo, Section
  <2>2. i \in Section /\ sec[i].state = 0
    BY <1>2, <2>1, Least DEF ToDo
  <2>3. /\ sec[i] \in SectionRecord /\ sec[i].end = End(i)
        /\ Begin(i) <= sec[i].start
        /\ sec[i].start \in 0..FileSize /\ sec[i].end \in 0..FileSize
    BY <2>2 DEF PackOk, SecOk, SectionRecord
  <2>4. e = [sec |-> new, sfd |-> [sfd EXCEPT ![k] = t]]
    BY <1>2 DEF SendTask, Asked
  <2> HIDE DEF e
  <2>5. /\ t \in ConnRecord /\ t.phase \in {"failed", "backlog"} /\ t.down = <<>>
        /\ t.file = f /\ t.number = i /\ t.start = sec[i].start /\ t.end = End(i)
    BY <2>2, <2>3, Connections
  <2> HIDE DEF t, i
  <2>6. /\ new \in [Section -> SectionRecord] /\ new[i].state = 1
        /\ \A l \in Section : new[l].start = sec[l].start /\ new[l].end = sec[l].end
        /\ \A l \in Section \ {i} : new[l] = sec[l]
    BY <1>0, <2>2, <2>3 DEF Taken, SectionRecord
  <2> HIDE DEF new
  <2>7. e.sec = new /\ e.sfd = [sfd EXCEPT ![k] = t]
    BY <2>4
  <2>8. e.sfd \in [Spot -> ConnRecord] /\ e.sfd[k] = t /\ \A l \in Spot \ {k} : e.sfd[l] = sfd[l]
    BY <2>5, <2>7 DEF PackOk
  <2>9. SecOk(e.sec)
    BY <2>6, <2>7 DEF PackOk, SecOk
  <2>10. Marked(sec, e.sec)
    BY <2>2, <2>6, <2>7 DEF Marked
  <2>11. \A l \in Spot : LinkOk(f, e.sec, e.sfd[l]) /\ Len(e.sfd[l].down) <= Window
    <3>1. Len(t.down) = 0
      BY <2>5
    <3>2. LinkOk(f, new, t)
      <4>1. \A q \in 1..Len(t.down) : FALSE
        BY <3>1
      <4>2. /\ new[t.number].state = 1 /\ new[t.number].start = t.start
            /\ Begin(t.number) <= t.start /\ t.end = End(t.number)
            /\ t.start <= t.start
        BY <2>2, <2>3, <2>5, <2>6
      <4> QED BY <2>5, <4>1, <4>2 DEF LinkOk
    <3>3. ASSUME NEW l \in Spot \ {k}
          PROVE  LinkOk(f, e.sec, sfd[l]) /\ Len(sfd[l].down) <= Window
      <4>1. sfd[l].phase # "none" => sfd[l].number \in Section /\ sfd[l].number # i
        BY <2>2 DEF PackOk, LinkOk, ConnRecord
      <4> QED BY <2>6, <2>7, <4>1 DEF PackOk, LinkOk
    <3> QED BY <2>7, <2>8, <3>1, <3>2, <3>3, MultiPointAssumption
  <2>12. Distinct(e.sfd)
    <3>1. \A l \in Spot \ {k} : sfd[l].phase # "none" => sfd[l].number # i
      BY <2>2 DEF PackOk, LinkOk
    <3> QED BY <2>5, <2>8, <3>1 DEF Distinct, PackOk
  <2>13. Served(e.sec, e.sfd)
    <3>1. ASSUME NEW l \in Section \ {i}, new[l].state = 1
          PROVE  \E m \in Spot : e.sfd[m].phase # "none" /\ e.sfd[m].number = l
      <4>1. PICK m \in Spot : sfd[m].phase # "none" /\ sfd[m].number = l
        BY <2>6, <3>1 DEF PackOk, Served
      <4>2. m # k
        BY <4>1
      <4> QED BY <2>8, <4>1, <4>2
    <3> QED BY <2>5, <2>7, <2>8, <3>1 DEF Served
  <2>14. PackOk(f, e.sec, e.sfd)
    BY <2>8, <2>9, <2>11, <2>12, <2>13 DEF PackOk
  <2>15. Waiting(e.sec)
    BY <2>2, <2>6, <2>7 DEF Waiting
  <2> QED BY <2>4, <2>7, <2>8, <2>10, <2>14, <2>15 DEF e, d
<1> QED BY <1>1, <1>2

(* The loop over the servers: a function that is computed one server after *)
(* another exists, and has at each what the one before left.               *)
LEMMA Iterated ==
  ASSUME NEW f, NEW d, NEW N \in Nat
  PROVE  \E h : h = [k \in 0..N |-> IF k = 0 THEN d ELSE SendTask(f, h[k - 1], k)]
<1> DEFINE Sol(h, n) == h = [k \in 0..n |-> IF k = 0 THEN d ELSE SendTask(f, h[k - 1], k)]
           S == {n \in Nat : ~ \E h : Sol(h, n)}
<1> SUFFICES ASSUME S # {}  PROVE FALSE
  OBVIOUS
<1>1. S \in SUBSET Nat
  OBVIOUS
<1>2. PICK n \in S : \A m \in S : n <= m
  BY <1>1, Least, Zenon
<1>3. n \in Nat /\ ~ \E h : Sol(h, n)
  OBVIOUS
<1>4. CASE n = 0
  <2>1. Sol([k \in 0..0 |-> d], 0)
    OBVIOUS
  <2> QED BY <1>3, <1>4, <2>1
<1>5. CASE n # 0
  <2>1. n - 1 \in Nat /\ n - 1 \notin S
    <3>1. n - 1 \in Nat /\ ~(n <= n - 1)
      BY <1>3, <1>5
    <3> QED BY <1>2, <3>1, Zenon
  <2>2. PICK h : Sol(h, n - 1)
    BY <2>1
  <2> DEFINE g == [k \in 0..n |-> IF k = n THEN SendTask(f, h[n - 1], n) ELSE h[k]]
  <2>3. \A k \in 0..n : k # 0 => g[k - 1] = h[k - 1]
    BY <1>3
  <2>4. \A k \in 0..n - 1 : h[k] = IF k = 0 THEN d ELSE SendTask(f, h[k - 1], k)
    BY <2>2
  <2>5. \A k \in 0..n : g[k] = IF k = 0 THEN d ELSE SendTask(f, g[k - 1], k)
    <3> SUFFICES ASSUME NEW k \in 0..n
                 PROVE  g[k] = IF k = 0 THEN d ELSE SendTask(f, g[k - 1], k)
      OBVIOUS
    <3>1. CASE k = n
      BY <1>3, <1>5, <2>3, <3>1
    <3>2. CASE k # n
      <4>1. k \in 0..n - 1 /\ g[k] = h[k]
        BY <1>3, <3>2
      <4> QED BY <2>3, <2>4, <4>1
    <3> QED BY <3>1, <3>2
  <2>6. Sol(g, n)
    BY <2>5
  <2> QED BY <1>3, <2>6
<1> QED BY <1>4, <1>5

LEMMA SendTasksOk ==
  ASSUME NEW f \in File, NEW sec, PackOk(f, sec, NoConns)
  PROVE  LET e == SendTasks(f, [sec |-> sec, sfd |-> NoConns])
         IN  PackOk(f, e.sec, e.sfd) /\ Waiting(e.sec) /\ Marked(sec, e.sec)
<1> DEFINE d == [sec |-> sec, sfd |-> NoConns]
           after == CHOOSE h : h = [k \in 0..SPOT_NUM |->
                                 IF k = 0 THEN d ELSE SendTask(f, h[k - 1], k)]
           P(k) == /\ after[k] = [sec |-> after[k].sec, sfd |-> after[k].sfd]
                   /\ PackOk(f, after[k].sec, after[k].sfd)
                   /\ Marked(sec, after[k].sec)
                   /\ \A l \in Spot : l > k => after[k].sfd[l].phase = "none"
                   /\ k # 0 => Waiting(after[k].sec)
           S == {k \in 0..SPOT_NUM : ~P(k)}
<1>1. SendTasks(f, d) = after[SPOT_NUM]
  BY DEF SendTasks
<1>2. SPOT_NUM \in Nat /\ SPOT_NUM # 0
  BY MultiPointAssumption
<1>3. after = [k \in 0..SPOT_NUM |-> IF k = 0 THEN d ELSE SendTask(f, after[k - 1], k)]
  BY <1>2, Iterated
<1> HIDE DEF after
<1>4. P(0)
  <2>1. after[0] = d
    BY <1>2, <1>3
  <2>2. \A l \in Spot : NoConns[l].phase = "none"
    BY DEF NoConns, NoConn
  <2> QED BY <2>1, <2>2 DEF Marked
<1>5. ASSUME NEW k \in 0..SPOT_NUM, k # 0, P(k - 1)
      PROVE  P(k)
  <2> DEFINE b == after[k - 1]
             e == SendTask(f, [sec |-> b.sec, sfd |-> b.sfd], k)
  <2>1. k \in Spot /\ k - 1 \in Nat
    BY <1>2, <1>5 DEF Spot
  <2>2. after[k] = e
    BY <1>3, <1>5
  <2>3. b.sfd[k].phase = "none"
    BY <1>5, <2>1
  <2>4. /\ PackOk(f, e.sec, e.sfd) /\ Waiting(e.sec) /\ Marked(b.sec, e.sec)
        /\ \A l \in Spot \ {k} : e.sfd[l] = b.sfd[l]
        /\ e = [sec |-> e.sec, sfd |-> e.sfd]
    BY <1>5, <2>1, <2>3, SendTaskOk
  <2> HIDE DEF e
  <2>5. \A l \in Spot : l > k => e.sfd[l].phase = "none"
    BY <1>5, <2>1, <2>4 DEF Spot
  <2>6. Marked(sec, e.sec)
    BY <1>5, <2>4 DEF Marked
  <2> QED BY <2>2, <2>4, <2>5, <2>6
<1> HIDE DEF P
<1>6. \A k \in 0..SPOT_NUM : P(k)
  <2> SUFFICES ASSUME S # {}  PROVE FALSE
    OBVIOUS
  <2>1. S \in SUBSET Nat
    OBVIOUS
  <2>2. PICK k \in S : \A l \in S : k <= l
    BY <2>1, Least, Zenon
  <2>3. k # 0 /\ k \in 0..SPOT_NUM /\ ~P(k)
    BY <1>4, <2>2
  <2>4. k - 1 \in 0..SPOT_NUM /\ P(k - 1)
    BY <1>2, <2>2, <2>3
  <2> QED BY <1>5, <2>3, <2>4
<1>7. P(SPOT_NUM)
  BY <1>2, <1>6
<1>8. PackOk(f, after[SPOT_NUM].sec, after[SPOT_NUM].sfd)
      /\ Waiting(after[SPOT_NUM].sec) /\ Marked(sec, after[SPOT_NUM].sec)
  BY <1>2, <1>7 DEF P
<1> QED BY <1>1, <1>8, Zenon

-----------------------------------------------------------------------------
(* What the steps do to a download *)

LEMMA NoConnOk == NoConn \in ConnRecord /\ NoConn.phase = "none" /\ NoConn.down = <<>>
<1>1. NoConn = [phase |-> "none", unread |-> 0, file |-> None, number |-> 0,
                start |-> 0, end |-> 0, off |-> 0, down |-> <<>>]
  BY DEF NoConn
<1>2. 0 \in 0..FileSize /\ <<>> \in Seq(Trains)
  BY MultiPointAssumption
<1> QED BY <1>1, <1>2, Sections01 DEF ConnRecord, Phases

(* A download no server works for yet.                                     *)
LEMMA Idle ==
  ASSUME NEW f, NEW sec, SecOk(sec), \A i \in Section : sec[i].state # 1
  PROVE  PackOk(f, sec, NoConns)
<1>1. NoConns \in [Spot -> ConnRecord] /\ \A k \in Spot : NoConns[k] = NoConn
  BY NoConnOk DEF NoConns
<1>2. Len(NoConn.down) <= Window
  BY NoConnOk, MultiPointAssumption
<1>3. \A k \in Spot : LinkOk(f, sec, NoConns[k])
  BY <1>1, NoConnOk DEF LinkOk
<1>4. Distinct(NoConns) /\ Served(sec, NoConns)
  BY <1>1, NoConnOk DEF Distinct, Served
<1> QED BY <1>1, <1>2, <1>3, <1>4 DEF PackOk

LEMMA SectionsOk == SecOk(Sections) /\ \A i \in Section : Sections[i].state = 0
<1>1. \A i \in Section : Sections[i] = [state |-> 0, start |-> Begin(i), end |-> End(i)]
  BY DEF Sections
<1>2. Sections \in [Section -> SectionRecord]
  BY Places DEF Sections, SectionRecord
<1> QED BY <1>1, <1>2, Places DEF SecOk

LEMMA ResumedOk ==
  ASSUME NEW sec, SecOk(sec)
  PROVE  /\ SecOk(Resumed(sec)) /\ Marked(sec, Resumed(sec))
         /\ \A i \in Section : Resumed(sec)[i].state # 1
<1>1. ASSUME NEW i \in Section
      PROVE  /\ Resumed(sec)[i] \in SectionRecord /\ Resumed(sec)[i].state # 1
             /\ Resumed(sec)[i].start = sec[i].start /\ Resumed(sec)[i].end = sec[i].end
             /\ Resumed(sec)[i].state = 2 <=> sec[i].state = 2
  <2>1. sec[i] \in SectionRecord
    BY DEF SecOk
  <2>2. Resumed(sec)[i] = [sec[i] EXCEPT !.state = IF sec[i].state = 1 THEN 0 ELSE sec[i].state]
    BY DEF Resumed
  <2> QED BY <2>1, <2>2 DEF SectionRecord
<1>2. Resumed(sec) \in [Section -> SectionRecord]
  BY <1>1 DEF Resumed
<1> QED BY <1>1, <1>2 DEF SecOk, Marked

(* A server goes on with its section.                                      *)
LEMMA Replaced ==
  ASSUME NEW f, NEW sec, NEW sfd, PackOk(f, sec, sfd), NEW k \in Spot,
         sfd[k].phase # "none", NEW t \in ConnRecord, t.phase # "none",
         t.number = sfd[k].number, LinkOk(f, sec, t), Len(t.down) <= Window
  PROVE  PackOk(f, sec, [sfd EXCEPT ![k] = t])
<1> DEFINE new == [sfd EXCEPT ![k] = t]
<1>1. new \in [Spot -> ConnRecord] /\ new[k] = t /\ \A l \in Spot \ {k} : new[l] = sfd[l]
  BY DEF PackOk
<1> HIDE DEF new
<1>2. \A l \in Spot : new[l].number = sfd[l].number
                      /\ (new[l].phase = "none" <=> sfd[l].phase = "none")
  BY <1>1
<1>3. Distinct(new)
  BY <1>2 DEF PackOk, Distinct
<1>4. Served(sec, new)
  BY <1>2 DEF PackOk, Served
<1>5. \A l \in Spot : LinkOk(f, sec, new[l]) /\ Len(new[l].down) <= Window
  BY <1>1 DEF PackOk
<1> QED BY <1>1, <1>3, <1>4, <1>5 DEF PackOk, new

(* The first train of a connection.                                        *)
LEMMA FirstTrain ==
  ASSUME NEW f, NEW sec, NEW sfd, PackOk(f, sec, sfd), NEW k \in Spot,
         sfd[k].down # <<>>
  PROVE  LET t == sfd[k]
             from == sec[t.number].start
         IN  /\ t.phase \notin {"none", "failed", "backlog", "accepted", "known"}
             /\ t.number \in Section /\ Head(t.down) = Sent(t, from, 1)
             /\ Len(t.down) \in Nat \ {0} /\ Len(Tail(t.down)) = Len(t.down) - 1
             /\ Tail(t.down) \in Seq(Trains)
             /\ \A q \in 1..Len(Tail(t.down)) : Tail(t.down)[q] = t.down[q + 1]
<1> DEFINE t == sfd[k]
<1>1. t \in ConnRecord /\ LinkOk(f, sec, t)
  BY DEF PackOk
<1>2. t.down \in Seq(Trains) /\ t.number \in Section
  BY <1>1 DEF ConnRecord
<1>3. /\ Len(t.down) \in Nat \ {0} /\ Len(Tail(t.down)) = Len(t.down) - 1
      /\ Tail(t.down) \in Seq(Trains) /\ Head(t.down) = t.down[1]
      /\ \A q \in 1..Len(Tail(t.down)) : Tail(t.down)[q] = t.down[q + 1]
  BY <1>2
<1>4. t.phase \notin {"none", "failed", "backlog", "accepted", "known"}
  BY <1>1, NoConnOk DEF LinkOk
<1> QED BY <1>1, <1>2, <1>3, <1>4 DEF LinkOk

(* A slice is the one the section lacks next; then it has it.              *)
LEMMA SliceOk ==
  ASSUME NEW f \in File, NEW sec, NEW sfd, PackOk(f, sec, sfd), NEW k \in Spot,
         sfd[k].down # <<>>, Head(sfd[k].down).len # 0
  PROVE  LET i == sfd[k].number
         IN  /\ i \in Section /\ sec[i].start \in Pos
             /\ Head(sfd[k].down) = [code |-> i, len |-> 1,
                                     data |-> Slice(f, sec[i].start)]
             /\ PackOk(f, Advanced(sec, i), [sfd EXCEPT ![k].down = Tail(@)])
<1> DEFINE t == sfd[k]
           i == t.number
           from == sec[i].start
           new == Advanced(sec, i)
           u == [t EXCEPT !.down = Tail(@)]
           conns == [sfd EXCEPT ![k].down = Tail(@)]
<1>1. t \in ConnRecord /\ LinkOk(f, sec, t) /\ SecOk(sec) /\ sfd \in [Spot -> ConnRecord]
      /\ Len(t.down) <= Window
  BY DEF PackOk
<1>2. /\ t.phase \notin {"none", "failed", "backlog", "accepted", "known"}
      /\ i \in Section /\ Head(t.down) = Sent(t, from, 1)
      /\ Len(t.down) \in Nat \ {0} /\ Len(Tail(t.down)) = Len(t.down) - 1
      /\ Tail(t.down) \in Seq(Trains)
      /\ \A q \in 1..Len(Tail(t.down)) : Tail(t.down)[q] = t.down[q + 1]
  BY FirstTrain
<1>3. sec[i] \in SectionRecord /\ from \in 0..FileSize /\ t.file = f /\ sec[i].state = 1
      /\ Begin(i) \in 0..FileSize /\ t.start \in 0..FileSize /\ t.end \in 0..FileSize
      /\ Begin(i) <= t.start /\ t.start <= from /\ t.end = End(i)
  BY <1>1, <1>2, Places DEF SecOk, SectionRecord, LinkOk, ConnRecord
<1>4. t.start < t.end /\ from < FileSize
      /\ Head(t.down) = [code |-> i, len |-> 1, data |-> Slice(f, from)]
  <2>1. Sent(t, from, 1).len # 0
    BY <1>2
  <2>2. from + 1 - 1 = from
    BY <1>3
  <2>3. t.start < t.end /\ from + 1 - 1 < FileSize
    BY <2>1 DEF Sent
  <2> QED BY <1>2, <1>3, <2>2, <2>3 DEF Sent
<1>5. /\ new \in [Section -> SectionRecord] /\ new[i].start = from + 1
      /\ new[i].state = sec[i].state /\ new[i].end = sec[i].end
      /\ \A l \in Section \ {i} : new[l] = sec[l]
  <2>0. from + 1 \in 0..FileSize
    BY <1>3, <1>4, MultiPointAssumption
  <2>1. [sec[i] EXCEPT !.start = from + 1] \in SectionRecord
    BY <1>3, <2>0 DEF SectionRecord
  <2>2. new = [sec EXCEPT ![i] = [sec[i] EXCEPT !.start = from + 1]]
    BY <1>1, <1>2 DEF Advanced, SecOk
  <2> QED BY <1>1, <1>2, <1>3, <2>1, <2>2 DEF SecOk, SectionRecord
<1>6. /\ u \in ConnRecord /\ u.down = Tail(t.down) /\ u.phase = t.phase
      /\ u.number = i /\ u.file = t.file /\ u.start = t.start /\ u.end = t.end
      /\ u.off = t.off
  BY <1>1, <1>2 DEF ConnRecord
<1>7. conns = [sfd EXCEPT ![k] = u]
  BY <1>1
<1> HIDE DEF u, new, conns
<1>8. Len(u.down) = Len(t.down) - 1 /\ Len(u.down) \in Nat /\ Window \in Nat
  BY <1>2, <1>6, MultiPointAssumption
<1>9. LinkOk(f, new, u)
  <2>1. ASSUME NEW q \in 1..Len(u.down)
        PROVE  u.down[q] = Sent(u, from + 1, q)
    <3>1. q + 1 \in 1..Len(t.down) /\ from + (q + 1) - 1 = (from + 1) + q - 1
      BY <1>2, <1>3, <1>8
    <3>2. u.down[q] = t.down[q + 1] /\ t.down[q + 1] = Sent(t, from, q + 1)
      BY <1>1, <1>2, <1>6, <3>1 DEF LinkOk
    <3> QED BY <1>6, <3>1, <3>2 DEF Sent
  <2>2. t.phase = "serving" => u.off = Offset(u, from + 1)
    <3>1. t.phase = "serving" => t.off = Offset(t, from)
      BY <1>1, <1>2 DEF LinkOk
    <3>2. from + Len(t.down) = (from + 1) + Len(u.down)
      <4>1. \A a, b, c \in Int : c = b - 1 => a + b = (a + 1) + c
        OBVIOUS
      <4>2. from \in Int /\ Len(t.down) \in Int /\ Len(u.down) \in Int
        BY <1>2, <1>3, <1>8
      <4> QED BY <1>8, <4>1, <4>2, Zenon
    <3>3. Offset(t, from) = Offset(u, from + 1)
      BY <1>3, <1>4, <1>6, <3>2 DEF Offset
    <3> QED BY <1>6, <3>1, <3>3
  <2>3. /\ u.file = f /\ new[u.number].state = 1 /\ new[u.number].start = from + 1
        /\ Begin(u.number) <= u.start /\ u.start <= from + 1 /\ u.end = End(u.number)
        /\ ~(u.start >= u.end)
    BY <1>3, <1>4, <1>5, <1>6
  <2> QED BY <1>2, <1>6, <2>1, <2>2, <2>3 DEF LinkOk
<1>10. SecOk(new)
  BY <1>1, <1>2, <1>3, <1>5 DEF SecOk
<1>11. ASSUME NEW l \in Spot \ {k}
       PROVE  LinkOk(f, new, sfd[l])
  <2>1. LinkOk(f, sec, sfd[l]) /\ sfd[l] \in ConnRecord
    BY DEF PackOk
  <2>2. sfd[l].phase # "none" => sfd[l].number \in Section \ {i}
    BY <1>2, <2>1 DEF PackOk, Distinct, ConnRecord
  <2> QED BY <1>5, <2>1, <2>2 DEF LinkOk
<1>12. conns \in [Spot -> ConnRecord] /\ conns[k] = u /\ \A l \in Spot \ {k} : conns[l] = sfd[l]
  BY <1>1, <1>6, <1>7
<1>13. \A l \in Spot : conns[l].number = sfd[l].number
                       /\ (conns[l].phase = "none" <=> sfd[l].phase = "none")
  BY <1>6, <1>12
<1>14. Distinct(conns)
  BY <1>13 DEF PackOk, Distinct
<1>15. Served(new, conns)
  <2>1. \A l \in Section : new[l].state = sec[l].state
    BY <1>5
  <2> QED BY <1>13, <2>1 DEF PackOk, Served
<1>16. \A l \in Spot : LinkOk(f, new, conns[l]) /\ Len(conns[l].down) <= Window
  BY <1>1, <1>2, <1>8, <1>9, <1>11, <1>12 DEF PackOk
<1>17. PackOk(f, new, conns)
  BY <1>10, <1>12, <1>14, <1>15, <1>16 DEF PackOk
<1>18. from \in Pos
  BY <1>3, <1>4, MultiPointAssumption DEF Pos
<1> QED BY <1>2, <1>4, <1>17, <1>18, Zenon DEF new, conns

(* A train of length 0 comes when the section is complete; the connection  *)
(* is closed.                                                              *)
LEMMA EndOk ==
  ASSUME NEW f \in File, NEW sec, NEW sfd, PackOk(f, sec, sfd), NEW k \in Spot,
         sfd[k].down # <<>>, Head(sfd[k].down).len = 0
  PROVE  LET i == sfd[k].number
         IN  /\ i \in Section /\ Head(sfd[k].down).code = i
             /\ End(i) <= sec[i].start
             /\ PackOk(f, [sec EXCEPT ![i].state = 2], [sfd EXCEPT ![k] = NoConn])
<1> DEFINE t == sfd[k]
           i == t.number
           from == sec[i].start
           new == [sec EXCEPT ![i].state = 2]
           conns == [sfd EXCEPT ![k] = NoConn]
<1>1. t \in ConnRecord /\ LinkOk(f, sec, t) /\ SecOk(sec) /\ sfd \in [Spot -> ConnRecord]
  BY DEF PackOk
<1>2. /\ t.phase \notin {"none", "failed", "backlog", "accepted", "known"}
      /\ i \in Section /\ Head(t.down) = Sent(t, from, 1)
  BY FirstTrain
<1>3. sec[i] \in SectionRecord /\ from \in 0..FileSize /\ End(i) \in 0..FileSize
      /\ t.start \in 0..FileSize /\ t.end = End(i) /\ t.start <= from
  BY <1>1, <1>2, Places DEF SecOk, SectionRecord, LinkOk, ConnRecord
<1>4. Head(t.down).code = i
  BY <1>2 DEF Sent
<1>5. End(i) <= from
  <2>1. Sent(t, from, 1).len = 0
    BY <1>2
  <2>2. ~(t.start < t.end /\ from + 1 - 1 < FileSize)
    BY <2>1 DEF Sent
  <2> QED BY <1>3, <2>2, MultiPointAssumption
<1>6. /\ new \in [Section -> SectionRecord] /\ new[i].state = 2
      /\ \A l \in Section : new[l].start = sec[l].start /\ new[l].end = sec[l].end
      /\ \A l \in Section \ {i} : new[l] = sec[l]
  BY <1>1, <1>2, <1>3 DEF SecOk, SectionRecord
<1>7. conns \in [Spot -> ConnRecord] /\ conns[k] = NoConn /\ \A l \in Spot \ {k} : conns[l] = sfd[l]
  BY <1>1, NoConnOk
<1> HIDE DEF new, conns
<1>8. SecOk(new)
  BY <1>1, <1>6 DEF SecOk
<1>9. ASSUME NEW l \in Spot \ {k}
      PROVE  LinkOk(f, new, sfd[l])
  <2>1. LinkOk(f, sec, sfd[l]) /\ sfd[l] \in ConnRecord
    BY DEF PackOk
  <2>2. sfd[l].phase # "none" => sfd[l].number \in Section \ {i}
    BY <1>2, <2>1 DEF PackOk, Distinct, ConnRecord
  <2> QED BY <1>6, <2>1, <2>2 DEF LinkOk
<1>10. LinkOk(f, new, NoConn) /\ Len(NoConn.down) <= Window
  BY NoConnOk, MultiPointAssumption DEF LinkOk
<1>11. Distinct(conns)
  BY <1>7, NoConnOk DEF PackOk, Distinct
<1>12. Served(new, conns)
  <2>1. ASSUME NEW l \in Section, new[l].state = 1
        PROVE  \E m \in Spot : conns[m].phase # "none" /\ conns[m].number = l
    <3>1. l # i /\ sec[l].state = 1
      BY <1>6, <2>1
    <3>2. PICK m \in Spot : sfd[m].phase # "none" /\ sfd[m].number = l
      BY <3>1 DEF PackOk, Served
    <3> QED BY <1>7, <3>1, <3>2
  <2> QED BY <2>1 DEF Served
<1>13. \A l \in Spot : LinkOk(f, new, conns[l]) /\ Len(conns[l].down) <= Window
  BY <1>7, <1>9, <1>10 DEF PackOk
<1>14. PackOk(f, new, conns)
  BY <1>7, <1>8, <1>11, <1>12, <1>13 DEF PackOk
<1> QED BY <1>2, <1>4, <1>5, <1>14 DEF new, conns

-----------------------------------------------------------------------------
(* The steps of the servers *)

LEMMA Active ==
  ASSUME IInv, NEW j \in Pk, NEW k \in Spot, conn[j][k].phase # "none"
  PROVE  /\ pk[j].file \in File /\ pk[j].file # None
         /\ PackOk(pk[j].file, pk[j].sec, conn[j]) /\ Waiting(pk[j].sec)
         /\ conn[j][k] \in ConnRecord
         /\ LinkOk(pk[j].file, pk[j].sec, conn[j][k])
         /\ conn[j][k].number \in Section
         /\ Len(conn[j][k].down) <= Window
<1>1. pk[j].file # None
  BY NoConnOk DEF IInv, NoConns
<1>2. pk[j].file \in File
  BY <1>1 DEF IInv, Package
<1> QED BY <1>1, <1>2 DEF IInv, PackOk, ConnRecord

LEMMA ServerStep ==
  ASSUME IInv, NEW j \in Pk, NEW k \in Spot, conn[j][k].phase # "none",
         NEW t \in ConnRecord, t.phase # "none", t.number = conn[j][k].number,
         LinkOk(pk[j].file, pk[j].sec, t), Len(t.down) <= Window,
         conn' = [conn EXCEPT ![j][k] = t],
         UNCHANGED <<clientVars, alive, gets, exits>>
  PROVE  IInv'
<1>1. pk[j].file # None /\ PackOk(pk[j].file, pk[j].sec, conn[j])
  BY Active
<1>2. PackOk(pk[j].file, pk[j].sec, [conn[j] EXCEPT ![k] = t])
  BY <1>1, Replaced
<1>3. conn' = [conn EXCEPT ![j] = [conn[j] EXCEPT ![k] = t]]
  OBVIOUS
<1>4. conn \in [Pk -> [Spot -> ConnRecord]]
  BY DEF IInv
<1>5. /\ conn' \in [Pk -> [Spot -> ConnRecord]]
      /\ conn'[j] = [conn[j] EXCEPT ![k] = t]
      /\ \A i \in Pk \ {j} : conn'[i] = conn[i]
  BY <1>3, <1>4
<1>6. \A i \in Pk : IF pk[i].file = None THEN conn'[i] = NoConns
                    ELSE /\ PackOk(pk[i].file, pk[i].sec, conn'[i])
                         /\ Waiting(pk[i].sec)
  BY <1>1, <1>2, <1>5 DEF IInv
<1> QED BY <1>5, <1>6 DEF IInv, clientVars

(* What a step of a server leaves of the section it was asked for.         *)
SameSection(t, u) == /\ u.number = t.number /\ u.file = t.file
                     /\ u.start = t.start /\ u.end = t.end

Rephase(t, p, n) == [t EXCEPT !.phase = p, !.unread = n]
LEMMA Rephased ==
  ASSUME NEW t \in ConnRecord, NEW p \in Phases, NEW n \in 0..2
  PROVE  LET u == Rephase(t, p, n)
         IN  u \in ConnRecord /\ SameSection(t, u) /\ u.phase = p /\ u.down = t.down
<1> DEFINE u == Rephase(t, p, n)
<1>1. u \in ConnRecord
  BY DEF ConnRecord, Rephase
<1>2. SameSection(t, u) /\ u.phase = p /\ u.down = t.down
  BY DEF ConnRecord, SameSection, Rephase
<1> QED BY <1>1, <1>2

Begun(t, o) == [t EXCEPT !.phase = "serving", !.unread = 0, !.off = o]
LEMMA HasBegun ==
  ASSUME NEW t \in ConnRecord, NEW o \in 0..FileSize
  PROVE  LET u == Begun(t, o)
         IN  u \in ConnRecord /\ SameSection(t, u) /\ u.phase = "serving" /\ u.down = t.down /\ u.off = o
<1> DEFINE u == Begun(t, o)
<1>1. u \in ConnRecord
  <2>1. "serving" \in Phases /\ 0 \in 0..2
    BY DEF Phases
  <2> QED BY <2>1 DEF ConnRecord, Begun
<1>2. SameSection(t, u) /\ u.phase = "serving" /\ u.down = t.down /\ u.off = o
  BY DEF ConnRecord, SameSection, Begun
<1> QED BY <1>1, <1>2

Further(t, d, o) == [t EXCEPT !.down = d, !.off = o]
LEMMA GoesFurther ==
  ASSUME NEW t \in ConnRecord, NEW d \in Seq(Trains), NEW o \in 0..FileSize
  PROVE  LET u == Further(t, d, o)
         IN  u \in ConnRecord /\ SameSection(t, u) /\ u.phase = t.phase /\ u.down = d /\ u.off = o
<1> DEFINE u == Further(t, d, o)
<1>1. u \in ConnRecord
  BY DEF ConnRecord, Further
<1>2. SameSection(t, u) /\ u.phase = t.phase /\ u.down = d /\ u.off = o
  BY DEF ConnRecord, SameSection, Further
<1> QED BY <1>1, <1>2

LEMMA AcceptKeeps ==
  ASSUME IInv, NEW j \in Pk, NEW k \in Spot, Accept(j, k)
  PROVE  IInv'
<1> DEFINE t == conn[j][k]
           u == [t EXCEPT !.phase = "accepted"]
<1>1. t \in ConnRecord /\ t.phase = "backlog" /\ LinkOk(pk[j].file, pk[j].sec, t)
      /\ Len(t.down) <= Window
  BY Active DEF Accept
<1>2. /\ u \in ConnRecord /\ u.phase = "accepted" /\ u.number = t.number
      /\ u.file = t.file /\ u.start = t.start /\ u.end = t.end /\ u.down = t.down
  BY <1>1 DEF ConnRecord, Phases
<1>3. conn' = [conn EXCEPT ![j][k] = u]
  BY DEF Accept
<1> HIDE DEF u
<1>4. LinkOk(pk[j].file, pk[j].sec, u)
  BY <1>1, <1>2 DEF LinkOk, Sent
<1> QED BY <1>1, <1>2, <1>3, <1>4, ServerStep DEF Accept

LEMMA TokenKeeps ==
  ASSUME IInv, NEW j \in Pk, NEW k \in Spot, Token(j, k)
  PROVE  IInv'
<1> DEFINE t == conn[j][k]
<1>1. t \in ConnRecord /\ t.phase = "accepted" /\ LinkOk(pk[j].file, pk[j].sec, t)
      /\ Len(t.down) <= Window
  BY Active DEF Token
<1>2. PICK known \in BOOLEAN :
        conn' = [conn EXCEPT ![j][k].phase = IF known THEN "known" ELSE @,
                             ![j][k].unread = 1]
  BY DEF Token, MathToken
<1> DEFINE u == [t EXCEPT !.phase = IF known THEN "known" ELSE @, !.unread = 1]
<1>3. /\ u \in ConnRecord /\ u.phase \in {"accepted", "known"} /\ u.number = t.number
      /\ u.file = t.file /\ u.start = t.start /\ u.end = t.end /\ u.down = t.down
  <2> DEFINE p == IF known THEN "known" ELSE t.phase
  <2>1. p \in Phases /\ p \in {"accepted", "known"} /\ 1 \in 0..2
    BY <1>1 DEF Phases
  <2>2. u = Rephase(t, p, 1)
    BY DEF Rephase
  <2> HIDE DEF u, p
  <2>3. u \in ConnRecord /\ SameSection(t, u) /\ u.phase = p /\ u.down = t.down
    BY <1>1, <2>1, <2>2, Rephased, Zenon
  <2> QED BY <2>1, <2>3 DEF SameSection
<1>4. conn' = [conn EXCEPT ![j][k] = u]
  BY <1>2 DEF IInv
<1> HIDE DEF u
<1>5. LinkOk(pk[j].file, pk[j].sec, u)
  BY <1>1, <1>3 DEF LinkOk, Sent
<1> QED BY <1>1, <1>3, <1>4, <1>5, ServerStep DEF Token

LEMMA TaskTrainKeeps ==
  ASSUME IInv, NEW j \in Pk, NEW k \in Spot, TaskTrain(j, k)
  PROVE  IInv'
<1> DEFINE t == conn[j][k]
<1>1. t \in ConnRecord /\ t.phase \in {"accepted", "known"}
      /\ LinkOk(pk[j].file, pk[j].sec, t) /\ Len(t.down) <= Window
  BY Active DEF TaskTrain
<1>2. t.down = <<>> /\ Len(t.down) = 0 /\ pk[j].sec[t.number].start = t.start
      /\ t.start \in 0..FileSize
  BY <1>1 DEF LinkOk, ConnRecord
<1>3. CASE t.phase = "known"
  <2> DEFINE u == AddTask(t)
  <2>1. conn' = [conn EXCEPT ![j][k] = u]
    BY <1>3 DEF TaskTrain
  <2>2. /\ u \in ConnRecord /\ u.phase = "serving" /\ u.number = t.number
        /\ u.file = t.file /\ u.start = t.start /\ u.end = t.end /\ u.down = t.down
        /\ u.off = t.start
    <3>1. u = Begun(t, t.start)
      BY DEF AddTask, Begun
    <3> HIDE DEF u
    <3>3. u \in ConnRecord /\ SameSection(t, u) /\ u.phase = "serving"
          /\ u.down = t.down /\ u.off = t.start
      BY <1>1, <1>2, <3>1, HasBegun, Zenon
    <3> QED BY <3>3 DEF SameSection
  <2> HIDE DEF u
  <2>3. u.off = Offset(u, t.start)
    BY <1>2, <2>2, MultiPointAssumption DEF Offset
  <2>4. LinkOk(pk[j].file, pk[j].sec, u)
    BY <1>1, <1>2, <2>2, <2>3 DEF LinkOk
  <2> QED BY <1>1, <2>1, <2>2, <2>4, ServerStep DEF TaskTrain
<1>4. CASE t.phase = "accepted"
  <2> DEFINE u == Disconnect(t)
  <2>1. conn' = [conn EXCEPT ![j][k] = u]
    BY <1>4 DEF TaskTrain
  <2>2. /\ u \in ConnRecord /\ u.phase = "dropped" /\ u.number = t.number
        /\ u.file = t.file /\ u.start = t.start /\ u.end = t.end /\ u.down = t.down
    <3>1. u = Rephase(t, "dropped", 0)
      BY DEF Disconnect, Rephase
    <3>2. "dropped" \in Phases /\ 0 \in 0..2
      BY DEF Phases
    <3> HIDE DEF u
    <3>3. u \in ConnRecord /\ SameSection(t, u) /\ u.phase = "dropped"
          /\ u.down = t.down
      BY <1>1, <3>1, <3>2, Rephased, Zenon
    <3> QED BY <3>3 DEF SameSection
  <2> HIDE DEF u
  <2>3. LinkOk(pk[j].file, pk[j].sec, u)
    BY <1>1, <1>2, <2>2 DEF LinkOk
  <2> QED BY <1>1, <2>1, <2>2, <2>3, ServerStep DEF TaskTrain
<1> QED BY <1>1, <1>3, <1>4

(* The train a server sends is the next of those the client waits for.     *)
LEMMA TrainIsSent ==
  ASSUME NEW t \in ConnRecord, NEW from \in 0..FileSize, t.start <= from,
         t.file \in File, t.start >= t.end => from = t.start, t.off = Offset(t, from)
  PROVE  /\ Train(t) = Sent(t, from, Len(t.down) + 1)
         /\ Train(t) \in Trains /\ t.off + Train(t).len \in 0..FileSize
         /\ t.start < t.end => t.off + Train(t).len =
              IF from + (Len(t.down) + 1) < FileSize THEN from + (Len(t.down) + 1)
              ELSE FileSize
<1>1. /\ t.start \in 0..FileSize /\ t.end \in 0..FileSize /\ Len(t.down) \in Nat
      /\ t.number \in Section /\ FileSize \in Nat /\ t.off \in 0..FileSize
  BY MultiPointAssumption DEF ConnRecord
<1>2. from + (Len(t.down) + 1) - 1 = from + Len(t.down)
  BY <1>1
<1>3. CASE t.start < t.end /\ t.off < FileSize
  <2>1. t.off = from + Len(t.down)
    BY <1>1, <1>3 DEF Offset
  <2>2. Train(t) = [code |-> t.number, len |-> 1, data |-> Slice(t.file, t.off)]
    BY <1>3 DEF Train
  <2>3. Sent(t, from, Len(t.down) + 1) = Train(t)
    BY <1>2, <1>3, <2>1, <2>2 DEF Sent
  <2>4. Train(t).len = 1
    BY <2>2
  <2> QED BY <1>1, <1>3, <2>1, <2>2, <2>3, <2>4 DEF Trains, Slice, Pos
<1>4. CASE ~(t.start < t.end /\ t.off < FileSize)
  <2>1. Train(t) = [code |-> t.number, len |-> 0, data |-> Hole]
    BY <1>4 DEF Train
  <2>2. ~(t.start < t.end /\ from + (Len(t.down) + 1) - 1 < FileSize)
    BY <1>1, <1>2, <1>4 DEF Offset
  <2>3. Sent(t, from, Len(t.down) + 1) = Train(t)
    BY <2>1, <2>2 DEF Sent
  <2>4. Train(t).len = 0 /\ Train(t) \in Trains
    BY <1>1, <2>1 DEF Trains
  <2> QED BY <1>1, <1>2, <1>4, <2>2, <2>3, <2>4 DEF Offset
<1> QED BY <1>3, <1>4

LEMMA Appended ==
  ASSUME NEW S, NEW q \in Seq(S), NEW x \in S
  PROVE  /\ Append(q, x) \in Seq(S) /\ Len(Append(q, x)) = Len(q) + 1
         /\ \A i \in 1..Len(q) : Append(q, x)[i] = q[i]
         /\ Append(q, x)[Len(q) + 1] = x
OBVIOUS

(* What Serve does to a connection.                                        *)
LEMMA Serves ==
  ASSUME NEW f \in File, NEW sec, NEW t \in ConnRecord, LinkOk(f, sec, t),
         t.phase = "serving", Len(t.down) < Window,
         NEW from \in 0..FileSize, from = sec[t.number].start,
         NEW u, u = Further(t, Append(t.down, Train(t)), t.off + Train(t).len)
  PROVE  LET v == IF t.start < t.end THEN u ELSE Disconnect(u)
         IN  /\ v \in ConnRecord /\ LinkOk(f, sec, v) /\ v.phase # "none"
             /\ v.number = t.number /\ Len(v.down) <= Window
<1>1. /\ t.start \in 0..FileSize /\ t.end \in 0..FileSize
      /\ t.down \in Seq(Trains) /\ Len(t.down) \in Nat /\ Window \in Nat
      /\ t.number \in Section
  BY MultiPointAssumption DEF ConnRecord
<1>2. /\ t.start <= from /\ t.file = f /\ t.off = Offset(t, from)
      /\ sec[t.number].state = 1 /\ Begin(t.number) <= t.start /\ t.end = End(t.number)
      /\ t.start >= t.end => from = t.start
      /\ \A q \in 1..Len(t.down) : t.down[q] = Sent(t, from, q)
  BY DEF LinkOk
<1>3. /\ Train(t) = Sent(t, from, Len(t.down) + 1)
      /\ Train(t) \in Trains /\ t.off + Train(t).len \in 0..FileSize
      /\ t.start < t.end => t.off + Train(t).len =
           IF from + (Len(t.down) + 1) < FileSize THEN from + (Len(t.down) + 1)
           ELSE FileSize
  BY <1>1, <1>2, TrainIsSent
<1> DEFINE d == Append(t.down, Train(t))
           o == t.off + Train(t).len
<1>4. /\ d \in Seq(Trains) /\ Len(d) = Len(t.down) + 1
      /\ \A q \in 1..Len(t.down) : d[q] = t.down[q]
      /\ d[Len(t.down) + 1] = Train(t)
  BY <1>1, <1>3, Appended
<1> HIDE DEF d, o
<1>5. u \in ConnRecord /\ SameSection(t, u) /\ u.phase = "serving" /\ u.down = d /\ u.off = o
  <2>1. u = Further(t, d, o) /\ o \in 0..FileSize
    BY <1>3 DEF d, o
  <2> QED BY <1>4, <2>1, GoesFurther
<1>6. ASSUME NEW q \in 1..Len(u.down)
      PROVE  u.down[q] = Sent(u, from, q)
  <2>1. CASE q = Len(t.down) + 1
    BY <1>3, <1>4, <1>5, <2>1 DEF Sent, SameSection
  <2>2. CASE q # Len(t.down) + 1
    <3>1. q \in 1..Len(t.down)
      BY <1>1, <1>4, <1>5, <2>2
    <3> QED BY <1>2, <1>4, <1>5, <3>1 DEF Sent, SameSection
  <2> QED BY <2>1, <2>2
<1>7. /\ u.file = f /\ sec[u.number].state = 1 /\ sec[u.number].start = from
      /\ Begin(u.number) <= u.start /\ u.start <= from
      /\ u.end = End(u.number) /\ u.number = t.number
      /\ u.start >= u.end => from = u.start
  BY <1>2, <1>5 DEF SameSection
<1>8. Len(u.down) <= Window
  BY <1>1, <1>4, <1>5
<1>9. CASE t.start < t.end
  <2>1. u.start < u.end /\ ~(u.start >= u.end) /\ Len(u.down) = Len(t.down) + 1
    BY <1>1, <1>4, <1>5, <1>9 DEF SameSection
  <2>2. u.off = Offset(u, from)
    BY <1>3, <1>5, <1>9, <2>1 DEF Offset, o
  <2>3. LinkOk(f, sec, u)
    BY <1>5, <1>6, <1>7, <2>2 DEF LinkOk
  <2> QED BY <1>5, <1>7, <1>8, <1>9, <2>3
<1>10. CASE ~(t.start < t.end)
  <2> DEFINE v == Disconnect(u)
  <2>1. v = Rephase(u, "dropped", 0) /\ "dropped" \in Phases /\ 0 \in 0..2
    BY DEF Disconnect, Rephase, Phases
  <2> HIDE DEF v
  <2>2. v \in ConnRecord /\ SameSection(u, v) /\ v.phase = "dropped"
        /\ v.down = u.down
    BY <1>5, <2>1, Rephased, Zenon
  <2>3. \A q \in 1..Len(v.down) : v.down[q] = Sent(v, from, q)
    BY <1>6, <2>2 DEF Sent, SameSection
  <2>4. LinkOk(f, sec, v)
    BY <1>7, <2>2, <2>3 DEF LinkOk, SameSection
  <2>5. v.phase # "none" /\ v.number = t.number /\ Len(v.down) <= Window
    BY <1>7, <1>8, <2>2 DEF SameSection
  <2> QED BY <1>10, <2>2, <2>4, <2>5 DEF v
<1> QED BY <1>9, <1>10

LEMMA ServeKeeps ==
  ASSUME IInv, NEW j \in Pk, NEW k \in Spot, Serve(j, k)
  PROVE  IInv'
<1> DEFINE t == conn[j][k]
           u == Further(t, Append(t.down, Train(t)), t.off + Train(t).len)
           v == IF t.start < t.end THEN u ELSE Disconnect(u)
<1>1. /\ t \in ConnRecord /\ t.phase = "serving" /\ LinkOk(pk[j].file, pk[j].sec, t)
      /\ pk[j].file \in File /\ pk[j].sec[t.number] \in SectionRecord
      /\ Len(t.down) < Window
  BY Active DEF Serve, PackOk, SecOk
<1>2. pk[j].sec[t.number].start \in 0..FileSize
  BY <1>1 DEF SectionRecord
<1>3. conn' = [conn EXCEPT ![j][k] = v]
  BY DEF Serve, Further
<1>4. /\ v \in ConnRecord /\ LinkOk(pk[j].file, pk[j].sec, v) /\ v.phase # "none"
      /\ v.number = t.number /\ Len(v.down) <= Window
  BY <1>1, <1>2, Serves
<1>5. conn[j][k].phase # "none" /\ UNCHANGED <<clientVars, alive, gets, exits>>
  BY <1>1 DEF Serve
<1> HIDE DEF v
<1> QED BY <1>3, <1>4, <1>5, ServerStep

-----------------------------------------------------------------------------
(* The steps of the client *)

(* One download changes.                                                   *)
LEMMA DownloadStep ==
  ASSUME IInv, NEW j \in Pk, NEW p \in Package, NEW sfd,
         pk' = [pk EXCEPT ![j] = p], conn' = [conn EXCEPT ![j] = sfd],
         IF p.file = None THEN sfd = NoConns
         ELSE PackOk(p.file, p.sec, sfd) /\ Waiting(p.sec)
  PROVE  /\ pk' \in [Pk -> Package] /\ conn' \in [Pk -> [Spot -> ConnRecord]]
         /\ \A i \in Pk : IF pk'[i].file = None THEN conn'[i] = NoConns
                          ELSE /\ PackOk(pk'[i].file, pk'[i].sec, conn'[i])
                               /\ Waiting(pk'[i].sec)
<1>1. NoConns \in [Spot -> ConnRecord]
  BY NoConnOk DEF NoConns
<1>2. sfd \in [Spot -> ConnRecord]
  BY <1>1 DEF PackOk
<1>3. pk \in [Pk -> Package] /\ conn \in [Pk -> [Spot -> ConnRecord]]
  BY DEF IInv
<1>4. /\ pk'[j] = p /\ conn'[j] = sfd
      /\ \A i \in Pk \ {j} : pk'[i] = pk[i] /\ conn'[i] = conn[i]
  BY <1>3
<1>5. ASSUME NEW i \in Pk
      PROVE  IF pk'[i].file = None THEN conn'[i] = NoConns
             ELSE PackOk(pk'[i].file, pk'[i].sec, conn'[i]) /\ Waiting(pk'[i].sec)
  BY <1>4 DEF IInv
<1> QED BY <1>2, <1>3, <1>5

LEMMA RecordStep ==
  ASSUME IInv, NEW j \in Pk, pk[j].file \in File, NEW sec, SecOk(sec)
  PROVE  /\ Record(j, sec) \in [Name -> {None} \cup [Section -> SectionRecord]]
         /\ \A n \in Name : Record(j, sec)[n] # None => SecOk(Record(j, sec)[n])
<1> DEFINE m == NameOf[pk[j].file]
           new == [temp EXCEPT ![m] = sec]
<1>1. temp \in [Name -> {None} \cup [Section -> SectionRecord]]
      /\ \A n \in Name : temp[n] # None => SecOk(temp[n])
  BY DEF IInv
<1>2. sec \in [Section -> SectionRecord]
  BY DEF SecOk
<1>3. new \in [Name -> {None} \cup [Section -> SectionRecord]]
      /\ \A n \in Name : new[n] = IF n = m THEN sec ELSE temp[n]
  BY <1>1, <1>2
<1>4. Record(j, sec) = IF pk[j].linked THEN new ELSE temp
  BY DEF Record
<1> HIDE DEF new
<1>5. CASE pk[j].linked
  BY <1>1, <1>3, <1>4, <1>5
<1>6. CASE ~pk[j].linked
  BY <1>1, <1>4, <1>6
<1> QED BY <1>5, <1>6

LEMMA NoPackageOk == NoPackage \in Package /\ NoPackage.file = None
BY SectionsOk DEF NoPackage, Package, SecOk

(* The connections and the sections of a new download of f.                *)
LEMMA Starts ==
  ASSUME NEW f \in File, NEW rec, rec # None => SecOk(rec)
  PROVE  LET sec == IF rec = None THEN Sections ELSE Resumed(rec)
             d == SendTasks(f, [sec |-> sec, sfd |-> NoConns])
         IN  /\ PackOk(f, d.sec, d.sfd) /\ Waiting(d.sec) /\ Marked(sec, d.sec)
             /\ SecOk(sec)
<1> DEFINE sec == IF rec = None THEN Sections ELSE Resumed(rec)
<1>1. SecOk(sec) /\ \A i \in Section : sec[i].state # 1
  BY SectionsOk, ResumedOk
<1> HIDE DEF sec
<1>2. PackOk(f, sec, NoConns)
  BY <1>1, Idle, Zenon
<1> QED BY <1>1, <1>2, SendTasksOk, Zenon DEF sec

LEMMA InitTaskKeeps ==
  ASSUME IInv, NEW j \in Pk, NEW f \in File, InitTask(j, f),
         gets' \in 0..MaxGets, UNCHANGED <<last, disk, alive, exits>>
  PROVE  IInv'
<1> DEFINE n == NameOf[f]
           sec == IF temp[n] = None THEN Sections ELSE Resumed(temp[n])
           d == SendTasks(f, [sec |-> sec, sfd |-> NoConns])
           p == [file |-> f, sec |-> d.sec, linked |-> TRUE]
<1>1. n \in Name /\ f # None
  BY MultiPointAssumption DEF Name
<1>2. temp[n] # None => SecOk(temp[n])
  BY <1>1 DEF IInv
<1>3. PackOk(f, d.sec, d.sfd) /\ Waiting(d.sec)
  BY <1>2, Starts, Zenon
<1>4. /\ pk' = [pk EXCEPT ![j] = p] /\ conn' = [conn EXCEPT ![j] = d.sfd]
      /\ temp' = [temp EXCEPT ![n] = IF @ = None THEN Sections ELSE @]
  BY DEF InitTask
<1> HIDE DEF d
<1>5. p \in Package /\ p.file = f /\ p.sec = d.sec
  BY <1>3 DEF Package, PackOk, SecOk
<1> HIDE DEF p
<1>6. /\ pk' \in [Pk -> Package] /\ conn' \in [Pk -> [Spot -> ConnRecord]]
      /\ \A i \in Pk : IF pk'[i].file = None THEN conn'[i] = NoConns
                       ELSE /\ PackOk(pk'[i].file, pk'[i].sec, conn'[i])
                            /\ Waiting(pk'[i].sec)
  BY <1>1, <1>3, <1>4, <1>5, DownloadStep
<1>7. /\ temp' \in [Name -> {None} \cup [Section -> SectionRecord]]
      /\ \A m \in Name : temp'[m] # None => SecOk(temp'[m])
  BY <1>1, <1>4, SectionsOk DEF IInv, SecOk
<1> QED BY <1>6, <1>7 DEF IInv

LEMMA MgetsKeeps ==
  ASSUME IInv, NEW f \in File, Mgets(f)
  PROVE  IInv'
<1> DEFINE free == {j \in Pk : pk[j].file = None}
<1>1. gets' \in 0..MaxGets /\ UNCHANGED <<last, disk, alive, exits>>
  BY MultiPointAssumption DEF Mgets, IInv
<1>2. CASE free = {}
  <2>1. UNCHANGED <<pk, temp, conn>>
    BY <1>2 DEF Mgets
  <2> QED BY <1>1, <2>1 DEF IInv
<1>3. CASE free # {}
  <2>1. InitTask(Min(free), f)
    BY <1>3 DEF Mgets
  <2>2. free \in SUBSET Nat
    BY DEF Pk
  <2>3. Min(free) \in free
    BY <1>3, <2>2, Least, Zenon
  <2>4. Min(free) \in Pk
    BY <2>3
  <2> HIDE DEF free
  <2> QED BY <1>1, <2>1, <2>4, InitTaskKeeps
<1> QED BY <1>2, <1>3

LEMMA Receives ==
  ASSUME IInv, NEW j \in Pk, NEW k \in Spot, Arrived(j, k)
  PROVE  /\ pk[j].file \in File /\ pk[j].file # None /\ pk[j] \in Package
         /\ PackOk(pk[j].file, pk[j].sec, conn[j]) /\ Waiting(pk[j].sec)
         /\ conn[j][k].down # <<>>
         /\ conn[j] \in [Spot -> ConnRecord]
<1>1. conn[j][k].down # <<>>
  BY DEF Arrived
<1>2. pk[j].file # None
  BY <1>1, NoConnOk DEF IInv, NoConns
<1>3. pk[j] \in Package /\ conn[j] \in [Spot -> ConnRecord]
  BY DEF IInv
<1> QED BY <1>1, <1>2, <1>3 DEF IInv, Package

LEMMA AdvancedOk ==
  ASSUME NEW sec, SecOk(sec), NEW i \in Section, sec[i].start \in Pos
  PROVE  LET new == Advanced(sec, i)
         IN  /\ SecOk(new) /\ new[i].start = sec[i].start + 1
             /\ new[i].state = sec[i].state
             /\ \A l \in Section \ {i} : new[l] = sec[l]
<1> DEFINE new == Advanced(sec, i)
           from == sec[i].start
           s == [sec[i] EXCEPT !.start = from + 1]
<1>1. sec[i] \in SectionRecord /\ sec \in [Section -> SectionRecord]
  BY DEF SecOk
<1>2. from + 1 \in 0..FileSize
  BY MultiPointAssumption DEF Pos
<1>3. s \in SectionRecord /\ s.start = from + 1 /\ s.state = sec[i].state /\ s.end = sec[i].end
  BY <1>1, <1>2 DEF SectionRecord
<1>4. new = [sec EXCEPT ![i] = s]
  BY <1>1 DEF Advanced
<1> HIDE DEF s, new
<1>5. new \in [Section -> SectionRecord] /\ new[i] = s /\ \A l \in Section \ {i} : new[l] = sec[l]
  BY <1>1, <1>3, <1>4
<1>6. Begin(i) <= from + 1
  BY <1>1, Places DEF SecOk, SectionRecord
<1>7. SecOk(new)
  BY <1>3, <1>5, <1>6 DEF SecOk
<1> QED BY <1>3, <1>5, <1>7 DEF new

LEMMA GetSliceKeeps ==
  ASSUME IInv, NEW j \in Pk, NEW k \in Spot, GetSlice(j, k)
  PROVE  IInv'
<1> DEFINE f == pk[j].file
           t == First(j, k)
           i == conn[j][k].number
           sfd == [conn[j] EXCEPT ![k].down = Tail(@)]
           new == Advanced(pk[j].sec, i)
           p == [pk[j] EXCEPT !.sec = new]
<1>1. /\ f \in File /\ f # None /\ pk[j] \in Package
      /\ PackOk(f, pk[j].sec, conn[j]) /\ Waiting(pk[j].sec)
      /\ conn[j][k].down # <<>> /\ conn[j] \in [Spot -> ConnRecord]
  BY Receives DEF GetSlice
<1>2. Head(conn[j][k].down).len # 0 /\ t = Head(conn[j][k].down)
  BY DEF GetSlice, First
<1>3. /\ i \in Section /\ pk[j].sec[i].start \in Pos
      /\ t = [code |-> i, len |-> 1, data |-> Slice(f, pk[j].sec[i].start)]
      /\ PackOk(f, new, sfd)
  BY <1>1, <1>2, SliceOk
<1>4. /\ SecOk(pk[j].sec) /\ SecOk(new) /\ new[i].state = pk[j].sec[i].state
      /\ \A l \in Section \ {i} : new[l] = pk[j].sec[l]
  BY <1>1, <1>3, AdvancedOk DEF PackOk
<1>5. t.code = i /\ t.len = 1 /\ t.data = Slice(f, pk[j].sec[i].start)
  BY <1>3
<1> HIDE DEF t, i
<1>6. /\ pk' = [pk EXCEPT ![j].sec = new] /\ temp' = Record(j, new)
      /\ conn' = [conn EXCEPT ![j][k].down = Tail(@)]
      /\ last' = [len |-> 1, code |-> i]
      /\ disk' = [disk EXCEPT ![NameOf[f]][Place(pk[j].sec, i)] = t.data]
      /\ UNCHANGED <<alive, gets, exits>>
  BY <1>5 DEF GetSlice, t
<1> HIDE DEF new
<1>7. Waiting(new)
  BY <1>1, <1>3, <1>4 DEF Waiting, AllDone
<1>8. p \in Package /\ p.file = f /\ p.sec = new
  BY <1>1, <1>4 DEF Package, SecOk
<1>9. pk' = [pk EXCEPT ![j] = p] /\ conn' = [conn EXCEPT ![j] = sfd]
  BY <1>6 DEF IInv
<1> HIDE DEF p, sfd
<1>10. /\ pk' \in [Pk -> Package] /\ conn' \in [Pk -> [Spot -> ConnRecord]]
       /\ \A l \in Pk : IF pk'[l].file = None THEN conn'[l] = NoConns
                        ELSE /\ PackOk(pk'[l].file, pk'[l].sec, conn'[l])
                             /\ Waiting(pk'[l].sec)
  BY <1>1, <1>3, <1>7, <1>8, <1>9, DownloadStep
<1>11. /\ temp' \in [Name -> {None} \cup [Section -> SectionRecord]]
       /\ \A n \in Name : temp'[n] # None => SecOk(temp'[n])
  BY <1>1, <1>4, <1>6, RecordStep
<1>12. disk' \in [Name -> [Pos -> {Hole} \cup (File \X Pos)]]
  <2>1. t.data \in File \X Pos
    BY <1>1, <1>3, <1>5 DEF Slice
  <2> HIDE DEF f
  <2> QED BY <1>6, <2>1 DEF IInv
<1>13. last' \in [len : {0, 1}, code : Section]
  BY <1>3, <1>6
<1> QED BY <1>6, <1>10, <1>11, <1>12, <1>13 DEF IInv

LEMMA EndingOk ==
  ASSUME IInv, NEW j \in Pk, NEW k \in Spot, Arrived(j, k), First(j, k).len = 0
  PROVE  LET code == First(j, k).code
             d == NextTask(j, k, code)
         IN  /\ code \in Section /\ code = conn[j][k].number
             /\ End(code) <= pk[j].sec[code].start
             /\ PackOk(pk[j].file, d.sec, d.sfd) /\ Waiting(d.sec)
             /\ Marked([pk[j].sec EXCEPT ![code].state = 2], d.sec)
<1> DEFINE f == pk[j].file
           code == First(j, k).code
           done == [pk[j].sec EXCEPT ![code].state = 2]
           sfd == [conn[j] EXCEPT ![k] = NoConn]
<1>1. /\ f \in File /\ PackOk(f, pk[j].sec, conn[j]) /\ conn[j][k].down # <<>>
      /\ conn[j] \in [Spot -> ConnRecord]
  BY Receives
<1>2. /\ code = conn[j][k].number /\ code \in Section
      /\ End(code) <= pk[j].sec[code].start
      /\ PackOk(f, done, sfd)
  <2> DEFINE i == conn[j][k].number
  <2>1. Head(conn[j][k].down).len = 0 /\ code = Head(conn[j][k].down).code
    BY DEF First
  <2>2. /\ i \in Section /\ Head(conn[j][k].down).code = i
        /\ End(i) <= pk[j].sec[i].start
        /\ PackOk(f, [pk[j].sec EXCEPT ![i].state = 2], sfd)
    BY <1>1, <2>1, EndOk, Zenon
  <2>3. code = i
    BY <2>1, <2>2
  <2> HIDE DEF code
  <2> QED BY <2>2, <2>3
<1>3. sfd[k].phase = "none"
  BY <1>1, NoConnOk
<1>4. NextTask(j, k, code) = SendTask(f, [sec |-> done, sfd |-> sfd], k)
  BY DEF NextTask
<1> HIDE DEF f, code, done, sfd
<1> DEFINE d == SendTask(f, [sec |-> done, sfd |-> sfd], k)
<1>5. PackOk(f, d.sec, d.sfd) /\ Waiting(d.sec) /\ Marked(done, d.sec)
  BY <1>1, <1>2, <1>3, SendTaskOk
<1> HIDE DEF d
<1> QED BY <1>2, <1>4, <1>5 DEF f, code, done, d

LEMMA GetEndKeeps ==
  ASSUME IInv, NEW j \in Pk, NEW k \in Spot, GetEnd(j, k)
  PROVE  IInv'
<1> DEFINE f == pk[j].file
           code == First(j, k).code
           d == NextTask(j, k, code)
           p == [pk[j] EXCEPT !.sec = d.sec]
<1>1. f \in File /\ f # None /\ pk[j] \in Package
  BY Receives DEF GetEnd
<1>2. code \in Section /\ PackOk(f, d.sec, d.sfd) /\ Waiting(d.sec)
  BY EndingOk DEF GetEnd
<1>3. last' = [len |-> 0, code |-> code] /\ UNCHANGED <<disk, alive, gets, exits>>
      /\ EndSection(j, k, code)
  BY DEF GetEnd
<1>4. last' \in [len : {0, 1}, code : Section]
  BY <1>2, <1>3
<1>5. CASE Over(d.sec)
  <2>1. /\ temp' = [temp EXCEPT ![NameOf[f]] = None]
        /\ conn' = [conn EXCEPT ![j] = NoConns]
        /\ pk' = [i \in Pk |->
             IF i = j THEN NoPackage
             ELSE [pk[i] EXCEPT !.linked =
                     @ /\ (pk[i].file = None \/ NameOf[pk[i].file] # NameOf[f])]]
    BY <1>3, <1>5 DEF EndSection
  <2> HIDE DEF d, code, f
  <2>2. /\ pk'[j] = NoPackage
        /\ \A i \in Pk \ {j} : /\ pk'[i] \in Package /\ pk'[i].file = pk[i].file
                               /\ pk'[i].sec = pk[i].sec
    <3>1. ASSUME NEW i \in Pk \ {j}
          PROVE  /\ pk'[i] \in Package /\ pk'[i].file = pk[i].file
                 /\ pk'[i].sec = pk[i].sec
      <4> DEFINE b == pk[i].linked /\ (pk[i].file = None \/ NameOf[pk[i].file] # NameOf[f])
      <4>1. b \in BOOLEAN /\ pk[i] \in Package
        BY DEF IInv, Package
      <4>2. pk'[i] = [pk[i] EXCEPT !.linked = b]
        BY <2>1
      <4> HIDE DEF b
      <4> QED BY <4>1, <4>2 DEF Package
    <3> QED BY <2>1, <3>1
  <2>3. /\ conn' \in [Pk -> [Spot -> ConnRecord]] /\ conn'[j] = NoConns
        /\ \A i \in Pk \ {j} : conn'[i] = conn[i]
    BY <2>1, NoConnOk DEF IInv, NoConns
  <2>4. /\ temp' \in [Name -> {None} \cup [Section -> SectionRecord]]
        /\ \A n \in Name : temp'[n] # None => SecOk(temp'[n])
    BY <2>1 DEF IInv
  <2>5. pk' \in [Pk -> Package]
    <3>1. DOMAIN pk' = Pk /\ pk' = [i \in Pk |-> pk'[i]]
      BY <2>1
    <3> QED BY <2>2, <3>1, NoPackageOk
  <2>6. \A i \in Pk : IF pk'[i].file = None THEN conn'[i] = NoConns
                      ELSE /\ PackOk(pk'[i].file, pk'[i].sec, conn'[i])
                           /\ Waiting(pk'[i].sec)
    BY <2>2, <2>3, NoPackageOk DEF IInv
  <2> QED BY <1>3, <1>4, <2>3, <2>4, <2>5, <2>6 DEF IInv
<1>6. CASE ~Over(d.sec)
  <2>1. /\ pk' = [pk EXCEPT ![j].sec = d.sec] /\ temp' = Record(j, d.sec)
        /\ conn' = [conn EXCEPT ![j] = d.sfd]
    BY <1>3, <1>6 DEF EndSection
  <2> HIDE DEF d, code
  <2>2. SecOk(d.sec)
    BY <1>2 DEF PackOk
  <2>3. p \in Package /\ p.file = f /\ p.sec = d.sec
    BY <1>1, <2>2 DEF Package, SecOk
  <2>4. pk' = [pk EXCEPT ![j] = p]
    BY <2>1 DEF IInv
  <2> HIDE DEF p
  <2>5. /\ pk' \in [Pk -> Package] /\ conn' \in [Pk -> [Spot -> ConnRecord]]
        /\ \A i \in Pk : IF pk'[i].file = None THEN conn'[i] = NoConns
                         ELSE /\ PackOk(pk'[i].file, pk'[i].sec, conn'[i])
                              /\ Waiting(pk'[i].sec)
    BY <1>1, <1>2, <2>1, <2>3, <2>4, DownloadStep
  <2>6. /\ temp' \in [Name -> {None} \cup [Section -> SectionRecord]]
        /\ \A n \in Name : temp'[n] # None => SecOk(temp'[n])
    BY <1>1, <2>1, <2>2, RecordStep
  <2> QED BY <1>3, <1>4, <2>5, <2>6 DEF IInv
<1> QED BY <1>5, <1>6

(* The client ends, with a record that is right.                           *)
LEMMA EndsKeeps ==
  ASSUME IInv, Ends, temp' \in [Name -> {None} \cup [Section -> SectionRecord]],
         \A n \in Name : temp'[n] # None => SecOk(temp'[n])
  PROVE  IInv'
<1>1. /\ pk' = [j \in Pk |-> NoPackage] /\ last' = None
      /\ conn' = [j \in Pk |-> NoConns] /\ UNCHANGED <<disk, alive, gets>>
  BY DEF Ends
<1>2. exits' \in 0..MaxExits
  BY MultiPointAssumption DEF Ends, IInv
<1>3. conn' \in [Pk -> [Spot -> ConnRecord]]
  BY <1>1, NoConnOk DEF NoConns
<1>4. pk' \in [Pk -> Package] /\ \A j \in Pk : pk'[j].file = None /\ conn'[j] = NoConns
  BY <1>1, NoPackageOk
<1> QED BY <1>1, <1>2, <1>3, <1>4 DEF IInv

LEMMA ExitsBeforeRemoveKeeps ==
  ASSUME IInv, NEW j \in Pk, NEW k \in Spot, ExitsBeforeRemove(j, k)
  PROVE  IInv'
<1> DEFINE d == NextTask(j, k, First(j, k).code)
<1>1. PackOk(pk[j].file, d.sec, d.sfd) /\ pk[j].file \in File
  BY EndingOk, Receives DEF ExitsBeforeRemove
<1>2. temp' = Record(j, d.sec) /\ Ends
  BY DEF ExitsBeforeRemove
<1> HIDE DEF d
<1>3. SecOk(d.sec)
  BY <1>1 DEF PackOk
<1> QED BY <1>1, <1>2, <1>3, RecordStep, EndsKeeps

LEMMA IInvInit == Init => IInv
<1> SUFFICES ASSUME Init  PROVE IInv
  OBVIOUS
<1>1. /\ pk = [j \in Pk |-> NoPackage] /\ last = None
      /\ temp = [n \in Name |-> None] /\ disk = [n \in Name |-> [x \in Pos |-> Hole]]
      /\ conn = [j \in Pk |-> NoConns] /\ alive = Spot
      /\ gets = 0 /\ exits = 0
  BY DEF Init
<1>2. conn \in [Pk -> [Spot -> ConnRecord]]
  BY <1>1, NoConnOk DEF NoConns
<1>3. pk \in [Pk -> Package] /\ \A j \in Pk : pk[j].file = None /\ conn[j] = NoConns
  BY <1>1, NoPackageOk
<1>4. temp \in [Name -> {None} \cup [Section -> SectionRecord]]
      /\ \A n \in Name : temp[n] = None
  BY <1>1
<1>5. disk \in [Name -> [Pos -> {Hole} \cup (File \X Pos)]]
  BY <1>1
<1>6. gets \in 0..MaxGets /\ exits \in 0..MaxExits
  BY <1>1, MultiPointAssumption
<1> QED BY <1>1, <1>2, <1>3, <1>4, <1>5, <1>6 DEF IInv

LEMMA IInvNext == IInv /\ [Next]_vars => IInv'
<1> SUFFICES ASSUME IInv, [Next]_vars  PROVE IInv'
  OBVIOUS
<1>1. ASSUME NEW f \in File, Mgets(f)  PROVE IInv'
  BY <1>1, MgetsKeeps
<1>2. ASSUME NEW j \in Pk, NEW k \in Spot,
             \/ GetSlice(j, k) \/ GetEnd(j, k) \/ ExitsBeforeRemove(j, k)
             \/ Accept(j, k) \/ Token(j, k) \/ TaskTrain(j, k) \/ Serve(j, k)
      PROVE  IInv'
  BY <1>2, GetSliceKeeps, GetEndKeeps, ExitsBeforeRemoveKeeps, AcceptKeeps,
     TokenKeeps, TaskTrainKeeps, ServeKeeps
<1>3. CASE ClientExits
  <2>1. Ends /\ temp' = temp
    BY <1>3 DEF ClientExits
  <2>2. /\ temp' \in [Name -> {None} \cup [Section -> SectionRecord]]
        /\ \A n \in Name : temp'[n] # None => SecOk(temp'[n])
    BY <2>1 DEF IInv
  <2> QED BY <2>1, <2>2, EndsKeeps
<1>4. CASE UNCHANGED vars
  BY <1>4 DEF vars, clientVars, IInv
<1> QED BY <1>1, <1>2, <1>3, <1>4 DEF Next

THEOREM Invariant == Spec => []IInv
<1> QED BY IInvInit, IInvNext, PTL DEF Spec

-----------------------------------------------------------------------------
(* Types, and one server for each section that is marked *)

(* TypeOK: positions stay within the file in the client's records and in   *)
(* what the servers read, and no connection holds more than Window trains. *)
THEOREM TypeCorrect == Spec => []TypeOK
<1>1. IInv => TypeOK
  <2> SUFFICES ASSUME IInv  PROVE TypeOK
    OBVIOUS
  <2>1. ASSUME NEW j \in Pk, NEW k \in Spot
        PROVE  /\ conn[j][k].unread \in 0..2 /\ conn[j][k].off \in 0..FileSize
               /\ conn[j][k].down \in Seq(Trains) /\ Len(conn[j][k].down) <= Window
    <3>1. conn[j][k] \in ConnRecord
      BY DEF IInv
    <3>2. Len(conn[j][k].down) <= Window
      <4>1. CASE conn[j][k].phase = "none"
        <5>1. Len(NoConn.down) = 0
          BY NoConnOk
        <5>2. conn[j][k] = NoConn
          BY <4>1 DEF IInv, NoConns, PackOk, LinkOk
        <5> QED BY <5>1, <5>2, MultiPointAssumption
      <4>2. CASE conn[j][k].phase # "none"
        BY <4>2, Active
      <4> QED BY <4>1, <4>2
    <3> QED BY <3>1, <3>2 DEF ConnRecord
  <2>2. pk \in [Pk -> [file : File \cup {None}, sec : [Section -> SectionRecord],
                       linked : BOOLEAN]]
    BY DEF IInv, Package
  <2>3. \A n \in Name : temp[n] = None \/ temp[n] \in [Section -> SectionRecord]
    BY DEF IInv
  <2> QED BY <2>1, <2>2, <2>3 DEF IInv, TypeOK
<1> QED BY <1>1, Invariant, PTL

(* SpotsExact: a section is marked exactly while one server, and only one, *)
(* is asked for it (send_task, and the end of a section in vip_func), and  *)
(* some section is at a server until all are done.                         *)
THEOREM OneSpotEach == Spec => []SpotsExact
<1>1. IInv => SpotsExact
  <2> SUFFICES ASSUME IInv, NEW j \in Pk, pk[j].file # None
               PROVE  /\ \A i \in Section :
                           /\ Cardinality(ServedBy(j, i)) =
                                IF pk[j].sec[i].state = 1 THEN 1 ELSE 0
                           /\ \A k \in ServedBy(j, i) : conn[j][k].file = pk[j].file
                      /\ Waiting(pk[j].sec)
    BY DEF SpotsExact, Waiting
  <2> DEFINE f == pk[j].file
             sec == pk[j].sec
             sfd == conn[j]
  <2>1. PackOk(f, sec, sfd) /\ Waiting(sec)
    BY DEF IInv
  <2>2. ASSUME NEW i \in Section, NEW k \in ServedBy(j, i)
        PROVE  k \in Spot /\ sfd[k].file = f /\ sec[i].state = 1
               /\ sfd[k].phase # "none" /\ sfd[k].number = i
    BY <2>1 DEF PackOk, LinkOk, ServedBy
  <2>3. ASSUME NEW i \in Section, sec[i].state # 1
        PROVE  Cardinality(ServedBy(j, i)) = 0
    <3>1. ServedBy(j, i) = {}
      BY <2>2, <2>3
    <3> QED BY <3>1, FS_EmptySet
  <2>4. ASSUME NEW i \in Section, sec[i].state = 1
        PROVE  Cardinality(ServedBy(j, i)) = 1
    <3>1. PICK k \in Spot : sfd[k].phase # "none" /\ sfd[k].number = i
      BY <2>1, <2>4 DEF PackOk, Served
    <3>2. \A l \in ServedBy(j, i) : l = k
      BY <2>1, <2>2, <3>1 DEF PackOk, Distinct
    <3>3. k \in ServedBy(j, i)
      BY <3>1 DEF ServedBy
    <3>4. ServedBy(j, i) = {k}
      BY <3>2, <3>3
    <3> QED BY <3>4, FS_Singleton
  <2> QED BY <2>1, <2>2, <2>3, <2>4
<1> QED BY <1>1, Invariant, PTL

-----------------------------------------------------------------------------
(* What the records claim *)

LEMMA MarkedHonest ==
  ASSUME NEW dir, NEW f, NEW sec, NEW new, Honest(dir, f, sec), Marked(sec, new)
  PROVE  Honest(dir, f, new)
BY DEF Honest, Marked

LEMMA SectionsHonest == ASSUME NEW dir, NEW f  PROVE Honest(dir, f, Sections)
<1>1. \A i \in Section : Begin(i)..Begin(i) - 1 = {}
  BY Places
<1>2. \A i \in Section : Sections[i].start = Begin(i) /\ Sections[i].state # 2
  BY DEF Sections
<1> QED BY <1>1, <1>2 DEF Honest, Written

(* A slice of f at its place disturbs nothing that f claims.               *)
LEMMA SliceHonest ==
  ASSUME NEW dir \in [Pos -> {Hole} \cup (File \X Pos)], NEW f \in File,
         NEW x \in Pos, NEW sec, SecOk(sec), Honest(dir, f, sec)
  PROVE  LET new == [dir EXCEPT ![x] = Slice(f, x)]
         IN  /\ Honest(new, f, sec)
             /\ \A i \in Section : sec[i].start = x =>
                  Honest(new, f, Advanced(sec, i))
<1> DEFINE new == [dir EXCEPT ![x] = Slice(f, x)]
<1>1. \A y : y \in Pos /\ dir[y] = Slice(f, y) => new[y] = Slice(f, y)
  OBVIOUS
<1>2. new[x] = Slice(f, x)
  OBVIOUS
<1> HIDE DEF new
<1>3. ASSUME NEW i \in Section, NEW to \in 0..FileSize, Written(dir, f, Begin(i), to)
      PROVE  Written(new, f, Begin(i), to)
  <2>1. Begin(i)..to - 1 \subseteq Pos
    BY Places, MultiPointAssumption DEF Pos
  <2> QED BY <1>1, <1>3, <2>1 DEF Written
<1>4. \A i \in Section : End(i) \in 0..FileSize /\ Begin(i) \in 0..FileSize
                         /\ sec[i].start \in 0..FileSize
  BY Places DEF SecOk, SectionRecord
<1>5. Honest(new, f, sec)
  BY <1>3, <1>4 DEF Honest
<1>6. ASSUME NEW i \in Section, sec[i].start = x
      PROVE  Honest(new, f, Advanced(sec, i))
  <2> DEFINE adv == Advanced(sec, i)
  <2>1. /\ adv[i].start = x + 1 /\ adv[i].state = sec[i].state
        /\ \A l \in Section \ {i} : adv[l] = sec[l]
    BY <1>6, AdvancedOk
  <2> HIDE DEF adv
  <2>2. Written(new, f, Begin(i), x + 1)
    <3>1. \A y \in Begin(i)..(x + 1) - 1 : y \in Begin(i)..x - 1 \/ y = x
      BY <1>4 DEF Pos
    <3>2. Written(new, f, Begin(i), x)
      BY <1>5, <1>6 DEF Honest
    <3> QED BY <1>2, <3>1, <3>2 DEF Written
  <2>3. Honest(new, f, adv)
    BY <1>5, <2>1, <2>2 DEF Honest
  <2> QED BY <2>3 DEF adv
<1> QED BY <1>5, <1>6 DEF new

(* A section that has come to its end is done.                             *)
LEMMA DoneHonest ==
  ASSUME NEW dir, NEW f, NEW sec, SecOk(sec), Honest(dir, f, sec),
         NEW i \in Section, End(i) <= sec[i].start
  PROVE  Honest(dir, f, [sec EXCEPT ![i].state = 2])
<1> DEFINE new == [sec EXCEPT ![i].state = 2]
<1>1. /\ sec \in [Section -> SectionRecord] /\ sec[i] \in SectionRecord
      /\ sec[i].start \in 0..FileSize /\ End(i) \in 0..FileSize /\ Begin(i) \in 0..FileSize
  BY Places DEF SecOk, SectionRecord
<1>2. new[i].start = sec[i].start /\ \A l \in Section \ {i} : new[l] = sec[l]
  BY <1>1 DEF SectionRecord
<1> HIDE DEF new
<1>3. Written(dir, f, Begin(i), End(i))
  <2>1. Begin(i)..End(i) - 1 \subseteq Begin(i)..sec[i].start - 1
    BY <1>1
  <2>2. Written(dir, f, Begin(i), sec[i].start)
    BY DEF Honest
  <2> QED BY <2>1, <2>2 DEF Written
<1>4. Honest(dir, f, new)
  BY <1>2, <1>3 DEF Honest
<1> QED BY <1>4 DEF new

(* An end leaves the sections of the download honest.                      *)
LEMMA EndingHonest ==
  ASSUME IInv, HInv, NEW j \in Pk, NEW k \in Spot, Arrived(j, k), First(j, k).len = 0
  PROVE  LET d == NextTask(j, k, First(j, k).code)
         IN  Honest(disk[NameOf[pk[j].file]], pk[j].file, d.sec)
<1> DEFINE f == pk[j].file
           sec == pk[j].sec
           code == First(j, k).code
           d == NextTask(j, k, code)
<1>1. f # None /\ SecOk(sec)
  BY Receives DEF PackOk
<1>2. /\ code \in Section /\ End(code) <= sec[code].start
      /\ Marked([sec EXCEPT ![code].state = 2], d.sec)
  BY EndingOk
<1>3. Honest(disk[NameOf[f]], f, sec)
  BY <1>1 DEF HInv
<1> HIDE DEF d, code, sec, f
<1>4. Honest(disk[NameOf[f]], f, [sec EXCEPT ![code].state = 2])
  BY <1>1, <1>2, <1>3, DoneHonest
<1>5. Honest(disk[NameOf[f]], f, d.sec)
  BY <1>2, <1>4, MarkedHonest, Zenon
<1> QED BY <1>5 DEF d, code, f

(* What stays, and what is written by Record, when the disk does not       *)
(* change.                                                                 *)
LEMMA RecordHonestly ==
  ASSUME IInv, HInv, NEW j \in Pk, pk[j].file \in File, NEW sec,
         Honest(disk[NameOf[pk[j].file]], pk[j].file, sec)
  PROVE  \A n \in Name : Record(j, sec)[n] # None =>
           \E f \in File : NameOf[f] = n /\ Honest(disk[n], f, Record(j, sec)[n])
<1> DEFINE m == NameOf[pk[j].file]
           new == [temp EXCEPT ![m] = sec]
<1>1. Record(j, sec) = IF pk[j].linked THEN new ELSE temp
  BY DEF Record
<1>2. \A n \in Name : new[n] = IF n = m THEN sec ELSE temp[n]
  BY DEF IInv
<1> HIDE DEF new
<1>3. CASE pk[j].linked
  BY <1>1, <1>2, <1>3 DEF HInv
<1>4. CASE ~pk[j].linked
  BY <1>1, <1>4 DEF HInv
<1> QED BY <1>3, <1>4

LEMMA EndsHonest ==
  ASSUME Ends, \A n \in Name : temp'[n] # None =>
           \E f \in File : NameOf[f] = n /\ Honest(disk[n], f, temp'[n])
  PROVE  HInv'
<1>1. pk' = [j \in Pk |-> NoPackage] /\ disk' = disk
  BY DEF Ends
<1>2. \A j \in Pk : pk'[j].file = None
  BY <1>1, NoPackageOk
<1> QED BY <1>1, <1>2 DEF HInv

LEMMA GetEndHonest ==
  ASSUME IInv, HInv, NEW j \in Pk, NEW k \in Spot, GetEnd(j, k)
  PROVE  HInv'
<1> DEFINE f == pk[j].file
           d == NextTask(j, k, First(j, k).code)
<1>1. f \in File /\ f # None /\ pk[j] \in Package
  BY Receives DEF GetEnd
<1>2. Honest(disk[NameOf[f]], f, d.sec)
  BY EndingHonest DEF GetEnd
<1>3. disk' = disk /\ EndSection(j, k, First(j, k).code)
  BY DEF GetEnd
<1>4. CASE Over(d.sec)
  <2>1. /\ temp' = [temp EXCEPT ![NameOf[f]] = None]
        /\ pk' = [i \in Pk |->
             IF i = j THEN NoPackage
             ELSE [pk[i] EXCEPT !.linked =
                     @ /\ (pk[i].file = None \/ NameOf[pk[i].file] # NameOf[f])]]
    BY <1>3, <1>4 DEF EndSection
  <2> HIDE DEF d, f
  <2>2. pk'[j].file = None
    BY <2>1, NoPackageOk
  <2>3. \A i \in Pk \ {j} : pk'[i].file = pk[i].file /\ pk'[i].sec = pk[i].sec
    <3>1. \A i \in Pk \ {j} : pk[i] \in Package
      BY DEF IInv
    <3> QED BY <2>1, <3>1 DEF Package
  <2>4. \A n \in Name : temp'[n] # None => temp'[n] = temp[n]
    BY <2>1 DEF IInv
  <2> QED BY <1>3, <2>2, <2>3, <2>4 DEF HInv
<1>5. CASE ~Over(d.sec)
  <2>1. pk' = [pk EXCEPT ![j].sec = d.sec] /\ temp' = Record(j, d.sec)
    BY <1>3, <1>5 DEF EndSection
  <2> HIDE DEF d
  <2>2. /\ pk'[j].file = f /\ pk'[j].sec = d.sec
        /\ \A i \in Pk \ {j} : pk'[i] = pk[i]
    BY <1>1, <2>1 DEF IInv, Package
  <2>3. \A n \in Name : temp'[n] # None =>
           \E g \in File : NameOf[g] = n /\ Honest(disk[n], g, temp'[n])
    BY <1>1, <1>2, <2>1, RecordHonestly
  <2> QED BY <1>2, <1>3, <2>2, <2>3 DEF HInv
<1> QED BY <1>4, <1>5

LEMMA GetSliceHonest ==
  ASSUME OwnNames, IInv, HInv, NEW j \in Pk, NEW k \in Spot, GetSlice(j, k)
  PROVE  HInv'
<1> DEFINE f == pk[j].file
           n == NameOf[f]
           i == conn[j][k].number
           x == pk[j].sec[i].start
           sec == Advanced(pk[j].sec, i)
           dir == [disk[n] EXCEPT ![x] = Slice(f, x)]
<1>1. /\ f \in File /\ f # None /\ pk[j] \in Package /\ n \in Name
      /\ PackOk(f, pk[j].sec, conn[j]) /\ conn[j][k].down # <<>>
  BY Receives DEF GetSlice, Name
<1>2. /\ i \in Section /\ x \in Pos
      /\ First(j, k) = [code |-> i, len |-> 1, data |-> Slice(f, x)]
  <2>1. Head(conn[j][k].down).len # 0 /\ First(j, k) = Head(conn[j][k].down)
    BY DEF GetSlice, First
  <2> QED BY <1>1, <2>1, SliceOk
<1>3. First(j, k).code = i /\ First(j, k).data = Slice(f, x)
  BY <1>2
<1>4. /\ pk' = [pk EXCEPT ![j].sec = sec] /\ temp' = Record(j, sec)
      /\ disk' = [disk EXCEPT ![n][x] = Slice(f, x)]
  BY <1>3 DEF GetSlice, Place
<1>5. SecOk(pk[j].sec)
  BY <1>1 DEF PackOk
<1>6. /\ disk'[n] = dir /\ disk[n] \in [Pos -> {Hole} \cup (File \X Pos)]
      /\ \A m \in Name \ {n} : disk'[m] = disk[m]
  BY <1>1, <1>4 DEF IInv
<1> HIDE DEF dir
<1>7. \A s : SecOk(s) /\ Honest(disk[n], f, s) =>
               /\ Honest(dir, f, s)
               /\ s[i].start = x => Honest(dir, f, Advanced(s, i))
  BY <1>1, <1>2, <1>6, SliceHonest DEF dir
<1>8. Honest(dir, f, sec)
  BY <1>1, <1>5, <1>7 DEF HInv
<1>9. /\ pk'[j].file = f /\ pk'[j].sec = sec
      /\ \A l \in Pk \ {j} : pk'[l] = pk[l]
  BY <1>1, <1>4 DEF IInv, Package
<1>10. ASSUME NEW m \in Name, NEW g \in File, NameOf[g] = m, NEW s, SecOk(s),
              Honest(disk[m], g, s)
       PROVE  Honest(disk'[m], g, s)
  <2>1. CASE m = n
    <3>1. g = f
      BY <1>1, <1>10, <2>1 DEF OwnNames
    <3> QED BY <1>6, <1>7, <1>10, <2>1, <3>1
  <2>2. CASE m # n
    BY <1>6, <1>10, <2>2
  <2> QED BY <2>1, <2>2
<1> HIDE DEF sec
<1>11. ASSUME NEW l \in Pk, pk'[l].file # None
       PROVE  Honest(disk'[NameOf[pk'[l].file]], pk'[l].file, pk'[l].sec)
  <2>1. CASE l = j
    BY <1>6, <1>8, <1>9, <2>1
  <2>2. CASE l # j
    <3>1. pk[l].file \in File /\ pk'[l] = pk[l] /\ NameOf[pk[l].file] \in Name
      BY <1>9, <1>11, <2>2 DEF IInv, Package, Name
    <3>2. SecOk(pk[l].sec) /\ Honest(disk[NameOf[pk[l].file]], pk[l].file, pk[l].sec)
      BY <1>11, <3>1 DEF IInv, HInv, PackOk
    <3> QED BY <1>10, <3>1, <3>2
  <2> QED BY <2>1, <2>2
<1>12. ASSUME NEW m \in Name, temp'[m] # None
       PROVE  \E g \in File : NameOf[g] = m /\ Honest(disk'[m], g, temp'[m])
  <2>1. temp'[m] = temp[m] \/ (m = n /\ temp'[m] = sec)
    BY <1>1, <1>4 DEF Record, IInv
  <2>2. CASE m = n /\ temp'[m] = sec
    BY <1>1, <1>6, <1>8, <2>2
  <2>3. CASE temp'[m] = temp[m]
    <3>1. SecOk(temp[m])
      BY <1>12, <2>3 DEF IInv
    <3>2. PICK g \in File : NameOf[g] = m /\ Honest(disk[m], g, temp[m])
      BY <1>12, <2>3 DEF HInv
    <3> QED BY <1>10, <2>3, <3>1, <3>2
  <2> QED BY <2>1, <2>2, <2>3
<1> QED BY <1>11, <1>12 DEF HInv

LEMMA MgetsHonest ==
  ASSUME OwnNames, IInv, HInv, NEW f \in File, Mgets(f)
  PROVE  HInv'
<1> DEFINE free == {j \in Pk : pk[j].file = None}
           n == NameOf[f]
           sec == IF temp[n] = None THEN Sections ELSE Resumed(temp[n])
           d == SendTasks(f, [sec |-> sec, sfd |-> NoConns])
           j == Min(free)
           p == [file |-> f, sec |-> d.sec, linked |-> TRUE]
<1>1. disk' = disk
  BY DEF Mgets
<1>2. CASE free = {}
  <2>1. UNCHANGED <<pk, temp>>
    BY <1>2 DEF Mgets
  <2> QED BY <1>1, <2>1 DEF HInv
<1>3. CASE free # {}
  <2>1. /\ pk' = [pk EXCEPT ![j] = p]
        /\ temp' = [temp EXCEPT ![n] = IF @ = None THEN Sections ELSE @]
    BY <1>3 DEF Mgets, InitTask
  <2>2. j \in Pk /\ n \in Name
    <3>1. free \in SUBSET Nat
      BY DEF Pk
    <3>2. Min(free) \in free
      BY <1>3, <3>1, Least, Zenon
    <3> QED BY <3>2 DEF Name
  <2>3. temp[n] # None => SecOk(temp[n]) /\ Honest(disk[n], f, temp[n])
    BY <2>2 DEF IInv, HInv, OwnNames
  <2>4. Marked(sec, d.sec)
    BY <2>3, Starts, Zenon
  <2>5. Honest(disk[n], f, sec)
    <3>1. CASE temp[n] = None
      BY <3>1, SectionsHonest
    <3>2. CASE temp[n] # None
      <4>1. Honest(disk[n], f, Resumed(temp[n]))
        BY <2>3, <3>2, ResumedOk, MarkedHonest
      <4> QED BY <3>2, <4>1
    <3> QED BY <3>1, <3>2
  <2> HIDE DEF sec, d, j
  <2>6. Honest(disk[n], f, d.sec)
    BY <2>4, <2>5, MarkedHonest, Zenon
  <2>7. p.file = f /\ p.sec = d.sec
    OBVIOUS
  <2> HIDE DEF p
  <2>8. pk'[j] = p /\ \A l \in Pk \ {j} : pk'[l] = pk[l]
    BY <2>1, <2>2 DEF IInv
  <2>9. \A m \in Name : temp'[m] = temp[m] \/ (m = n /\ temp'[m] = Sections)
    BY <2>1, <2>2 DEF IInv
  <2>10. Honest(disk[n], f, Sections)
    BY SectionsHonest
  <2> QED BY <1>1, <2>6, <2>7, <2>8, <2>9, <2>10 DEF HInv
<1> QED BY <1>2, <1>3

LEMMA HInvNext == OwnNames /\ IInv /\ HInv /\ [Next]_vars => HInv'
<1> SUFFICES ASSUME OwnNames, IInv, HInv, [Next]_vars  PROVE HInv'
  OBVIOUS
<1>1. ASSUME NEW f \in File, Mgets(f)  PROVE HInv'
  BY <1>1, MgetsHonest
<1>2. ASSUME NEW j \in Pk, NEW k \in Spot, GetSlice(j, k) \/ GetEnd(j, k)
      PROVE  HInv'
  BY <1>2, GetSliceHonest, GetEndHonest
<1>3. ASSUME NEW j \in Pk, NEW k \in Spot, ExitsBeforeRemove(j, k)
      PROVE  HInv'
  <2> DEFINE d == NextTask(j, k, First(j, k).code)
  <2>1. Ends /\ temp' = Record(j, d.sec)
    BY <1>3 DEF ExitsBeforeRemove
  <2>2. Honest(disk[NameOf[pk[j].file]], pk[j].file, d.sec) /\ pk[j].file \in File
    BY <1>3, EndingHonest, Receives DEF ExitsBeforeRemove
  <2> HIDE DEF d
  <2>3. \A n \in Name : temp'[n] # None =>
           \E f \in File : NameOf[f] = n /\ Honest(disk[n], f, temp'[n])
    BY <2>1, <2>2, RecordHonestly
  <2> QED BY <2>1, <2>3, EndsHonest
<1>4. ASSUME NEW j \in Pk, NEW k \in Spot,
             Accept(j, k) \/ Token(j, k) \/ TaskTrain(j, k) \/ Serve(j, k)
      PROVE  HInv'
  <2>1. UNCHANGED <<pk, temp, disk>>
    BY <1>4 DEF Accept, Token, TaskTrain, Serve, clientVars
  <2> QED BY <2>1 DEF HInv
<1>5. CASE ClientExits
  <2>1. Ends /\ temp' = temp
    BY <1>5 DEF ClientExits
  <2>2. \A n \in Name : temp'[n] # None =>
           \E f \in File : NameOf[f] = n /\ Honest(disk[n], f, temp'[n])
    BY <2>1 DEF HInv
  <2> QED BY <2>1, <2>2, EndsHonest
<1>6. CASE UNCHANGED vars
  BY <1>6 DEF vars, clientVars, HInv
<1> QED BY <1>1, <1>2, <1>3, <1>4, <1>5, <1>6 DEF Next

LEMMA HInvInit == Init => HInv
<1> SUFFICES ASSUME Init  PROVE HInv
  OBVIOUS
<1>1. \A j \in Pk : pk[j].file = None
  BY NoPackageOk DEF Init
<1>2. \A n \in Name : temp[n] = None
  BY DEF Init
<1> QED BY <1>1, <1>2 DEF HInv

(* If no two files have one name, the records are honest ...               *)
THEOREM Honesty == ASSUME OwnNames  PROVE Spec => []HInv
<1> USE OwnNames
<1>1. IInv /\ HInv /\ [Next]_vars => (IInv /\ HInv)'
  BY IInvNext, HInvNext
<1>2. Init => IInv /\ HInv
  BY IInvInit, HInvInit
<1> QED BY <1>1, <1>2, PTL DEF Spec

(* RecordHonest: ... the .temp claims no slice that the file has not, of   *)
(* the right file at its place, through exits and resumed downloads (the   *)
(* record init_task resumes from).                                         *)
THEOREM RecordsAreHonest == ASSUME OwnNames  PROVE Spec => []RecordHonest
<1> USE OwnNames
<1>1. HInv => RecordHonest
  BY DEF HInv, RecordHonest, Honest, Written, Has
<1> QED BY <1>1, Honesty, PTL

(* WholeWhenOver: ... and a download that is over is the whole file: the   *)
(* sections cover it.                                                      *)
THEOREM OverIsWhole == ASSUME OwnNames  PROVE Spec => WholeWhenOver
<1> DEFINE A == \A j \in Pk :
             (pk[j].file # None /\ pk'[j].file = None /\ exits' = exits) =>
               Has(NameOf[pk[j].file], pk[j].file, 0, FileSize)
<1>1. IInv /\ HInv /\ [Next]_vars => [A]_vars
  <2> SUFFICES ASSUME IInv, HInv, Next, NEW j \in Pk,
                      pk[j].file # None, pk'[j].file = None, exits' = exits
               PROVE  Has(NameOf[pk[j].file], pk[j].file, 0, FileSize)
    OBVIOUS
  <2> DEFINE dir == disk[NameOf[pk[j].file]]
  <2>1. ~Ends
    BY DEF Ends, IInv
  <2>2. pk' # pk
    OBVIOUS
  <2>3. ASSUME NEW f \in File, Mgets(f)  PROVE FALSE
    <3> DEFINE free == {l \in Pk : pk[l].file = None}
               p == pk'[Min(free)]
    <3>1. free # {} /\ InitTask(Min(free), f)
      BY <2>2, <2>3 DEF Mgets
    <3>2. Min(free) \in free
      <4>1. free \in SUBSET Nat
        BY DEF Pk
      <4> QED BY <3>1, <4>1, Least, Zenon
    <3>3. Min(free) # j
      BY <3>2
    <3> HIDE DEF free
    <3>4. pk'[j] = pk[j]
      BY <3>1, <3>3 DEF InitTask, IInv
    <3> QED BY <3>4
  <2>4. ASSUME NEW i \in Pk, NEW k \in Spot, GetSlice(i, k)  PROVE FALSE
    <3>1. pk'[j].file = pk[j].file
      <4> DEFINE sec == Advanced(pk[i].sec, First(i, k).code)
      <4>1. pk' = [pk EXCEPT ![i].sec = sec]
        BY <2>4 DEF GetSlice
      <4> HIDE DEF sec
      <4> QED BY <4>1 DEF IInv, Package
    <3> QED BY <3>1
  <2>5. ASSUME NEW i \in Pk, NEW k \in Spot, GetEnd(i, k)
        PROVE  Has(NameOf[pk[j].file], pk[j].file, 0, FileSize)
    <3> DEFINE d == NextTask(i, k, First(i, k).code)
    <3>1. i = j /\ Over(d.sec)
      <4>1. EndSection(i, k, First(i, k).code)
        BY <2>5 DEF GetEnd
      <4>2. CASE ~Over(d.sec)
        <5>1. pk' = [pk EXCEPT ![i].sec = d.sec]
          BY <4>1, <4>2 DEF EndSection
        <5> HIDE DEF d
        <5>2. pk'[j].file = pk[j].file
          BY <5>1 DEF IInv, Package
        <5> QED BY <5>2
      <4>3. CASE Over(d.sec) /\ i # j
        <5> DEFINE b == pk[j].linked /\ (pk[j].file = None \/ NameOf[pk[j].file] # NameOf[pk[i].file])
        <5>1. pk'[j] = [pk[j] EXCEPT !.linked = b]
          BY <4>1, <4>3 DEF EndSection
        <5> HIDE DEF b
        <5>2. pk'[j].file = pk[j].file
          BY <5>1 DEF IInv, Package
        <5> QED BY <5>2
      <4> QED BY <4>2, <4>3
    <3>2. Honest(dir, pk[j].file, d.sec)
      BY <2>5, <3>1, EndingHonest DEF GetEnd
    <3> HIDE DEF d
    <3>3. \A l \in Section : Written(dir, pk[j].file, Begin(l), End(l))
      BY <3>1, <3>2 DEF Honest, Over, AllDone
    <3>4. \A x \in Pos : dir[x] = Slice(pk[j].file, x)
      BY <3>3, Cover DEF Written
    <3> QED BY <3>4 DEF Has, Pos
  <2>6. ASSUME NEW i \in Pk, NEW k \in Spot,
               \/ Accept(i, k) \/ Token(i, k) \/ TaskTrain(i, k) \/ Serve(i, k)
        PROVE  FALSE
    BY <2>2, <2>6 DEF Accept, Token, TaskTrain, Serve, clientVars
  <2> QED BY <2>1, <2>3, <2>4, <2>5, <2>6 DEF Next, ClientExits, ExitsBeforeRemove
<1>2. Spec => [][A]_vars
  <2> USE OwnNames
  <2> QED BY <1>1, Invariant, Honesty, PTL DEF Spec
<1> QED BY <1>2 DEF WholeWhenOver
===============================================================================
