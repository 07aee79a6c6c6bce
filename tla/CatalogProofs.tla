------------------------------ MODULE CatalogProofs ------------------------------
(***************************************************************************)
(* What is listed is on disk and whole, for any number of terminals, names, *)
(* contents, blocks and uploads, even when the ring comes round over a live *)
(* upload, as long as the user is Careful.  And rm keeps the tree.          *)
(***************************************************************************)
EXTENDS Catalog, FiniteSetTheorems, TLAPS

(* A content is not asked for while it is uploaded, and a terminal sends   *)
(* one UPLOAD_PRE at a time.                                               *)
Careful == Apart /\ Ahead = 1

(* The content a terminal has asked for or been told to send is the one in *)
(* its buffer.                                                             *)
Pending(q, t) == \/ q = <<>>
                 \/ /\ q = <<Head(q)>> /\ Head(q).md5sum = uppath[t]
                    /\ uppath[t] \in MD5

Buffered ==
  /\ uppath = [t \in Terminal |-> uppath[t]]
  /\ asked = [t \in Terminal |-> asked[t]]
  /\ agreed = [t \in Terminal |-> agreed[t]]
  /\ \A t \in Terminal : /\ Pending(asked[t], t) /\ Pending(agreed[t], t)
                         /\ asked[t] = <<>> \/ agreed[t] = <<>>

(* Each content is in one terminal's or one upload's hands.                *)
Wants(t) == asked[t] # <<>> \/ agreed[t] # <<>>
Distinct ==
  /\ \A t1, t2 \in Terminal : 
       Wants(t1) /\ Wants(t2) /\ uppath[t1] = uppath[t2] => t1 = t2
  /\ \A u1, u2 \in Upload :
       Live(u1) /\ Live(u2) /\ job[u1].md5sum = job[u2].md5sum => u1 = u2
  /\ \A t \in Terminal, u \in Upload :
       Wants(t) /\ Live(u) => uppath[t] # job[u].md5sum

(* What is to be uploaded is not listed.                                   *)
Unlisted ==
  /\ \A t \in Terminal : agreed[t] # <<>> => Known(uppath[t]) = {}
  /\ \A u \in Upload : Live(u) => Known(job[u].md5sum) = {}

(* An upload sends the content its DQ_buf names.                           *)
Jobs ==
  /\ job = [u \in Upload |-> job[u]]
  /\ got \in [Upload -> Nat] /\ limit \in [Upload -> Int] /\ over \subseteq Upload
  /\ \A u \in Upload :
       /\ limit[u] = -1 => got[u] = 0 /\ u \notin over
       /\ limit[u] # -1 => limit[u] >= 0
       /\ Live(u) => /\ job[u].md5sum \in MD5 /\ job[u].data = job[u].md5sum
                     /\ got[u] <= Blocks + 1

(* Where an upload is: in the pipe or in one slot, or it has lost its slot. *)
InPipe(u) == \E i \in 1..Len(pipe) : pipe[i] = u
InSlot(u) == \E s \in Ring : task[s].soketfd = u
Lost(u) == Live(u) /\ ~InPipe(u) /\ ~InSlot(u)

Piped ==
  /\ pipe \in Seq(Upload)
  /\ \A i \in 1..Len(pipe) : /\ Live(pipe[i]) /\ got[pipe[i]] = 0
                             /\ ~InSlot(pipe[i])
                             /\ \A j \in 1..Len(pipe) : pipe[i] = pipe[j] => i = j

Held ==
  /\ task = [s \in Ring |-> [soketfd |-> task[s].soketfd, file |-> task[s].file,
                             pos |-> task[s].pos, job |-> task[s].job]]
  /\ \A s \in Ring : task[s].soketfd # 0 =>
       /\ task[s].soketfd \in Upload /\ Live(task[s].soketfd)
       /\ \A r \in Ring : task[r].soketfd = task[s].soketfd => r = s

(* A slot whose upload has opened its file is about that file; before, it  *)
(* may still be about an upload that has lost the slot.                    *)
Opened(s) == task[s].soketfd # 0 /\ got[task[s].soketfd] > 0
Current(s) ==
  LET u == task[s].soketfd
  IN  /\ task[s].job = job[u] /\ task[s].pos = got[u] - 1
      /\ task[s].file = disk[job[u].md5sum] /\ task[s].file # 0
      /\ Len(content[task[s].file]) >= task[s].pos
Stale(s) ==
  \/ task[s].file = 0
  \/ \E v \in Upload : Lost(v) /\ task[s].job.md5sum = job[v].md5sum

Slots == \A s \in Ring : IF Opened(s) THEN Current(s) ELSE Stale(s)

(* The file of an MD5 is a beginning of that content.                      *)
Upto(m, n) == [i \in 1..n |-> <<m, i>>]
Files ==
  /\ disk \in [MD5 -> Upload \cup {0}]
  /\ content = [u \in Upload |-> content[u]]
  /\ \A m \in MD5 : disk[m] # 0 =>
       /\ got[disk[m]] > 0
       /\ \E n \in 0..Blocks : content[disk[m]] = Upto(m, n)
       /\ \A k \in MD5 : disk[k] = disk[m] => k = m
  /\ \A u \in Upload : got[u] = 0 => content[u] = <<>>

Rows == \A r \in rows : r.filetype = "f" => r.md5sum \in MD5

IInv == Buffered /\ Distinct /\ Unlisted /\ Jobs /\ Piped /\ Held /\ Slots
        /\ Files /\ Rows /\ RowHasContent

-----------------------------------------------------------------------------
(* Queues of at most one message.                                          *)
LEMMA Single ==
  ASSUME NEW x
  PROVE  /\ Append(<<>>, x) = <<x>> /\ Head(<<x>>) = x /\ Tail(<<x>>) = <<>>
         /\ <<x>> # <<>> /\ Len(<<x>>) = 1
         /\ Range(<<x>> \o <<>>) = {x} /\ Range(<<>> \o <<x>>) = {x}
<1>1. <<x>> \o <<>> = <<x>> /\ <<>> \o <<x>> = <<x>>
  OBVIOUS
<1>2. Range(<<x>>) = {x}
  BY DEF Range
<1> QED BY <1>1, <1>2

(* What is in nobody's hands. *)
LEMMA NotInFlight ==
  ASSUME Buffered, NEW m, ~InFlight(m)
  PROVE  /\ \A t \in Terminal : Wants(t) => uppath[t] # m
         /\ \A u \in Upload : Live(u) => job[u].md5sum # m
<1>1. \A u \in Upload : Live(u) => job[u].md5sum # m
  BY DEF InFlight
<1>2. ASSUME NEW t \in Terminal, Wants(t)
      PROVE  uppath[t] # m
  <2>1. CASE asked[t] # <<>>
    <3>1. agreed[t] = <<>> /\ asked[t] = <<Head(asked[t])>>
          /\ Head(asked[t]).md5sum = uppath[t]
      BY <2>1 DEF Buffered, Pending
    <3>2. Range(asked[t] \o agreed[t]) = {Head(asked[t])}
      BY <3>1, Single
    <3> QED BY <3>1, <3>2 DEF InFlight
  <2>2. CASE agreed[t] # <<>>
    <3>1. asked[t] = <<>> /\ agreed[t] = <<Head(agreed[t])>>
          /\ Head(agreed[t]).md5sum = uppath[t]
      BY <2>2 DEF Buffered, Pending
    <3>2. Range(asked[t] \o agreed[t]) = {Head(agreed[t])}
      BY <3>1, Single
    <3> QED BY <3>1, <3>2 DEF InFlight
  <2> QED BY <1>2, <2>1, <2>2 DEF Wants
<1> QED BY <1>1, <1>2

LEMMA LeastFresh ==
  ASSUME Fresh # {}
  PROVE  LET u == CHOOSE v \in Fresh : \A w \in Fresh : v <= w
         IN  u \in Upload /\ limit[u] = -1
<1>1. Fresh \subseteq Nat
  BY CatalogAssumption DEF Fresh
<1>2. PICK x \in Fresh : \A y \in Fresh : <<y, x>> \notin OpToRel(<, Nat)
  BY <1>1, WFMin, NatLessThanWellFounded
<1>3. \A y \in Fresh : ~(y < x)
  BY <1>1, <1>2 DEF OpToRel
<1>4. \A y \in Fresh : x <= y
  BY <1>1, <1>3
<1>5. \E v \in Fresh : \A w \in Fresh : v <= w
  BY <1>4
<1> QED BY <1>5 DEF Fresh

(* Writing the next block, or one that is there already.                   *)
LEMMA WrittenUpto ==
  ASSUME NEW m, NEW n \in 0..Blocks, NEW p \in Nat, p <= n, p < Blocks
  PROVE  \E k \in 0..Blocks :
           k > p /\ Written(Upto(m, n), p, <<m, p + 1>>) = Upto(m, k)
<1> DEFINE S == {m} \X Nat
<1>1. Upto(m, n) \in Seq(S) /\ Len(Upto(m, n)) = n
  BY CatalogAssumption DEF Upto
<1>2. CASE p < n
  <2>1. Written(Upto(m, n), p, <<m, p + 1>>) =
          [Upto(m, n) EXCEPT ![p + 1] = <<m, p + 1>>]
    BY <1>1, <1>2 DEF Written
  <2>2. [Upto(m, n) EXCEPT ![p + 1] = <<m, p + 1>>] = Upto(m, n)
    BY <1>2 DEF Upto
  <2> QED BY <1>2, <2>1, <2>2
<1>3. CASE p = n
  <2>1. Written(Upto(m, n), p, <<m, p + 1>>) = Append(Upto(m, n), <<m, n + 1>>)
    BY <1>1, <1>3 DEF Written
  <2>2. Append(Upto(m, n), <<m, n + 1>>) = Upto(m, n + 1)
    <3> DEFINE f == Append(Upto(m, n), <<m, n + 1>>)
    <3>1. f \in Seq(S) /\ Len(f) = n + 1
      BY <1>1
    <3>2. \A i \in 1..n : f[i] = Upto(m, n)[i]
      BY <1>1
    <3>3. f[n + 1] = <<m, n + 1>>
      BY <1>1
    <3>4. \A i \in 1..n + 1 : f[i] = <<m, i>>
      BY <3>2, <3>3 DEF Upto
    <3>5. f = [i \in 1..n + 1 |-> f[i]]
      BY <3>1
    <3> HIDE DEF f
    <3>6. f = [i \in 1..n + 1 |-> <<m, i>>]
      BY <3>4, <3>5, Zenon
    <3>7. f = Upto(m, n + 1)
      BY <3>6 DEF Upto
    <3> QED BY <3>7 DEF f
  <2>3. n + 1 \in 0..Blocks /\ n + 1 > p
    BY <1>3, CatalogAssumption
  <2> QED BY <2>1, <2>2, <2>3, Zenon
<1> QED BY <1>2, <1>3

LEMMA UptoLen ==
  ASSUME NEW m, NEW n \in Nat
  PROVE  Len(Upto(m, n)) = n
BY DEF Upto

LEMMA InitIInv == Init => IInv
<1> SUFFICES ASSUME Init PROVE IInv
  OBVIOUS
<1> USE DEF Init
<1>1. Buffered  BY DEF Buffered, Pending
<1>2. \A u \in Upload : ~Live(u)  BY DEF Live
<1>3. Distinct /\ Unlisted  BY <1>2 DEF Distinct, Unlisted, Wants
<1>4. Jobs  BY <1>2 DEF Jobs
<1>5. Len(pipe) = 0 /\ pipe \in Seq(Upload)  OBVIOUS
<1>6. \A s \in Ring : task[s].soketfd = 0 /\ task[s].file = 0
  BY DEF FreeTask
<1>7. Piped /\ Held  BY <1>5, <1>6 DEF Piped, Held, FreeTask
<1>8. Slots  BY <1>6 DEF Slots, Opened, Stale
<1>9. Files  BY DEF Files
<1>10. Rows /\ RowHasContent  BY DEF Rows, RowHasContent
<1> QED BY <1>1, <1>3, <1>4, <1>7, <1>8, <1>9, <1>10 DEF IInv

-----------------------------------------------------------------------------
(* Steps that leave some of the state alone.                               *)
LEMMA SameBuffers ==
  ASSUME Buffered, UNCHANGED <<uppath, asked, agreed>>
  PROVE  Buffered'
BY DEF Buffered, Pending

LEMMA SameHands ==
  ASSUME Distinct, UNCHANGED <<uppath, asked, agreed, job, limit, over>>
  PROVE  Distinct'
BY DEF Distinct, Wants, Live

LEMMA SameUnlisted ==
  ASSUME Unlisted, UNCHANGED <<uppath, agreed, rows, job, limit, over>>
  PROVE  Unlisted'
BY DEF Unlisted, Live, Known

LEMMA SameThread ==
  ASSUME Jobs, Piped, Held, Slots, Files,
         UNCHANGED <<netVars, pipe, task, over, diskVars>>
  PROVE  Jobs' /\ Piped' /\ Held' /\ Slots' /\ Files'
<1> USE DEF netVars, diskVars, Live, InSlot, InPipe, Lost
<1>1. Jobs'  BY DEF Jobs
<1>2. Piped' /\ Held'  BY DEF Piped, Held
<1>3. Slots'  BY DEF Slots, Opened, Current, Stale
<1>4. Files'  BY DEF Files
<1> QED BY <1>1, <1>2, <1>3, <1>4

LEMMA SameRows ==
  ASSUME Rows, RowHasContent, UNCHANGED <<rows, diskVars>>
  PROVE  Rows' /\ RowHasContent'
BY DEF Rows, RowHasContent, diskVars

-----------------------------------------------------------------------------
LEMMA MkdirStep ==
  ASSUME IInv, NEW t \in Terminal, NEW name, Mkdir(t, name)
  PROVE  IInv'
<1> USE DEF IInv, Mkdir, Command
<1>1. Buffered' /\ Distinct' /\ Jobs' /\ Piped' /\ Held' /\ Slots' /\ Files'
  BY SameBuffers, SameHands, SameThread DEF netVars, threadVars
<1> DEFINE new == [code |-> next_code, procode |-> cwd[t], filename |-> name,
                   filetype |-> "d", md5sum |-> {}]
<1>2. rows' = rows \cup {new} /\ new.filetype = "d"
  BY DEF Insert
<1> HIDE DEF new
<1>3. \A m : Known(m)' = Known(m)
  BY <1>2 DEF Known
<1>4. Unlisted'
  BY <1>3 DEF Unlisted, Live, netVars, threadVars
<1>5. Rows' /\ RowHasContent'
  BY <1>2 DEF Rows, RowHasContent, diskVars
<1> QED BY <1>1, <1>4, <1>5

LEMMA RmStep ==
  ASSUME IInv, NEW t \in Terminal, NEW name, Rm(t, name)
  PROVE  IInv'
<1> USE DEF IInv, Rm, Command
<1>1. Buffered' /\ Distinct' /\ Jobs' /\ Piped' /\ Held' /\ Slots' /\ Files'
  BY SameBuffers, SameHands, SameThread DEF netVars, threadVars
<1>2. rows' \subseteq rows
  OBVIOUS
<1>3. \A m : Known(m)' \subseteq Known(m)
  BY <1>2 DEF Known
<1>4. Unlisted'
  BY <1>3 DEF Unlisted, Live, netVars, threadVars
<1>5. Rows' /\ RowHasContent'
  BY <1>2 DEF Rows, RowHasContent, diskVars
<1> QED BY <1>1, <1>4, <1>5

LEMMA PutsStep ==
  ASSUME Careful, IInv, NEW t \in Terminal, NEW name, NEW m \in MD5, Puts(t, name, m)
  PROVE  IInv'
<1> USE DEF IInv, Puts
<1>1. Jobs' /\ Piped' /\ Held' /\ Slots' /\ Files' /\ Rows' /\ RowHasContent'
  BY SameThread, SameRows DEF threadVars
<1>2. asked[t] = <<>> /\ agreed[t] = <<>>
  <2>1. Len(asked[t]) + Len(agreed[t]) < 1
    BY DEF Careful
  <2>2. /\ asked[t] # <<>> => Len(asked[t]) = 1
        /\ agreed[t] # <<>> => Len(agreed[t]) = 1
    BY Single DEF Buffered, Pending
  <2>3. Len(<<>>) = 0
    OBVIOUS
  <2> QED BY <2>1, <2>2, <2>3 DEF Buffered
<1>3. ~InFlight(m)
  BY DEF Careful
<1>4. /\ \A s \in Terminal : Wants(s) => uppath[s] # m
      /\ \A u \in Upload : Live(u) => job[u].md5sum # m
  BY <1>3, NotInFlight
<1> DEFINE p == [filename |-> name, md5sum |-> m]
<1>5. asked' = [asked EXCEPT ![t] = <<p>>] /\ p.md5sum = m
  BY <1>2, Single
<1> HIDE DEF p
<1>6. Buffered'
  <2>1. /\ uppath' = [s \in Terminal |-> uppath'[s]]
        /\ asked' = [s \in Terminal |-> asked'[s]]
        /\ agreed' = [s \in Terminal |-> agreed'[s]]
    BY <1>5 DEF Buffered
  <2>2. asked'[t] = <<p>> /\ agreed'[t] = <<>> /\ uppath'[t] = m
    BY <1>2, <1>5 DEF Buffered
  <2>3. Pending(asked[t], t)' /\ Pending(agreed[t], t)'
    BY <1>5, <2>2, Single DEF Pending
  <2>4. ASSUME NEW s \in Terminal \ {t}
        PROVE  asked'[s] = asked[s] /\ agreed'[s] = agreed[s]
               /\ uppath'[s] = uppath[s]
    BY <1>5 DEF Buffered
  <2> QED BY <2>1, <2>2, <2>3, <2>4 DEF Buffered, Pending
<1>7. \A u \in Upload : Live(u)' = Live(u) /\ job'[u] = job[u]
  BY DEF Live, netVars, threadVars
<1>8. \A s \in Terminal : s # t => Wants(s)' = Wants(s) /\ uppath'[s] = uppath[s]
  BY <1>5 DEF Wants, Buffered
<1>9. uppath'[t] = m
  BY DEF Buffered
<1>10. Distinct'
  BY <1>4, <1>7, <1>8, <1>9 DEF Distinct
<1>11. Unlisted'
  BY <1>2, <1>7, <1>8 DEF Unlisted, Known, Wants
<1> QED BY <1>1, <1>6, <1>10, <1>11

LEMMA MathUploadStep ==
  ASSUME IInv, NEW t \in Terminal, MathUpload(t)
  PROVE  IInv'
<1> USE DEF IInv
<1> DEFINE p == Head(asked[t])
           m == uppath[t]
           pok == [code |-> cwd[t], name |-> p.filename, md5sum |-> p.md5sum]
<1>1. Jobs' /\ Piped' /\ Held' /\ Slots' /\ Files'
  BY SameThread DEF MathUpload, threadVars
<1>2. /\ asked[t] = <<p>> /\ p.md5sum = m /\ m \in MD5 /\ agreed[t] = <<>>
  BY DEF Buffered, Pending, MathUpload
<1>3. asked' = [asked EXCEPT ![t] = <<>>] /\ uppath' = uppath
  BY <1>2, Single DEF MathUpload
<1>4. Wants(t)
  BY <1>2, Single DEF Wants
<1>5. \A u \in Upload : Live(u)' = Live(u) /\ job'[u] = job[u]
  BY DEF Live, netVars, threadVars, MathUpload
<1>6. CASE UNCHANGED <<rows, agreed>>
  <2>1. Buffered'
    BY <1>2, <1>3, <1>6 DEF Buffered, Pending
  <2>2. \A s \in Terminal : Wants(s)' => Wants(s)
    BY <1>3, <1>6 DEF Wants, Buffered
  <2>3. Distinct'
    BY <1>3, <1>5, <2>2 DEF Distinct
  <2>4. Unlisted'
    BY <1>3, <1>5, <1>6 DEF Unlisted, Known
  <2> QED BY <1>1, <1>6, <2>1, <2>3, <2>4, SameRows DEF MathUpload
<1>7. ASSUME Known(m) # {}, Insert(cwd[t], p.filename, "f", m), UNCHANGED agreed
      PROVE  IInv'
  <2> DEFINE new == [code |-> next_code, procode |-> cwd[t],
                     filename |-> p.filename, filetype |-> "f", md5sum |-> m]
  <2>1. rows' = rows \cup {new} /\ new.filetype = "f" /\ new.md5sum = m
    BY <1>7 DEF Insert
  <2> HIDE DEF new
  <2>2. Buffered'
    BY <1>2, <1>3, <1>7 DEF Buffered, Pending
  <2>3. \A s \in Terminal : Wants(s)' => Wants(s)
    BY <1>3, <1>7 DEF Wants, Buffered
  <2>4. Distinct'
    BY <1>3, <1>5, <2>3 DEF Distinct
  <2>5. \A k : k # m => Known(k)' = Known(k)
    BY <2>1 DEF Known
  <2>6. \A s \in Terminal : agreed'[s] # <<>> => uppath[s] # m
    BY <1>2, <1>4, <1>7 DEF Distinct, Wants
  <2>7. Unlisted'
    BY <1>3, <1>4, <1>5, <1>7, <2>5, <2>6 DEF Unlisted, Distinct
  <2>8. Rows' /\ RowHasContent'
    BY <1>2, <1>7, <2>1 DEF Rows, RowHasContent, Known, MathUpload, diskVars
  <2> QED BY <1>1, <2>2, <2>4, <2>7, <2>8
<1>8. ASSUME Known(m) = {}, agreed' = [agreed EXCEPT ![t] = Append(@, pok)],
             UNCHANGED rows
      PROVE  IInv'
  <2>1. agreed' = [agreed EXCEPT ![t] = <<pok>>] /\ pok.md5sum = m
    BY <1>2, <1>8, Single
  <2> HIDE DEF pok
  <2>2. Buffered'
    BY <1>2, <1>3, <2>1, Single DEF Buffered, Pending
  <2>3. \A s \in Terminal : Wants(s)' => Wants(s)
    BY <1>3, <1>4, <2>1 DEF Wants, Buffered
  <2>4. Distinct'
    BY <1>3, <1>5, <2>3 DEF Distinct
  <2>5. Unlisted'
    BY <1>3, <1>5, <1>8, <2>1 DEF Unlisted, Known, Buffered
  <2> QED BY <1>1, <1>8, <2>2, <2>4, <2>5, SameRows DEF MathUpload
<1> QED BY <1>2, <1>6, <1>7, <1>8 DEF MathUpload

LEMMA CdStep ==
  ASSUME IInv, NEW t \in Terminal, Cd(t)
  PROVE  IInv'
BY SameBuffers, SameHands, SameUnlisted, SameThread, SameRows
   DEF IInv, Cd, Command, netVars, threadVars

LEMMA StartUploadStep ==
  ASSUME IInv, NEW t \in Terminal, StartUpload(t)
  PROVE  IInv'
<1> USE DEF IInv
<1> DEFINE p == Head(agreed[t])
           m == uppath[t]
           j == [code |-> p.code, name |-> p.name, md5sum |-> p.md5sum, data |-> m]
<1>1. PICK u \in Upload :
        /\ limit[u] = -1
        /\ job' = [job EXCEPT ![u] = j] /\ limit' = [limit EXCEPT ![u] = Blocks + 2]
        /\ pipe' = Append(pipe, u)
  BY LeastFresh DEF StartUpload
<1>2. /\ job' = [job EXCEPT ![u] = j] /\ limit' = [limit EXCEPT ![u] = Blocks + 2]
      /\ pipe' = Append(pipe, u) /\ agreed' = [agreed EXCEPT ![t] = Tail(@)]
      /\ UNCHANGED <<rows, uppath, asked, got, task, over, diskVars>>
      /\ agreed[t] # <<>>
  BY <1>1 DEF StartUpload
<1>3. agreed[t] = <<p>> /\ p.md5sum = m /\ m \in MD5 /\ asked[t] = <<>> /\ Wants(t)
  BY <1>2 DEF Buffered, Pending, Wants
<1>4. agreed' = [agreed EXCEPT ![t] = <<>>]
  BY <1>2, <1>3, Single
<1>5. j.md5sum = m /\ j.data = m
  BY <1>3
<1> HIDE DEF p, j
<1>6. ~Live(u) /\ got[u] = 0 /\ u \notin over
  <2>1. got[u] = 0 /\ u \notin over
    BY <1>1 DEF Jobs
  <2>2. ~(limit[u] >= 0)
    BY <1>1
  <2> QED BY <2>1, <2>2 DEF Live
<1>7. Live(u)' /\ job'[u] = j
  <2>1. limit'[u] = Blocks + 2 /\ job'[u] = j
    BY <1>1, <1>2 DEF Jobs
  <2>2. limit'[u] >= 0
    BY <2>1, CatalogAssumption
  <2> QED BY <1>2, <1>6, <2>1, <2>2 DEF Live
<1>8. \A v \in Upload : v # u => Live(v)' = Live(v) /\ job'[v] = job[v]
  BY <1>2 DEF Live, Jobs
<1>9. Buffered'
  BY <1>2, <1>3, <1>4 DEF Buffered, Pending
<1>10. \A s \in Terminal : Wants(s)' => Wants(s) /\ s # t
  BY <1>2, <1>3, <1>4 DEF Wants, Buffered
<1>11. Distinct'
  BY <1>2, <1>3, <1>5, <1>7, <1>8, <1>10 DEF Distinct
<1>12. Unlisted'
  BY <1>2, <1>3, <1>4, <1>5, <1>7, <1>8 DEF Unlisted, Known, Buffered
<1>13. Jobs'
  <2>1. /\ job' = [v \in Upload |-> job'[v]] /\ got' = got /\ over' = over
        /\ limit' \in [Upload -> Int]
        /\ limit' = [v \in Upload |-> IF v = u THEN Blocks + 2 ELSE limit[v]]
    <3>1. Blocks + 2 \in Int
      BY CatalogAssumption
    <3>2. job' = [v \in Upload |-> job'[v]]
      BY <1>2 DEF Jobs
    <3>3. limit' = [v \in Upload |-> IF v = u THEN Blocks + 2 ELSE limit[v]]
      BY <1>2 DEF Jobs
    <3> QED BY <1>2, <3>1, <3>2, <3>3 DEF Jobs
  <2>2. ASSUME NEW v \in Upload \ {u}
        PROVE  limit'[v] = limit[v] /\ Live(v)' = Live(v) /\ job'[v] = job[v]
    BY <1>8, <2>1
  <2>3. limit'[u] >= 0 /\ limit'[u] # -1
    BY <1>1, <2>1, CatalogAssumption
  <2>4. job'[u].md5sum \in MD5 /\ job'[u].data = job'[u].md5sum
        /\ got[u] <= Blocks + 1
    BY <1>3, <1>5, <1>6, <1>7, CatalogAssumption
  <2> QED BY <2>1, <2>2, <2>3, <2>4 DEF Jobs
<1>14. ~InPipe(u) /\ ~InSlot(u)
  <2>1. ~InPipe(u)
    BY <1>6 DEF Piped, InPipe
  <2>2. u # 0
    BY <1>1, CatalogAssumption
  <2>3. ~InSlot(u)
    BY <1>6, <2>2 DEF Held, InSlot
  <2> QED BY <2>1, <2>3
<1>15. /\ pipe' \in Seq(Upload) /\ Len(pipe') = Len(pipe) + 1
       /\ \A i \in 1..Len(pipe) : pipe'[i] = pipe[i]
       /\ pipe'[Len(pipe) + 1] = u
       /\ Len(pipe) \in Nat
  BY <1>1, <1>2 DEF Piped
<1>16. Piped'
  <2>1. \A i \in 1..Len(pipe) : pipe'[i] # u
    BY <1>14, <1>15 DEF InPipe
  <2>2. \A i \in 1..Len(pipe') : i \in 1..Len(pipe) \/ i = Len(pipe) + 1
    BY <1>15
  <2>3. \A v \in Upload : InSlot(v)' = InSlot(v) /\ got'[v] = got[v]
    BY <1>2 DEF InSlot
  <2>4. ASSUME NEW i \in 1..Len(pipe')
        PROVE  /\ (Live(pipe[i]) /\ got[pipe[i]] = 0 /\ ~InSlot(pipe[i]))'
               /\ \A k \in 1..Len(pipe') : pipe'[i] = pipe'[k] => i = k
    <3>1. CASE i \in 1..Len(pipe)
      <4>1. /\ pipe'[i] = pipe[i] /\ pipe[i] # u /\ pipe[i] \in Upload
            /\ Live(pipe[i]) /\ got[pipe[i]] = 0 /\ ~InSlot(pipe[i])
            /\ \A k \in 1..Len(pipe) : pipe[i] = pipe[k] => i = k
        BY <1>15, <2>1, <3>1 DEF Piped
      <4>2. (Live(pipe[i]) /\ got[pipe[i]] = 0 /\ ~InSlot(pipe[i]))'
        BY <1>8, <2>3, <4>1 DEF Live, InSlot
      <4>3. ASSUME NEW k \in 1..Len(pipe'), pipe'[i] = pipe'[k]
            PROVE  i = k
        BY <1>15, <2>2, <4>1, <4>3
      <4> QED BY <4>2, <4>3
    <3>2. CASE i = Len(pipe) + 1
      <4>1. pipe'[i] = u
        BY <1>15, <3>2
      <4>2. \A k \in 1..Len(pipe') : pipe'[i] = pipe'[k] => i = k
        BY <2>1, <2>2, <3>2, <4>1
      <4>3. (Live(pipe[i]) /\ got[pipe[i]] = 0 /\ ~InSlot(pipe[i]))'
        <5>1. ~InSlot(u)' /\ got'[u] = 0 /\ Live(u)'
          BY <1>1, <1>6, <1>7, <1>14, <2>3
        <5> QED BY <4>1, <5>1 DEF Live, InSlot
      <4> QED BY <4>2, <4>3
    <3> QED BY <2>2, <3>1, <3>2
  <2> QED BY <1>15, <2>4 DEF Piped
<1>17. Held'
  <2>1. \A s \in Ring : task[s].soketfd # 0 =>
           task[s].soketfd # u /\ task[s].soketfd \in Upload /\ Live(task[s].soketfd)
    BY <1>14 DEF Held, InSlot
  <2>2. \A s \in Ring : task[s].soketfd # 0 => Live(task[s].soketfd)'
    BY <1>2, <1>8, <2>1 DEF Live
  <2> QED BY <1>2, <2>2 DEF Held, Live
<1>18. \A v \in Upload : Lost(v) => Lost(v)' /\ v # u
  <2> TAKE v \in Upload
  <2> HAVE Lost(v)
  <2>1. v # u /\ Live(v)'
    BY <1>6, <1>8 DEF Lost
  <2>2. ~InSlot(v)'
    BY <1>2 DEF Lost, InSlot
  <2>3. ~InPipe(v)'
    BY <1>15, <2>1 DEF Lost, InPipe
  <2> QED BY <2>1, <2>2, <2>3 DEF Lost
<1>19. Slots'
  <2> SUFFICES ASSUME NEW s \in Ring
               PROVE  (IF Opened(s) THEN Current(s) ELSE Stale(s))'
    BY DEF Slots
  <2>0. Opened(s)' = Opened(s)
    BY <1>2 DEF Opened
  <2>1. CASE Opened(s)
    <3>1. task[s].soketfd # u /\ task[s].soketfd \in Upload
      BY <1>14, <2>1 DEF Opened, Held, InSlot
    <3>2. job'[task[s].soketfd] = job[task[s].soketfd]
      BY <1>8, <3>1
    <3> QED BY <1>2, <2>0, <2>1, <3>2 DEF Slots, Current, diskVars
  <2>2. CASE ~Opened(s)
    <3>1. Stale(s)
      BY <2>2 DEF Slots
    <3>2. Stale(s)'
      BY <1>2, <1>8, <1>18, <3>1 DEF Stale
    <3> QED BY <2>0, <2>2, <3>2
  <2> QED BY <2>1, <2>2
<1>20. Files'
  BY <1>2 DEF Files, diskVars
<1> QED BY <1>2, <1>9, <1>11, <1>12, <1>13, <1>16, <1>17, <1>19, <1>20, SameRows

LEMMA DropStep ==
  ASSUME IInv, NEW u \in Upload, Drop(u)
  PROVE  IInv'
<1> USE DEF IInv
<1>1. PICK n \in got[u]..(Blocks + 1) : limit' = [limit EXCEPT ![u] = n]
  BY DEF Drop
<1>2. UNCHANGED <<rows, uppath, asked, agreed, job, got, over, pipe, task, diskVars>>
  BY DEF Drop, clientVars, threadVars
<1>3. n \in Int /\ n >= 0
  BY <1>1, CatalogAssumption DEF Jobs
<1>4. limit'[u] = n /\ \A v \in Upload : v # u => limit'[v] = limit[v]
  BY <1>1 DEF Jobs
<1>5. \A v \in Upload : Live(v)' = Live(v)
  BY <1>2, <1>3, <1>4 DEF Live, Drop
<1>6. Buffered'
  BY <1>2, SameBuffers
<1>7. Distinct'
  BY <1>2, <1>5 DEF Distinct, Wants
<1>8. Unlisted'
  BY <1>2, <1>5 DEF Unlisted, Known
<1>9. limit' \in [Upload -> Int]
  BY <1>1, <1>3 DEF Jobs
<1>10. Jobs'
  BY <1>2, <1>3, <1>4, <1>5, <1>9 DEF Jobs
<1>11. \A v \in Upload : InSlot(v)' = InSlot(v) /\ Lost(v)' = Lost(v)
  BY <1>2, <1>5 DEF Lost, InSlot, InPipe
<1>12. Piped'
  BY <1>2, <1>5, <1>11 DEF Piped
<1>13. Held'
  BY <1>2, <1>5 DEF Held
<1>14. Slots'
  BY <1>2, <1>11 DEF Slots, Opened, Current, Stale, diskVars
<1>15. Files'
  BY <1>2 DEF Files, diskVars
<1> QED BY <1>2, <1>6, <1>7, <1>8, <1>10, <1>12, <1>13, <1>14, <1>15, SameRows

(* Whoever had the slot loses it. *)
LEMMA TakeUploadStep ==
  ASSUME IInv, TakeUpload
  PROVE  IInv'
<1> USE DEF IInv
<1>1. UNCHANGED <<rows, uppath, asked, agreed, job, got, limit, over, diskVars>>
  BY DEF TakeUpload, clientVars, netVars
<1>2. Buffered' /\ Distinct' /\ Unlisted' /\ Rows' /\ RowHasContent'
  BY <1>1, SameBuffers, SameHands, SameUnlisted, SameRows
<1>3. Jobs' /\ Files'
  BY <1>1 DEF Jobs, Files, Live, diskVars
<1>4. PICK u \in Upload : u = Head(pipe)
  BY DEF TakeUpload, Piped
<1>5. /\ pipe' \in Seq(Upload) /\ Len(pipe') = Len(pipe) - 1 /\ Len(pipe) > 0
      /\ Len(pipe) \in Nat
      /\ \A i \in 1..Len(pipe') : pipe'[i] = pipe[i + 1]
      /\ pipe[1] = u
  BY <1>4 DEF TakeUpload, Piped
<1>6. Live(u) /\ got[u] = 0 /\ ~InSlot(u) /\ u # 0
  BY <1>5, CatalogAssumption DEF Piped
<1>7. \A i \in 1..Len(pipe') : pipe'[i] # u
  <2> TAKE i \in 1..Len(pipe')
  <2>1. 1 \in 1..Len(pipe) /\ i + 1 \in 1..Len(pipe) /\ 1 # i + 1
    BY <1>5
  <2> QED BY <1>5, <2>1 DEF Piped
<1>8. \A v : Live(v)' = Live(v)
  BY <1>1 DEF Live
<1>9. \A v \in Upload : v # u => (InPipe(v)' => InPipe(v))
  <2> SUFFICES ASSUME NEW v \in Upload, NEW i \in 1..Len(pipe'), pipe'[i] = v
               PROVE  InPipe(v)
    BY DEF InPipe
  <2>1. i + 1 \in 1..Len(pipe) /\ pipe[i + 1] = v
    BY <1>5
  <2> QED BY <2>1 DEF InPipe
<1>10. ~InPipe(u)'
  BY <1>7 DEF InPipe
<1>11. /\ \A s \in Ring : s # rear => task'[s] = task[s]
       /\ \A s \in Ring : s = rear =>
            task'[s] = [soketfd |-> u, file |-> task[s].file, pos |-> task[s].pos,
                        job |-> task[s].job]
       /\ DOMAIN task' = Ring /\ task' = [s \in Ring |-> task'[s]]
  <2>1. task' = [task EXCEPT ![rear] = [task[rear] EXCEPT !.soketfd = u]]
    BY <1>4 DEF TakeUpload
  <2>2. \A s \in Ring : [task[s] EXCEPT !.soketfd = u] =
          [soketfd |-> u, file |-> task[s].file, pos |-> task[s].pos,
           job |-> task[s].job]
    BY DEF Held
  <2>3. task' = [s \in Ring |-> IF s = rear THEN [task[rear] EXCEPT !.soketfd = u]
                                            ELSE task[s]]
    BY <2>1 DEF Held
  <2> HIDE DEF IInv
  <2> QED BY <2>2, <2>3
<1>12. \A v \in Upload : InSlot(v)' => InSlot(v) \/ v = u
  BY <1>11 DEF InSlot
<1>13. \A v \in Upload : Lost(v) => Lost(v)'
  <2> SUFFICES ASSUME NEW v \in Upload, Lost(v)  PROVE Lost(v)'
    OBVIOUS
  <2>1. v # u
    BY <1>5 DEF Lost, InPipe
  <2> QED BY <1>8, <1>9, <1>12, <2>1 DEF Lost
<1>14. \A s \in Ring, v \in Upload :
         s = rear /\ task[s].soketfd = v => Lost(v)'
  <2> SUFFICES ASSUME rear \in Ring, NEW v \in Upload, task[rear].soketfd = v
               PROVE  Lost(v)'
    OBVIOUS
  <2>1. Live(v) /\ InSlot(v) /\ v # u
    BY <1>6, CatalogAssumption DEF Held, InSlot
  <2>2. ~InPipe(v)
    BY <2>1 DEF Piped, InPipe
  <2>3. ~InSlot(v)'
    BY <1>11, <2>1, CatalogAssumption DEF InSlot, Held
  <2> QED BY <1>8, <1>9, <2>1, <2>2, <2>3 DEF Lost
<1>15. Piped'
  <2>1. ASSUME NEW i \in 1..Len(pipe')
        PROVE  /\ (Live(pipe[i]) /\ got[pipe[i]] = 0 /\ ~InSlot(pipe[i]))'
               /\ \A k \in 1..Len(pipe') : pipe'[i] = pipe'[k] => i = k
    <3>1. PICK v \in Upload : v = pipe'[i]
      BY <1>5
    <3>2. i + 1 \in 1..Len(pipe) /\ pipe[i + 1] = v /\ v # u
      BY <1>5, <1>7, <3>1
    <3>3. Live(v) /\ got[v] = 0 /\ ~InSlot(v)
      BY <3>2 DEF Piped
    <3>4. ~InSlot(v)' /\ Live(v)' /\ got'[v] = 0
      BY <1>1, <1>8, <1>12, <3>2, <3>3
    <3>5. (Live(pipe[i]) /\ got[pipe[i]] = 0 /\ ~InSlot(pipe[i]))'
      BY <3>1, <3>4 DEF Live, InSlot
    <3>6. ASSUME NEW k \in 1..Len(pipe'), pipe'[i] = pipe'[k]
          PROVE  i = k
      <4>1. k + 1 \in 1..Len(pipe) /\ pipe[k + 1] = v
        BY <1>5, <3>1, <3>6
      <4>2. i + 1 = k + 1
        BY <3>2, <4>1 DEF Piped
      <4> QED BY <1>5, <4>2
    <3> QED BY <3>5, <3>6
  <2> QED BY <1>5, <2>1 DEF Piped
<1>16. Held'
  <2>1. \A s \in Ring : task'[s] = [soketfd |-> task'[s].soketfd,
                         file |-> task'[s].file, pos |-> task'[s].pos,
                         job |-> task'[s].job]
    BY <1>11 DEF Held
  <2>2. \A s \in Ring : task'[s].soketfd =
                          IF s = rear THEN u ELSE task[s].soketfd
    BY <1>11
  <2>3. \A s \in Ring : task[s].soketfd # u
    BY <1>6 DEF InSlot
  <2>4. ASSUME NEW s \in Ring, task'[s].soketfd # 0
        PROVE  /\ task'[s].soketfd \in Upload /\ (Live(task[s].soketfd))'
               /\ \A r \in Ring : task'[r].soketfd = task'[s].soketfd => r = s
    <3>1. CASE s = rear
      BY <1>1, <1>6, <2>2, <2>3, <3>1 DEF Live
    <3>2. CASE s # rear
      BY <1>1, <2>2, <2>3, <2>4, <3>2 DEF Live, Held
    <3> QED BY <3>1, <3>2
  <2> QED BY <1>11, <2>1, <2>4 DEF Held
<1>17. Slots'
  <2> SUFFICES ASSUME NEW s \in Ring
               PROVE  (IF Opened(s) THEN Current(s) ELSE Stale(s))'
    BY DEF Slots
  <2>1. CASE s # rear
    <3>1. Opened(s)' = Opened(s) /\ (Current(s) => Current(s)')
      BY <1>1, <1>11, <2>1 DEF Opened, Current, diskVars
    <3>2. Stale(s) => Stale(s)'
      BY <1>1, <1>11, <1>13, <2>1 DEF Stale
    <3> QED BY <3>1, <3>2 DEF Slots
  <2>2. CASE s = rear
    <3>1. ~Opened(s)'
      BY <1>1, <1>6, <1>11, <2>2 DEF Opened
    <3>2. CASE Opened(s)
      <4>1. PICK v \in Upload : v = task[s].soketfd /\ Lost(v)'
        BY <1>14, <2>2, <3>2 DEF Opened, Held
      <4>2. task[s].job = job[v]
        BY <3>2, <4>1 DEF Slots, Current
      <4> QED BY <1>1, <1>11, <2>2, <3>1, <4>1, <4>2 DEF Stale
    <3>3. CASE ~Opened(s)
      BY <1>1, <1>11, <1>13, <2>2, <3>1, <3>3 DEF Slots, Stale
    <3> QED BY <3>2, <3>3
  <2> QED BY <2>1, <2>2
<1> QED BY <1>2, <1>3, <1>15, <1>16, <1>17

-----------------------------------------------------------------------------
(* An upload that is served is alive, and its content is not listed.       *)
LEMMA ServedUpload ==
  ASSUME IInv, NEW s \in Ring, NEW u \in Upload, Serves(s, u)
  PROVE  /\ u # 0 /\ Live(u) /\ job[u].md5sum \in MD5
         /\ Known(job[u].md5sum) = {} /\ got[u] \in Nat /\ limit[u] \in Int
         /\ \A r \in Ring : task[r].soketfd = u => r = s
         /\ \A v \in Upload : Live(v) /\ v # u => job[v].md5sum # job[u].md5sum
         /\ InSlot(u) /\ ~InPipe(u)
<1> USE DEF IInv, Serves
<1>1. u # 0 /\ Live(u) /\ \A r \in Ring : task[r].soketfd = u => r = s
  BY DEF Held
<1>2. InSlot(u)
  BY DEF InSlot
<1>3. ~InPipe(u)
  BY <1>2 DEF InPipe, Piped
<1> QED BY <1>1, <1>2, <1>3 DEF Unlisted, Jobs, Distinct

(* A message is read by an upload that keeps its place.                    *)
LEMMA KeepsPlace ==
  ASSUME IInv, NEW s \in Ring, NEW u \in Upload, Serves(s, u), got[u] <= Blocks,
         got' = [got EXCEPT ![u] = @ + 1],
         task' = [task EXCEPT ![s] = task'[s]],
         task'[s] = [soketfd |-> u, file |-> task'[s].file,
                     pos |-> task'[s].pos, job |-> task'[s].job],
         UNCHANGED <<uppath, asked, agreed, job, limit, over, pipe, rows>>
  PROVE  /\ Buffered' /\ Distinct' /\ Unlisted' /\ Jobs' /\ Piped' /\ Held'
         /\ got'[u] = got[u] + 1
         /\ \A v \in Upload : v # u => got'[v] = got[v]
         /\ \A r \in Ring : r # s => task'[r] = task[r]
         /\ \A v \in Upload : Lost(v)' = Lost(v)
<1>1. Buffered' /\ Distinct' /\ Unlisted'
  BY SameBuffers, SameHands, SameUnlisted DEF IInv
<1>2. /\ got[u] \in Nat /\ got'[u] = got[u] + 1 /\ got' \in [Upload -> Nat]
      /\ \A v \in Upload : v # u => got'[v] = got[v]
  BY DEF IInv, Jobs
<1>3. \A v : Live(v)' = Live(v)
  BY DEF Live
<1>4. Live(u) /\ u # 0 /\ ~InPipe(u) /\ limit[u] # -1
  BY ServedUpload DEF Live
<1>5. Jobs'
  BY <1>2, <1>3, <1>4, CatalogAssumption DEF IInv, Jobs
<1>6. /\ \A r \in Ring : r # s => task'[r] = task[r]
      /\ \A r \in Ring : task'[r].soketfd = task[r].soketfd
      /\ task' = [r \in Ring |-> task'[r]]
  BY DEF IInv, Held, Serves
<1>7. \A v : InSlot(v)' = InSlot(v)
  BY <1>6 DEF InSlot
<1>8. \A v \in Upload : Lost(v)' = Lost(v)
  BY <1>3, <1>7 DEF Lost, InPipe
<1>9. \A i \in 1..Len(pipe) : pipe[i] # u /\ pipe[i] \in Upload
  BY <1>4 DEF InPipe, IInv, Piped
<1>10. Piped'
  BY <1>2, <1>3, <1>7, <1>9 DEF IInv, Piped
<1>11. Held'
  <2>1. \A r \in Ring : task'[r] = [soketfd |-> task'[r].soketfd,
                file |-> task'[r].file, pos |-> task'[r].pos, job |-> task'[r].job]
    BY <1>6 DEF IInv, Held
  <2> QED BY <1>3, <1>6, <2>1 DEF IInv, Held, Live
<1> QED BY <1>1, <1>2, <1>5, <1>6, <1>8, <1>10, <1>11

LEMMA AddUptaskStep ==
  ASSUME IInv, NEW s \in Ring, NEW u \in Upload, AddUptask(s, u)
  PROVE  IInv'
<1> DEFINE m == job[u].md5sum
           d == IF disk[m] = 0 THEN u ELSE disk[m]
<1>1. /\ Serves(s, u) /\ got[u] = 0 /\ got' = [got EXCEPT ![u] = @ + 1]
      /\ UNCHANGED <<uppath, asked, agreed, job, limit, over, pipe, rows, content>>
      /\ disk' = [disk EXCEPT ![m] = d]
      /\ task' = [task EXCEPT ![s] = [soketfd |-> u, file |-> disk'[m],
                                      pos |-> 0, job |-> job[u]]]
  BY DEF AddUptask, Arrived, clientVars
<1>2. u # 0 /\ Live(u) /\ m \in MD5 /\ Known(m) = {}
      /\ \A v \in Upload : Live(v) /\ v # u => job[v].md5sum # m
  BY <1>1, ServedUpload
<1>3. disk'[m] = d /\ d # 0 /\ d \in Upload
      /\ \A k \in MD5 : k # m => disk'[k] = disk[k]
  BY <1>1, <1>2 DEF IInv, Files
<1>4. task'[s] = [soketfd |-> u, file |-> d, pos |-> 0, job |-> job[u]]
  BY <1>1, <1>3 DEF IInv, Held
<1>5. /\ Buffered' /\ Distinct' /\ Unlisted' /\ Jobs' /\ Piped' /\ Held'
      /\ got'[u] = 1
      /\ \A v \in Upload : v # u => got'[v] = got[v]
      /\ \A r \in Ring : r # s => task'[r] = task[r]
      /\ \A v \in Upload : Lost(v)' = Lost(v)
  <2>1. task' = [task EXCEPT ![s] = task'[s]]
    BY <1>1, <1>3, <1>4
  <2>2. task'[s] = [soketfd |-> u, file |-> task'[s].file,
                    pos |-> task'[s].pos, job |-> task'[s].job]
    BY <1>4
  <2>3. got[u] <= Blocks
    BY <1>1, CatalogAssumption
  <2>4. UNCHANGED <<uppath, asked, agreed, job, limit, over, pipe, rows>>
    BY <1>1
  <2>5. /\ Buffered' /\ Distinct' /\ Unlisted' /\ Jobs' /\ Piped' /\ Held'
        /\ got'[u] = got[u] + 1
        /\ \A v \in Upload : v # u => got'[v] = got[v]
        /\ \A r \in Ring : r # s => task'[r] = task[r]
        /\ \A v \in Upload : Lost(v)' = Lost(v)
    BY <1>1, <2>1, <2>2, <2>3, <2>4, KeepsPlace
  <2> QED BY <1>1, <2>5
<1>6. \E n \in 0..Blocks : content[d] = Upto(m, n)
  <2>1. CASE disk[m] = 0
    <3>1. content[d] = <<>>
      BY <1>1, <2>1 DEF IInv, Files
    <3>2. Upto(m, 0) = <<>>
      BY DEF Upto
    <3> QED BY <3>1, <3>2, CatalogAssumption
  <2>2. CASE disk[m] # 0
    BY <1>2, <2>2 DEF IInv, Files
  <2> QED BY <2>1, <2>2
<1>7. Files'
  <2>1. disk' \in [MD5 -> Upload \cup {0}]
    BY <1>1, <1>3 DEF IInv, Files
  <2>2. \A k \in MD5 : disk[k] # 0 => disk[k] \in Upload /\ disk[k] # u
    BY <1>1 DEF IInv, Files
  <2>3. \A k \in MD5 : disk'[k] # 0 => got'[disk'[k]] > 0
    BY <1>2, <1>3, <1>5, <2>2 DEF IInv, Files
  <2>4. \A k \in MD5 : disk'[k] # 0 =>
          \E n \in 0..Blocks : content[disk'[k]] = Upto(k, n)
    BY <1>3, <1>6 DEF IInv, Files
  <2>5. \A k, l \in MD5 : disk'[k] # 0 /\ disk'[k] = disk'[l] => k = l
    BY <1>2, <1>3, <2>2 DEF IInv, Files
  <2>6. \A v \in Upload : got'[v] = 0 => content[v] = <<>>
    BY <1>1, <1>5 DEF IInv, Files
  <2>7. content' = [v \in Upload |-> content'[v]]
    BY <1>1 DEF IInv, Files
  <2> QED BY <1>1, <2>1, <2>3, <2>4, <2>5, <2>6, <2>7 DEF Files
<1>8. Slots'
  <2> SUFFICES ASSUME NEW r \in Ring
               PROVE  (IF Opened(r) THEN Current(r) ELSE Stale(r))'
    BY DEF Slots
  <2>1. CASE r = s
    <3>1. PICK n \in 0..Blocks : content[d] = Upto(m, n)
      BY <1>6
    <3>2. Len(content[d]) >= 0
      BY <3>1, UptoLen
    <3>3. Opened(s)'
      BY <1>2, <1>4, <1>5 DEF Opened
    <3>4. Current(s)'
      BY <1>1, <1>3, <1>4, <1>5, <3>2 DEF Current
    <3> QED BY <2>1, <3>3, <3>4
  <2>2. CASE r # s
    <3>1. task'[r] = task[r] /\ task[r].soketfd # u
      BY <1>1, <1>5, <2>2, ServedUpload
    <3>2. task[r].soketfd # 0 => task[r].soketfd \in Upload /\ Live(task[r].soketfd)
      BY DEF IInv, Held
    <3>3. Opened(r)' = Opened(r)
      BY <1>5, <3>1, <3>2 DEF Opened
    <3>4. CASE Opened(r)
      <4>1. PICK v \in Upload : v = task[r].soketfd /\ Live(v) /\ v # u
        BY <3>1, <3>2, <3>4 DEF Opened
      <4>2. job[v].md5sum \in MD5 /\ job[v].md5sum # m
        BY <1>2, <4>1 DEF IInv, Jobs
      <4>3. Current(r)
        BY <3>4 DEF IInv, Slots
      <4>4. Current(r)'
        BY <1>1, <1>3, <1>5, <3>1, <4>1, <4>2, <4>3 DEF Current
      <4> QED BY <3>3, <3>4, <4>4
    <3>5. CASE ~Opened(r)
      <4>1. Stale(r)
        BY <3>5 DEF IInv, Slots
      <4>2. Stale(r)'
        BY <1>1, <1>5, <3>1, <4>1 DEF Stale
      <4> QED BY <3>3, <3>5, <4>2
    <3> QED BY <3>4, <3>5
  <2> QED BY <2>1, <2>2
<1>9. Rows' /\ RowHasContent'
  BY <1>1, <1>2, <1>3 DEF IInv, Rows, RowHasContent, Known
<1> QED BY <1>5, <1>7, <1>8, <1>9 DEF IInv

LEMMA ReadDataStep ==
  ASSUME IInv, NEW s \in Ring, NEW u \in Upload, ReadData(s, u)
  PROVE  IInv'
<1> DEFINE m == job[u].md5sum
           f == task[s].file
           p == got[u] - 1
<1>1. /\ Serves(s, u) /\ got[u] \in 1..Blocks /\ got' = [got EXCEPT ![u] = @ + 1]
      /\ UNCHANGED <<uppath, asked, agreed, job, limit, over, pipe, rows, disk>>
      /\ content' = [content EXCEPT ![f] =
                       Written(@, task[s].pos, <<job[u].data, got[u]>>)]
      /\ task' = [task EXCEPT ![s].pos = @ + 1]
  BY DEF ReadData, Arrived, clientVars
<1>2. u # 0 /\ Live(u) /\ m \in MD5 /\ Known(m) = {} /\ job[u].data = m
      /\ \A v \in Upload : Live(v) /\ v # u => job[v].md5sum # m
  BY <1>1, ServedUpload DEF IInv, Jobs
<1>3. Opened(s) /\ task[s].soketfd = u
  BY <1>1, <1>2 DEF Opened, Serves
<1>4. /\ task[s].job = job[u] /\ task[s].pos = p /\ f = disk[m] /\ f # 0
      /\ Len(content[f]) >= p
  BY <1>3 DEF IInv, Slots, Current
<1>5. task'[s] = [soketfd |-> u, file |-> f, pos |-> got[u], job |-> job[u]]
  <2>1. task[s] = [soketfd |-> u, file |-> f, pos |-> p, job |-> job[u]]
    BY <1>3, <1>4 DEF IInv, Held
  <2>2. task'[s] = [task[s] EXCEPT !.pos = @ + 1]
    BY <1>1 DEF IInv, Held
  <2>3. p + 1 = got[u]
    BY <1>1
  <2> HIDE DEF f, p
  <2>4. task'[s] = [soketfd |-> u, file |-> f, pos |-> p + 1, job |-> job[u]]
    BY <2>1, <2>2
  <2> QED BY <2>3, <2>4
<1>6. f \in Upload /\ got[f] > 0 /\ \A k \in MD5 : disk[k] = f => k = m
  BY <1>2, <1>4 DEF IInv, Files
<1>7. PICK n \in 0..Blocks : content[f] = Upto(m, n)
  BY <1>2, <1>4 DEF IInv, Files
<1>8. PICK k \in 0..Blocks : k > p /\ content'[f] = Upto(m, k)
  <2>1. p \in Nat /\ p <= n /\ p < Blocks /\ p + 1 = got[u]
    BY <1>1, <1>4, <1>7, UptoLen, CatalogAssumption
  <2>2. \E k \in 0..Blocks :
          k > p /\ Written(Upto(m, n), p, <<m, p + 1>>) = Upto(m, k)
    BY <2>1, WrittenUpto
  <2>3. content'[f] = Written(Upto(m, n), p, <<m, p + 1>>)
    BY <1>1, <1>2, <1>4, <1>6, <1>7, <2>1 DEF IInv, Files
  <2> QED BY <2>2, <2>3
<1>9. \A v \in Upload : v # f => content'[v] = content[v]
  BY <1>1 DEF IInv, Files
<1>10. /\ Buffered' /\ Distinct' /\ Unlisted' /\ Jobs' /\ Piped' /\ Held'
       /\ got'[u] = got[u] + 1
       /\ \A v \in Upload : v # u => got'[v] = got[v]
       /\ \A r \in Ring : r # s => task'[r] = task[r]
       /\ \A v \in Upload : Lost(v)' = Lost(v)
  <2>1. task' = [task EXCEPT ![s] = task'[s]]
    BY <1>1, <1>5 DEF IInv, Held
  <2>2. task'[s] = [soketfd |-> u, file |-> task'[s].file,
                    pos |-> task'[s].pos, job |-> task'[s].job]
    BY <1>5
  <2>3. UNCHANGED <<uppath, asked, agreed, job, limit, over, pipe, rows>>
    BY <1>1
  <2>4. got[u] <= Blocks
    BY <1>1
  <2> QED BY <1>1, <2>1, <2>2, <2>3, <2>4, KeepsPlace
<1>11. Files'
  <2>1. \A l \in MD5 : disk[l] # 0 => got'[disk[l]] > 0
    BY <1>1, <1>10 DEF IInv, Files
  <2>2. \A l \in MD5 : disk[l] # 0 =>
          \E i \in 0..Blocks : content'[disk[l]] = Upto(l, i)
    <3> TAKE l \in MD5
    <3>1. CASE l = m
      BY <1>4, <1>8, <3>1
    <3>2. CASE l # m
      BY <1>6, <1>9, <3>2 DEF IInv, Files
    <3> QED BY <3>1, <3>2
  <2>3. \A v \in Upload : got'[v] = 0 => content'[v] = <<>>
    <3> SUFFICES ASSUME NEW v \in Upload, got'[v] = 0  PROVE content'[v] = <<>>
      OBVIOUS
    <3>1. v # u
      BY <1>1, <1>10
    <3>2. got[v] = 0 /\ v # f
      BY <1>6, <1>10, <3>1
    <3> QED BY <1>9, <3>2 DEF IInv, Files
  <2>4. content' = [v \in Upload |-> content'[v]]
    BY <1>1 DEF IInv, Files
  <2> QED BY <1>1, <2>1, <2>2, <2>3, <2>4 DEF IInv, Files
<1>12. Slots'
  <2> SUFFICES ASSUME NEW r \in Ring
               PROVE  (IF Opened(r) THEN Current(r) ELSE Stale(r))'
    BY DEF Slots
  <2>1. CASE r = s
    <3>1. Opened(s)'
      BY <1>1, <1>2, <1>5, <1>10 DEF Opened
    <3>2. k >= got[u] /\ got'[u] - 1 = got[u]
      BY <1>1, <1>8, <1>10
    <3>3. Len(content'[f]) >= got[u]
      BY <1>8, <3>2, UptoLen
    <3> HIDE DEF f
    <3>4. Current(s)'
      BY <1>1, <1>4, <1>5, <3>2, <3>3 DEF Current
    <3> QED BY <2>1, <3>1, <3>4
  <2>2. CASE r # s
    <3>1. task'[r] = task[r] /\ task[r].soketfd # u
      BY <1>1, <1>10, <2>2, ServedUpload
    <3>2. task[r].soketfd # 0 => task[r].soketfd \in Upload /\ Live(task[r].soketfd)
      BY DEF IInv, Held
    <3>3. Opened(r)' = Opened(r)
      BY <1>10, <3>1, <3>2 DEF Opened
    <3>4. CASE Opened(r)
      <4>1. PICK v \in Upload : v = task[r].soketfd /\ Live(v) /\ v # u
        BY <3>1, <3>2, <3>4 DEF Opened
      <4>2. job[v].md5sum \in MD5 /\ job[v].md5sum # m
        BY <1>2, <4>1 DEF IInv, Jobs
      <4>3. Current(r)
        BY <3>4 DEF IInv, Slots
      <4>4. task[r].file # f /\ task[r].file \in Upload
        BY <1>6, <4>1, <4>2, <4>3 DEF Current, IInv, Files
      <4>5. Current(r)'
        BY <1>1, <1>9, <1>10, <3>1, <4>1, <4>3, <4>4 DEF Current
      <4> QED BY <3>3, <3>4, <4>5
    <3>5. CASE ~Opened(r)
      <4>1. Stale(r)
        BY <3>5 DEF IInv, Slots
      <4>2. Stale(r)'
        BY <1>1, <1>10, <3>1, <4>1 DEF Stale
      <4> QED BY <3>3, <3>5, <4>2
    <3> QED BY <3>4, <3>5
  <2> QED BY <2>1, <2>2
<1>13. Rows' /\ RowHasContent'
  <2>1. ASSUME NEW r \in rows, r.filetype = "f"
        PROVE  r.md5sum \in MD5 /\ disk[r.md5sum] # 0 /\ disk[r.md5sum] # f
               /\ content[disk[r.md5sum]] = Whole(r.md5sum)
    BY <1>2, <1>6, <2>1 DEF IInv, Rows, RowHasContent, Known
  <2>2. \A k1 \in MD5 : disk[k1] # 0 => disk[k1] \in Upload
    BY DEF IInv, Files
  <2> QED BY <1>1, <1>9, <2>1, <2>2 DEF Rows, RowHasContent, Whole
<1> QED BY <1>10, <1>11, <1>12, <1>13 DEF IInv

(* An upload that ends leaves its slot, and every other where it is.       *)
LEMMA Leaves ==
  ASSUME IInv, NEW s \in Ring, NEW u \in Upload, Serves(s, u), Disconnect(s, u),
         got' = got \/ got' = [got EXCEPT ![u] = @ + 1]
  PROVE  /\ Buffered' /\ Distinct' /\ Jobs' /\ Piped' /\ Held'
         /\ task'[s].soketfd = 0 /\ task'[s].file = 0
         /\ \A r \in Ring : r # s => task'[r] = task[r] /\ task[r].soketfd # u
         /\ \A v \in Upload : v # u => /\ Live(v)' = Live(v) /\ job'[v] = job[v]
                                       /\ got'[v] = got[v]
         /\ ~Live(u)'
         /\ \A v \in Upload : Lost(v) => Lost(v)' /\ v # u
         /\ \A v \in Upload : got'[v] >= got[v]
<1>1. /\ task' = [task EXCEPT ![s] = FreeTask] /\ over' = over \cup {u}
      /\ job' = [job EXCEPT ![u] = NoJob]
      /\ UNCHANGED <<uppath, asked, agreed, limit, pipe, content>>
  BY DEF Disconnect, clientVars
<1>2. /\ u # 0 /\ Live(u) /\ InSlot(u) /\ ~InPipe(u)
      /\ \A r \in Ring : task[r].soketfd = u => r = s
  BY ServedUpload
<1>3. Buffered'
  BY <1>1, SameBuffers DEF IInv
<1>4. ~Live(u)'
  BY <1>1 DEF Live
<1>5. got' \in [Upload -> Nat] /\ \A v \in Upload : v # u => got'[v] = got[v]
  BY DEF IInv, Jobs
<1>6. \A v \in Upload : got'[v] >= got[v]
  BY DEF IInv, Jobs
<1>7. \A v \in Upload : v # u => Live(v)' = Live(v) /\ job'[v] = job[v]
  BY <1>1 DEF Live, IInv, Jobs
<1>8. Distinct'
  BY <1>1, <1>4, <1>7 DEF IInv, Distinct, Wants
<1>9. Jobs'
  <2>1. limit[u] # -1
    BY <1>2 DEF Live
  <2>2. job' = [v \in Upload |-> job'[v]] /\ over' \subseteq Upload
    BY <1>1 DEF IInv, Jobs
  <2> QED BY <1>1, <1>4, <1>5, <1>7, <2>1, <2>2 DEF IInv, Jobs
<1>10. /\ task'[s] = FreeTask /\ task' = [r \in Ring |-> task'[r]]
       /\ \A r \in Ring : r # s => task'[r] = task[r] /\ task[r].soketfd # u
  BY <1>1, <1>2 DEF IInv, Held
<1>11. task'[s].soketfd = 0 /\ task'[s].file = 0
  BY <1>10 DEF FreeTask
<1>12. \A v \in Upload : InSlot(v)' => InSlot(v)
  BY <1>10, <1>11, CatalogAssumption DEF InSlot
<1>13. \A v \in Upload : Lost(v) => Lost(v)' /\ v # u
  BY <1>1, <1>2, <1>7, <1>12 DEF Lost, InPipe
<1>14. \A i \in 1..Len(pipe) : pipe[i] # u /\ pipe[i] \in Upload
  BY <1>2 DEF InPipe, IInv, Piped
<1>15. Piped'
  <2>1. \A i \in 1..Len(pipe) : (Live(pipe[i]) /\ got[pipe[i]] = 0
                                 /\ ~InSlot(pipe[i]))'
    <3> TAKE i \in 1..Len(pipe)
    <3>1. PICK v \in Upload : v = pipe[i] /\ v # u
      BY <1>14
    <3>2. Live(v) /\ got[v] = 0 /\ ~InSlot(v)
      BY <3>1 DEF IInv, Piped
    <3>3. Live(v)' /\ got'[v] = 0 /\ ~InSlot(v)'
      BY <1>5, <1>7, <1>12, <3>1, <3>2
    <3> QED BY <1>1, <3>1, <3>3 DEF Live, InSlot
  <2> QED BY <1>1, <2>1 DEF IInv, Piped
<1>16. Held'
  <2>1. FreeTask = [soketfd |-> FreeTask.soketfd, file |-> FreeTask.file,
                    pos |-> FreeTask.pos, job |-> FreeTask.job]
    BY DEF FreeTask
  <2>2. task' = [r \in Ring |-> [soketfd |-> task'[r].soketfd,
                 file |-> task'[r].file, pos |-> task'[r].pos, job |-> task'[r].job]]
    BY <1>10, <2>1 DEF IInv, Held
  <2>3. ASSUME NEW r \in Ring, task'[r].soketfd # 0
        PROVE  /\ task'[r].soketfd \in Upload /\ (Live(task[r].soketfd))'
               /\ \A q \in Ring : task'[q].soketfd = task'[r].soketfd => q = r
    <3>1. r # s /\ task'[r] = task[r]
      BY <1>10, <1>11, <2>3
    <3>2. PICK v \in Upload : v = task[r].soketfd /\ v # u /\ Live(v)
      BY <1>10, <2>3, <3>1 DEF IInv, Held
    <3>3. Live(v)'
      BY <1>7, <3>2
    <3>4. (Live(task[r].soketfd))'
      BY <3>1, <3>2, <3>3 DEF Live
    <3>5. \A q \in Ring : task'[q].soketfd = task'[r].soketfd => q = r
      BY <1>10, <1>11, <2>3, <3>1 DEF IInv, Held
    <3> QED BY <3>1, <3>2, <3>4, <3>5
  <2> QED BY <2>2, <2>3 DEF Held
<1> QED BY <1>3, <1>4, <1>5, <1>6, <1>7, <1>8, <1>9, <1>10, <1>11, <1>13, <1>15,
           <1>16

LEMMA ReadEndStep ==
  ASSUME IInv, NEW s \in Ring, NEW u \in Upload, ReadEnd(s, u)
  PROVE  IInv'
<1> DEFINE m == job[u].md5sum
           f == task[s].file
           new == [code |-> next_code, procode |-> task[s].job.code,
                   filename |-> task[s].job.name, filetype |-> "f",
                   md5sum |-> task[s].job.md5sum]
<1>1. /\ Serves(s, u) /\ got[u] = Blocks + 1 /\ got' = [got EXCEPT ![u] = @ + 1]
      /\ Disconnect(s, u) /\ UNCHANGED <<disk, content>>
      /\ rows' = rows \cup {new}
  BY DEF ReadEnd, Arrived, Disconnect, Insert
<1>2. u # 0 /\ Live(u) /\ m \in MD5
      /\ \A v \in Upload : Live(v) /\ v # u => job[v].md5sum # m
  BY <1>1, ServedUpload
<1>3. /\ Buffered' /\ Distinct' /\ Jobs' /\ Piped' /\ Held'
      /\ task'[s].soketfd = 0 /\ task'[s].file = 0
      /\ \A r \in Ring : r # s => task'[r] = task[r] /\ task[r].soketfd # u
      /\ \A v \in Upload : v # u => /\ Live(v)' = Live(v) /\ job'[v] = job[v]
                                    /\ got'[v] = got[v]
      /\ ~Live(u)'
      /\ \A v \in Upload : Lost(v) => Lost(v)' /\ v # u
      /\ \A v \in Upload : got'[v] >= got[v]
  BY <1>1, Leaves
<1>4. Opened(s) /\ task[s].soketfd = u
  BY <1>1, <1>2, CatalogAssumption DEF Opened, Serves
<1>5. /\ task[s].job = job[u] /\ task[s].pos = got[u] - 1 /\ f = disk[m] /\ f # 0
      /\ Len(content[f]) >= got[u] - 1
  BY <1>4 DEF IInv, Slots, Current
<1>6. content[disk[m]] = Whole(m) /\ disk[m] # 0
  <2>1. PICK n \in 0..Blocks : content[f] = Upto(m, n)
    BY <1>2, <1>5 DEF IInv, Files
  <2>2. n >= got[u] - 1
    BY <1>5, <2>1, UptoLen
  <2>3. n = Blocks
    BY <1>1, <2>2, CatalogAssumption
  <2> QED BY <1>5, <2>1, <2>3 DEF Upto, Whole
<1>7. new.filetype = "f" /\ new.md5sum = m
  BY <1>5
<1> HIDE DEF new
<1>8. Rows' /\ RowHasContent'
  BY <1>1, <1>2, <1>6, <1>7 DEF IInv, Rows, RowHasContent, Whole
<1>9. \A k : k # m => Known(k)' = Known(k)
  BY <1>1, <1>7 DEF Known
<1>10. UNCHANGED <<uppath, agreed>>
  BY <1>1 DEF Disconnect, clientVars
<1>11. \A t \in Terminal : agreed[t] # <<>> => uppath[t] # m
  BY <1>2 DEF IInv, Distinct, Wants
<1>12. Unlisted'
  BY <1>2, <1>3, <1>9, <1>10, <1>11 DEF IInv, Unlisted
<1>13. Files'
  <2>1. \A k \in MD5 : disk[k] # 0 => got'[disk[k]] > 0
    BY <1>3 DEF IInv, Files, Jobs
  <2>2. \A v \in Upload : got'[v] = 0 => got[v] = 0
    BY <1>3 DEF IInv, Jobs
  <2> QED BY <1>1, <2>1, <2>2 DEF IInv, Files
<1>14. Slots'
  <2> SUFFICES ASSUME NEW r \in Ring
               PROVE  (IF Opened(r) THEN Current(r) ELSE Stale(r))'
    BY DEF Slots
  <2>1. CASE r = s
    BY <1>3, <2>1 DEF Opened, Stale
  <2>2. CASE r # s
    <3>1. task'[r] = task[r] /\ task[r].soketfd # u
      BY <1>3, <2>2
    <3>2. task[r].soketfd # 0 => task[r].soketfd \in Upload
      BY DEF IInv, Held
    <3>3. Opened(r)' = Opened(r)
      BY <1>3, <3>1, <3>2 DEF Opened
    <3>4. Current(r) /\ Opened(r) => Current(r)'
      BY <1>1, <1>3, <3>1, <3>2 DEF Current, Opened
    <3>5. Stale(r) => Stale(r)'
      BY <1>3, <3>1 DEF Stale
    <3> QED BY <3>3, <3>4, <3>5 DEF IInv, Slots
  <2> QED BY <2>1, <2>2
<1> QED BY <1>3, <1>8, <1>12, <1>13, <1>14 DEF IInv

LEMMA PeerLostStep ==
  ASSUME IInv, NEW s \in Ring, NEW u \in Upload, PeerLost(s, u)
  PROVE  IInv'
<1> DEFINE d == task[s].job.md5sum
<1>1. /\ Serves(s, u) /\ Disconnect(s, u)
      /\ UNCHANGED <<rows, got, content>>
      /\ disk' = IF task[s].file # 0 THEN [disk EXCEPT ![d] = 0] ELSE disk
  BY DEF PeerLost, Disconnect
<1>2. u # 0 /\ Live(u) /\ task[s].soketfd = u
      /\ \A v \in Upload : Live(v) /\ v # u => job[v].md5sum # job[u].md5sum
  BY <1>1, ServedUpload DEF Serves
<1>3. /\ Buffered' /\ Distinct' /\ Jobs' /\ Piped' /\ Held'
      /\ task'[s].soketfd = 0 /\ task'[s].file = 0
      /\ \A r \in Ring : r # s => task'[r] = task[r] /\ task[r].soketfd # u
      /\ \A v \in Upload : v # u => /\ Live(v)' = Live(v) /\ job'[v] = job[v]
                                    /\ got'[v] = got[v]
      /\ ~Live(u)'
      /\ \A v \in Upload : Lost(v) => Lost(v)' /\ v # u
      /\ \A v \in Upload : got'[v] >= got[v]
  BY <1>1, Leaves
(* Whose file is removed: this upload's, or one's that has lost the slot. *)
<1>4. task[s].file = 0
      \/ \E w \in Upload : /\ Live(w) /\ d = job[w].md5sum
                           /\ \A r \in Ring : r # s => task[r].soketfd # w
  <2>1. CASE Opened(s)
    BY <1>2, <1>3, <2>1 DEF IInv, Slots, Current
  <2>2. CASE ~Opened(s)
    <3>1. Stale(s)
      BY <2>2 DEF IInv, Slots
    <3>2. \A v \in Upload : Lost(v) =>
             Live(v) /\ \A r \in Ring : task[r].soketfd # v
      BY DEF Lost, InSlot
    <3> QED BY <3>1, <3>2 DEF Stale
  <2> QED BY <2>1, <2>2
<1>5. /\ disk' \in [MD5 -> Upload \cup {0}]
      /\ \A k \in MD5 : disk'[k] = disk[k] \/ disk'[k] = 0
      /\ \A k \in MD5 : disk'[k] # disk[k] => k = d /\ task[s].file # 0
  BY <1>1 DEF IInv, Files
<1>6. \A k \in MD5 : disk'[k] # disk[k] => Known(k) = {}
  BY <1>4, <1>5 DEF IInv, Unlisted
<1>7. Rows' /\ RowHasContent'
  <2>1. Rows'
    BY <1>1 DEF IInv, Rows
  <2>2. ASSUME NEW r \in rows, r.filetype = "f"
        PROVE  /\ disk'[r.md5sum] = disk[r.md5sum] /\ disk[r.md5sum] # 0
               /\ content[disk[r.md5sum]] = Whole(r.md5sum)
    BY <1>6, <2>2 DEF IInv, Rows, RowHasContent, Known
  <2> QED BY <1>1, <2>1, <2>2 DEF RowHasContent, Whole
<1>8. UNCHANGED <<uppath, agreed>>
  BY <1>1 DEF Disconnect, clientVars
<1>9. Unlisted'
  BY <1>1, <1>3, <1>8 DEF IInv, Unlisted, Known
<1>10. Files'
  BY <1>1, <1>5 DEF IInv, Files
<1>11. Slots'
  <2> SUFFICES ASSUME NEW r \in Ring
               PROVE  (IF Opened(r) THEN Current(r) ELSE Stale(r))'
    BY DEF Slots
  <2>1. CASE r = s
    BY <1>3, <2>1 DEF Opened, Stale
  <2>2. CASE r # s
    <3>1. task'[r] = task[r] /\ task[r].soketfd # u
      BY <1>3, <2>2
    <3>2. task[r].soketfd # 0 => task[r].soketfd \in Upload /\ Live(task[r].soketfd)
      BY DEF IInv, Held
    <3>3. Opened(r)' = Opened(r)
      BY <1>1, <3>1 DEF Opened
    <3>4. ASSUME Opened(r)  PROVE Current(r)'
      <4>1. PICK v \in Upload : v = task[r].soketfd /\ Live(v) /\ v # u
        BY <3>1, <3>2, <3>4 DEF Opened
      <4>2. job[v].md5sum \in MD5
        BY <4>1 DEF IInv, Jobs
      <4>3. disk'[job[v].md5sum] = disk[job[v].md5sum]
        BY <1>4, <1>5, <2>2, <4>1, <4>2 DEF IInv, Distinct
      <4> QED BY <1>1, <1>3, <3>1, <3>4, <4>1, <4>3 DEF IInv, Slots, Current
    <3>5. Stale(r) => Stale(r)'
      BY <1>3, <3>1 DEF Stale
    <3> QED BY <3>3, <3>4, <3>5 DEF IInv, Slots
  <2> QED BY <2>1, <2>2
<1> QED BY <1>3, <1>7, <1>9, <1>10, <1>11 DEF IInv

LEMMA StutterStep ==
  ASSUME IInv, UNCHANGED vars
  PROVE  IInv'
<1>1. UNCHANGED <<rows, uppath, asked, agreed, job, limit, over, netVars, pipe,
                  task, diskVars>>
  BY DEF vars, clientVars, netVars, threadVars
<1> QED BY <1>1, SameBuffers, SameHands, SameUnlisted, SameThread, SameRows DEF IInv

LEMMA NextStep ==
  ASSUME Careful, IInv, Next
  PROVE  IInv'
<1>1. ASSUME NEW t \in Terminal, TerminalStep(t)  PROVE IInv'
  BY <1>1, MkdirStep, RmStep, PutsStep, CdStep DEF TerminalStep
<1>2. ASSUME Answer  PROVE IInv'
  BY <1>2, MathUploadStep, StartUploadStep DEF Answer
<1>3. ASSUME ThreadStep  PROVE IInv'
  BY <1>3, TakeUploadStep, AddUptaskStep, ReadDataStep, ReadEndStep, PeerLostStep
     DEF ThreadStep
<1>4. ASSUME NEW u \in Upload, Drop(u)  PROVE IInv'
  BY <1>4, DropStep
<1> QED BY <1>1, <1>2, <1>3, <1>4 DEF Next

(* Whatever other uploads do, end or lose their slot, a file that is       *)
(* listed is on disk under its MD5, with all of that content.              *)
THEOREM RowsHaveContent == Careful /\ Spec => []RowHasContent
<1> SUFFICES ASSUME Careful  PROVE Spec => []RowHasContent
  OBVIOUS
<1>1. IInv /\ [Next]_vars => IInv'
  BY NextStep, StutterStep
<1>2. IInv => RowHasContent
  BY DEF IInv
<1> QED BY InitIInv, <1>1, <1>2, PTL DEF Spec

-----------------------------------------------------------------------------
(* What RmKeepsTree says of one step. *)
KeepsTree == Attached \ Attached' \subseteq rows \ rows'
             /\ Cardinality(rows \ rows') <= 1

(* A row that is inserted takes nothing out of the tree. *)
LEMMA InsertKeepsTree ==
  ASSUME rows \subseteq rows'
  PROVE  KeepsTree
<1>1. rows \ rows' = {} /\ Attached \ Attached' = {}
  BY DEF Attached, Directories
<1>2. Cardinality(rows \ rows') = 0
  BY <1>1, FS_EmptySet
<1> QED BY <1>1, <1>2 DEF KeepsTree

LEMMA RmKeepsOthers ==
  ASSUME NEW r \in rows, Removable(r), rows' = rows \ {r}
  PROVE  KeepsTree
<1>1. rows \ rows' = {r}
  OBVIOUS
<1>2. Cardinality(rows \ rows') = 1
  BY <1>1, FS_Singleton
<1>3. ASSUME NEW q \in Attached, q # r  PROVE q \in Attached'
  BY <1>3 DEF Attached, Directories, Removable
<1> QED BY <1>1, <1>2, <1>3 DEF Attached, KeepsTree

(* rm takes one row, which nothing is listed under; no other step takes any. *)
THEOREM RmKeepsTheTree == Spec => RmKeepsTree
<1>1. [Next]_vars => [KeepsTree]_vars
  <2> SUFFICES ASSUME Next  PROVE KeepsTree
    OBVIOUS
  <2>1. ASSUME NEW t \in Terminal, NEW name, Rm(t, name)  PROVE KeepsTree
    <3>1. PICK r \in rows : Removable(r) /\ rows' = rows \ {r}
      BY <2>1 DEF Rm, In
    <3> QED BY <3>1, RmKeepsOthers
  <2>2. ASSUME rows \subseteq rows'  PROVE KeepsTree
    BY <2>2, InsertKeepsTree
  <2>3. ASSUME NEW t \in Terminal, TerminalStep(t)  PROVE KeepsTree
    BY <2>1, <2>2, <2>3 DEF TerminalStep, Mkdir, Puts, Cd, Insert
  <2>4. ASSUME Answer  PROVE KeepsTree
    BY <2>2, <2>4 DEF Answer, MathUpload, StartUpload, Insert
  <2>5. ASSUME ThreadStep  PROVE KeepsTree
    BY <2>2, <2>5 DEF ThreadStep, TakeUpload, AddUptask, ReadData, ReadEnd,
       PeerLost, Insert
  <2>6. ASSUME NEW u \in Upload, Drop(u)  PROVE KeepsTree
    BY <2>2, <2>6 DEF Drop
  <2> QED BY <2>3, <2>4, <2>5, <2>6 DEF Next
<1>2. Spec => [][KeepsTree]_vars
  BY <1>1, PTL DEF Spec
<1> QED BY <1>2 DEF RmKeepsTree, KeepsTree
===============================================================================
