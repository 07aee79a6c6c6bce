--------------------------- MODULE ReactorFetchProofs ---------------------------
(***************************************************************************)
(* Proofs about the reactor of the C++ drive, and about the downloads it   *)
(* serves.                                                                 *)
(*                                                                         *)
(* Reactor: RInv holds whatever the clients do and gives ArmedIffPending;  *)
(* PInv needs clients that stay as long as a task works for them, and      *)
(* gives RightConnection and OneReplyInFlight.                             *)
(*                                                                         *)
(* Fetch, for files of any length, any chunk sizes and any threshold:      *)
(* FetchedIsRemote speaks of the end of a download only; FetchInv says     *)
(* what is true in the middle of it, of the local file up to the offset,   *)
(* of the command the server works on and of the answer under way.         *)
(***************************************************************************)
EXTENDS Reactor, Fetch, SequenceTheorems, FiniteSetTheorems, WellFoundedInduction, TLAPS

(* The inductive invariants *)

Event == [of : {Listen, Notify}]
         \cup [of : Fd, in : BOOLEAN, hup : BOOLEAN, out : BOOLEAN]
Reply == [fd : Fd, conn : Nat \ {0}, by : {"task", "reactor"}]
Wakeup == [of |-> Notify]

(* What the queues, the buffers and the tables hold; a descriptor that is  *)
(* not open has nothing.                                                   *)
Tables ==
  /\ conns \in Nat /\ conn \in [Fd -> Nat] /\ \A fd \in Fd : conn[fd] <= conns
  /\ outbound \in [Fd -> Seq(Nat)] /\ armed \subseteq Fd
  /\ responses \in Seq(Reply) /\ pool \in Seq(Reply) /\ counter \in Nat
  /\ task \in [Worker -> Reply \cup {NoTask}]
  /\ unread \subseteq Open /\ awaiting \subseteq Open /\ hup \subseteq Open
  /\ \A fd \in Fd : conn[fd] = 0 => outbound[fd] = <<>>

(* A batch has one event for a descriptor, which is open until it is       *)
(* handled; what the event says of it stays true.                          *)
Batch ==
  /\ events \subseteq Event
  /\ \A e, f \in events : e.of = f.of => e = f
  /\ \A e \in events : e.of \in Fd =>
       e.of \in Open /\ (e.in => e.of \in unread) /\ (e.hup => e.of \in hup)

(* The client of a task's connection stays, and so does the connection.    *)
Stays(r) == conn[r.fd] = r.conn /\ r.fd \notin hup

(* A reply of the reactor is handed over before the next batch, and so     *)
(* before its connection can be closed.                                    *)
Handed(r) ==
  /\ conn[r.fd] = r.conn /\ counter > 0 /\ rpc # "read"
  /\ \A e \in events : e.of = r.fd => Wakeup \in events

Current ==
  /\ \A i \in 1..Len(responses) :
       IF responses[i].by = "task" THEN Stays(responses[i]) ELSE Handed(responses[i])
  /\ \A i \in 1..Len(pool) : pool[i].by = "task" /\ Stays(pool[i])
  /\ \A w \in Worker : task[w] # NoTask => task[w].by = "task" /\ Stays(task[w])

(* Where the reply to fd is. *)
Queued(q, fd) == {i \in 1..Len(q) : q[i].fd = fd}
AtWork(tasking, fd) == {w \in Worker : tasking[w] # NoTask /\ tasking[w].fd = fd}
AtMostOne(S) == \A x, y \in S : x = y

(* A and B: its places in the replies and in the tasks to do, W: the       *)
(* workers that have it; buffer: what is to be sent to it; sent: whether   *)
(* it is a request yet, waits: whether the client waits.                   *)
Place(A, B, W, buffer, sent, waits) ==
  /\ AtMostOne(A) /\ AtMostOne(B) /\ AtMostOne(W) /\ Len(buffer) <= 1
  /\ sent => A = {}
  /\ sent \/ A # {} => B = {}
  /\ sent \/ A # {} \/ B # {} => W = {}
  /\ sent \/ A # {} \/ B # {} \/ W # {} => buffer = <<>>
  /\ waits <=> sent \/ A # {} \/ B # {} \/ W # {} \/ buffer # <<>>

OnePlace ==
  \A fd \in Fd : Place(Queued(responses, fd), Queued(pool, fd), AtWork(task, fd),
                       outbound[fd], fd \in unread, fd \in awaiting)

(* Whatever the clients do; and when they wait for their commits.          *)
RInv == Tables /\ Batch /\ ArmedIffPending
PInv == Current /\ RightConnection /\ OnePlace

LEMMA Smallest ==
  ASSUME NEW S \in SUBSET Nat, S # {}
  PROVE  \E x \in S : \A y \in S : x <= y
<1>1. PICK x \in S : \A y \in S : <<y, x>> \notin OpToRel(<, Nat)
  BY WFMin, NatLessThanWellFounded, Zenon
<1>2. \A y \in S : ~(y < x)
  BY <1>1 DEF OpToRel
<1> QED BY <1>2

(* What drain_async_queue has handed to fd after i replies of q.           *)
Taken(q, fd, N, h) ==
  h = [i \in 0..N |-> IF i = 0 THEN <<>>
                      ELSE IF q[i].fd = fd THEN Append(h[i - 1], q[i].conn)
                      ELSE h[i - 1]]

LEMMA TakenExists ==
  ASSUME NEW q, NEW fd, NEW N \in Nat
  PROVE  \E h : Taken(q, fd, N, h)
<1> DEFINE S == {n \in Nat : ~ \E h : Taken(q, fd, n, h)}
<1> SUFFICES ASSUME S # {}  PROVE FALSE
  OBVIOUS
<1>1. S \in SUBSET Nat
  OBVIOUS
<1>2. PICK n \in S : \A m \in S : n <= m
  BY <1>1, Smallest, Zenon
<1>3. n \in Nat /\ ~ \E h : Taken(q, fd, n, h)
  OBVIOUS
<1>4. CASE n = 0
  <2>1. Taken(q, fd, 0, [i \in 0..0 |-> <<>>])
    BY DEF Taken
  <2> QED BY <1>3, <1>4, <2>1
<1>5. CASE n # 0
  <2>1. n - 1 \in Nat /\ n - 1 \notin S
    <3>1. n - 1 \in Nat /\ ~(n <= n - 1)
      BY <1>3, <1>5
    <3> QED BY <1>2, <3>1, Zenon
  <2>2. PICK h : Taken(q, fd, n - 1, h)
    BY <2>1
  <2> DEFINE Next_(i, prev) == IF q[i].fd = fd THEN Append(prev, q[i].conn) ELSE prev
             g == [i \in 0..n |-> IF i = n THEN Next_(n, h[n - 1]) ELSE h[i]]
  <2>3. \A i \in 0..n : i # 0 => g[i - 1] = h[i - 1]
    BY <1>3
  <2>4. \A i \in 0..n - 1 : h[i] = IF i = 0 THEN <<>> ELSE Next_(i, h[i - 1])
    BY <2>2 DEF Taken
  <2>5. \A i \in 0..n : g[i] = IF i = 0 THEN <<>> ELSE Next_(i, g[i - 1])
    <3> SUFFICES ASSUME NEW i \in 0..n
                 PROVE  g[i] = IF i = 0 THEN <<>> ELSE Next_(i, g[i - 1])
      OBVIOUS
    <3>1. CASE i = n
      BY <1>3, <1>5, <2>3, <3>1
    <3>2. CASE i # n
      <4>1. i \in 0..n - 1 /\ g[i] = h[i]
        BY <1>3, <3>2
      <4> QED BY <2>3, <2>4, <4>1
    <3> QED BY <3>1, <3>2
  <2>6. Taken(q, fd, n, g)
    BY <2>5 DEF Taken
  <2> QED BY <1>3, <2>6
<1> QED BY <1>4, <1>5

(* Addressed: the connections of the replies that have the descriptor.     *)
LEMMA AddressedOk ==
  ASSUME responses \in Seq(Reply), NEW fd
  PROVE  LET a == Addressed(fd)
             mine == Queued(responses, fd)
         IN  /\ a \in Seq(Nat)
             /\ \A x \in 1..Len(a) : \E i \in mine : a[x] = responses[i].conn
             /\ a = <<>> <=> mine = {}
             /\ AtMostOne(mine) => Len(a) <= 1
<1> DEFINE q == responses
           N == Len(responses)
           h == CHOOSE f : f = [i \in 0..N |->
                  IF i = 0 THEN <<>>
                  ELSE IF q[i].fd = fd THEN Append(f[i - 1], q[i].conn)
                  ELSE f[i - 1]]
           Upto(i) == {k \in 1..i : q[k].fd = fd}
           P(i) == /\ h[i] \in Seq(Nat)
                   /\ \A x \in 1..Len(h[i]) : \E k \in Upto(i) : h[i][x] = q[k].conn
                   /\ h[i] = <<>> <=> Upto(i) = {}
                   /\ AtMostOne(Upto(i)) => Len(h[i]) <= 1
           S == {i \in 0..N : ~P(i)}
<1>1. Addressed(fd) = h[N]
  BY DEF Addressed
<1>2. N \in Nat /\ \A i \in 1..N : q[i] \in Reply
  OBVIOUS
<1>3. Taken(q, fd, N, h)
  <2>1. \E f : Taken(q, fd, N, f)
    BY <1>2, TakenExists
  <2> QED BY <2>1 DEF Taken
<1> HIDE DEF h
<1>4. P(0)
  <2>1. h[0] = <<>> /\ Upto(0) = {}
    BY <1>2, <1>3 DEF Taken
  <2> QED BY <2>1
<1>5. ASSUME NEW i \in 0..N, i # 0, P(i - 1)
      PROVE  P(i)
  <2>1. i \in 1..N /\ q[i].conn \in Nat /\ i - 1 \in Nat
    BY <1>2, <1>5 DEF Reply
  <2>0. h[i] = IF q[i].fd = fd THEN Append(h[i - 1], q[i].conn) ELSE h[i - 1]
    BY <1>3, <1>5, Zenon DEF Taken
  <2>2. CASE q[i].fd # fd
    <3>1. h[i] = h[i - 1]
      BY <2>0, <2>2
    <3>2. Upto(i) = Upto(i - 1)
      BY <2>1, <2>2
    <3> HIDE DEF Upto
    <3> QED BY <1>5, <3>1, <3>2
  <2>3. CASE q[i].fd = fd
    <3> DEFINE b == h[i - 1]
    <3>1. h[i] = Append(b, q[i].conn)
      BY <2>0, <2>3
    <3>2. /\ b \in Seq(Nat) /\ h[i] \in Seq(Nat) /\ Len(h[i]) = Len(b) + 1 /\ h[i] # <<>>
          /\ \A x \in 1..Len(b) : h[i][x] = b[x]
          /\ h[i][Len(b) + 1] = q[i].conn
      <4> DEFINE c == q[i].conn
      <4>1. b \in Seq(Nat) /\ c \in Nat /\ h[i] = Append(b, c)
        BY <1>5, <2>1, <3>1
      <4> HIDE DEF b, c
      <4>2. /\ Append(b, c) \in Seq(Nat) /\ Len(Append(b, c)) = Len(b) + 1
            /\ Append(b, c) # <<>> /\ \A x \in 1..Len(b) : Append(b, c)[x] = b[x]
            /\ Append(b, c)[Len(b) + 1] = c
        BY <4>1, AppendProperties
      <4> QED BY <4>1, <4>2 DEF c
    <3>3. Upto(i) = Upto(i - 1) \cup {i} /\ i \notin Upto(i - 1)
      BY <2>1, <2>3
    <3> HIDE DEF b, Upto
    <3>4. \A x \in 1..Len(h[i]) : \E k \in Upto(i) : h[i][x] = q[k].conn
      <4>1. \A x \in 1..Len(b) : \E k \in Upto(i - 1) : b[x] = q[k].conn
        BY <1>5 DEF b
      <4>2. \A x \in 1..Len(h[i]) : x \in 1..Len(b) \/ x = Len(b) + 1
        BY <3>2
      <4> QED BY <3>2, <3>3, <4>1, <4>2
    <3>5. AtMostOne(Upto(i)) => Len(h[i]) <= 1
      <4>1. AtMostOne(Upto(i)) => Upto(i - 1) = {}
        BY <3>3 DEF AtMostOne
      <4>2. Upto(i - 1) = {} => b = <<>>
        BY <1>5 DEF b
      <4>3. b = <<>> => Len(b) = 0
        OBVIOUS
      <4> QED BY <3>2, <4>1, <4>2, <4>3
    <3> QED BY <3>2, <3>3, <3>4, <3>5
  <2> QED BY <2>2, <2>3
<1> HIDE DEF P
<1>6. P(N)
  <2> SUFFICES ASSUME S # {}  PROVE FALSE
    BY <1>2
  <2>1. S \in SUBSET Nat
    OBVIOUS
  <2>2. PICK k \in S : \A l \in S : k <= l
    BY <2>1, Smallest, Zenon
  <2>3. k # 0 /\ k \in 0..N /\ ~P(k)
    BY <1>4, <2>2
  <2>4. k - 1 \in 0..N /\ P(k - 1)
    BY <1>2, <2>2, <2>3
  <2> QED BY <1>5, <2>3, <2>4
<1>7. Upto(N) = Queued(responses, fd)
  BY DEF Queued
<1> QED BY <1>1, <1>6, <1>7 DEF P

LEMMA LastOnes ==
  ASSUME NEW S, NEW q \in Seq(S), NEW n \in 0..Len(q)
  PROVE  LET s == SubSeq(q, Len(q) - n + 1, Len(q))
         IN  /\ s \in Seq(S) /\ Len(s) = n
             /\ \A i \in 1..n : s[i] = q[Len(q) - n + i]
<1> DEFINE a == Len(q) - n + 1
           s == SubSeq(q, a, Len(q))
<1>1. Len(q) \in Nat /\ a \in 1..Len(q) + 1
  OBVIOUS
<1>2. s \in Seq(S) /\ Len(s) = (IF a <= Len(q) THEN Len(q) - a + 1 ELSE 0)
  BY <1>1, SubSeqProperties
<1>3. Len(s) = n
  BY <1>1, <1>2
<1>4. \A i \in 1..Len(s) : s[i] = q[a + i - 1]
  BY <1>1, SubSeqProperties
<1>5. \A i \in 1..n : a + i - 1 = Len(q) - n + i
  BY <1>1
<1> QED BY <1>2, <1>3, <1>4, <1>5

LEMMA FlushOk ==
  ASSUME Tables, ArmedIffPending, NEW e, e.of \in Fd, Flush(e)
  PROVE  /\ outbound' \in [Fd -> Seq(Nat)] /\ armed' \subseteq Fd /\ ArmedIffPending'
         /\ \A fd \in Fd \ {e.of} : outbound'[fd] = outbound[fd]
         /\ Len(outbound'[e.of]) <= Len(outbound[e.of])
         /\ \A i \in 1..Len(outbound'[e.of]) : \E k \in 1..Len(outbound[e.of]) :
              outbound'[e.of][i] = outbound[e.of][k]
         /\ awaiting' = IF Len(outbound'[e.of]) < Len(outbound[e.of])
                        THEN awaiting \ {e.of} ELSE awaiting
<1> DEFINE fd == e.of
           q == outbound[fd]
<1>1. outbound \in [Fd -> Seq(Nat)] /\ armed \subseteq Fd /\ q \in Seq(Nat) /\ Len(q) \in Nat
  BY DEF Tables
<1>2. CASE ~e.out
  BY <1>1, <1>2 DEF Flush, ArmedIffPending
<1>3. CASE e.out
  <2>1. PICK n \in 0..Len(q) :
          /\ outbound' = [outbound EXCEPT ![fd] = SubSeq(@, Len(@) - n + 1, Len(@))]
          /\ armed' = IF n = 0 THEN armed \ {fd} ELSE armed
          /\ awaiting' = IF n < Len(q) THEN awaiting \ {fd} ELSE awaiting
    BY <1>3 DEF Flush
  <2> DEFINE s == SubSeq(q, Len(q) - n + 1, Len(q))
  <2>2. /\ s \in Seq(Nat) /\ Len(s) = n
        /\ \A i \in 1..n : s[i] = q[Len(q) - n + i]
    BY <1>1, LastOnes
  <2>3. outbound' = [outbound EXCEPT ![fd] = s]
    BY <2>1
  <2> HIDE DEF s
  <2>4. /\ outbound' \in [Fd -> Seq(Nat)] /\ outbound'[fd] = s
        /\ \A g \in Fd \ {fd} : outbound'[g] = outbound[g]
    BY <1>1, <2>2, <2>3
  <2>5. \A i \in 1..n : Len(q) - n + i \in 1..Len(q)
    BY <1>1
  <2>6. s = <<>> <=> n = 0
    BY <2>2
  <2>7. ArmedIffPending'
    <3>1. fd \in armed <=> q # <<>>
      BY DEF ArmedIffPending
    <3>2. n # 0 => q # <<>>
      BY <1>1
    <3>3. fd \in armed' <=> outbound'[fd] # <<>>
      BY <2>1, <2>4, <2>6, <3>1, <3>2
    <3> QED BY <2>1, <2>4, <3>3 DEF ArmedIffPending
  <2>8. Len(outbound'[fd]) = n
    BY <2>2, <2>4
  <2>9. \A i \in 1..n : \E k \in 1..Len(q) : outbound'[fd][i] = q[k]
    BY <2>2, <2>4, <2>5
  <2>10. awaiting' = IF Len(outbound'[fd]) < Len(q) THEN awaiting \ {fd} ELSE awaiting
    BY <2>1, <2>8
  <2>11. Len(outbound'[fd]) <= Len(q)
    BY <1>1, <2>8
  <2>12. \A i \in 1..Len(outbound'[fd]) : \E k \in 1..Len(q) : outbound'[fd][i] = q[k]
    BY <2>8, <2>9
  <2>13. armed' \subseteq Fd
    BY <1>1, <2>1
  <2> QED BY <2>4, <2>7, <2>10, <2>11, <2>12, <2>13, Zenon
<1> QED BY <1>2, <1>3

LEMMA Distinguished ==
  ASSUME ReactorAssumption
  PROVE  Listen \notin Fd /\ Notify \notin Fd /\ Listen # Notify
BY DEF ReactorAssumption

LEMMA EpollWaitOk == ASSUME ReactorAssumption, RInv, EpollWait  PROVE RInv'
<1>1. /\ events' = Ready
      /\ UNCHANGED <<rpc, conn, outbound, armed, responses, counter, pool, task,
                     backlog, unread, awaiting, hup, conns, requests>>
  BY DEF EpollWait, serverVars, replyVars, taskVars, clientVars
<1>2. /\ Ready \subseteq Event
      /\ \A e, f \in Ready : e.of = f.of => e = f
      /\ \A e \in Ready : e.of \in Fd =>
           e.of \in Open /\ (e.in => e.of \in unread) /\ (e.hup => e.of \in hup)
  <2> DEFINE Con(fd) == [of |-> fd, in |-> fd \in unread, hup |-> fd \in hup,
                         out |-> fd \in armed]
             F == Open \cap (unread \cup hup \cup armed)
  <2>1. Ready \subseteq {[of |-> Listen], [of |-> Notify]} \cup {Con(fd) : fd \in F}
    BY DEF Ready
  <2>2. \A fd \in F : /\ fd \in Fd /\ fd \in Open /\ Con(fd) \in Event
                      /\ Con(fd).of = fd /\ Con(fd).in = (fd \in unread)
                      /\ Con(fd).hup = (fd \in hup)
    BY DEF Event, Open
  <2>3. [of |-> Listen] \in Event /\ [of |-> Notify] \in Event
        /\ [of |-> Listen].of = Listen /\ [of |-> Notify].of = Notify
    BY DEF Event
  <2>4. Listen \notin Fd /\ Notify \notin Fd /\ Listen # Notify
    BY Distinguished
  <2> HIDE DEF Con, F
  <2> DEFINE L == [of |-> Listen]
             N == [of |-> Notify]
  <2>5. L \in Event /\ N \in Event /\ L.of = Listen /\ N.of = Notify
    BY <2>3
  <2>6. \A e \in Ready : e = L \/ e = N \/ \E fd \in F : e = Con(fd)
    BY <2>1
  <2> HIDE DEF L, N
  <2>7. Ready \subseteq Event
    BY <2>2, <2>5, <2>6
  <2>8. \A e \in Ready : e.of \in Fd => e.of \in F /\ e = Con(e.of)
    BY <2>2, <2>4, <2>5, <2>6
  <2>9. \A e, f \in Ready : e.of = f.of => e = f
    <3> SUFFICES ASSUME NEW e \in Ready, NEW f \in Ready, e.of = f.of
                 PROVE  e = f
      OBVIOUS
    <3>1. CASE e.of \in Fd
      <4>1. e = Con(e.of) /\ f = Con(f.of)
        BY <2>8, <3>1
      <4> QED BY <4>1
    <3>2. CASE e.of \notin Fd
      BY <2>2, <2>4, <2>5, <2>6, <3>2
    <3> QED BY <3>1, <3>2
  <2>10. \A e \in Ready : e.of \in Fd =>
            e.of \in Open /\ (e.in => e.of \in unread) /\ (e.hup => e.of \in hup)
    <3> SUFFICES ASSUME NEW e \in Ready, e.of \in Fd
                 PROVE  e.of \in Open /\ (e.in => e.of \in unread) /\ (e.hup => e.of \in hup)
      OBVIOUS
    <3>1. e.of \in F /\ e = Con(e.of)
      BY <2>8
    <3>2. e.in = (e.of \in unread) /\ e.hup = (e.of \in hup) /\ e.of \in Open
      BY <2>2, <3>1
    <3> QED BY <3>2
  <2> QED BY <2>7, <2>9, <2>10
<1>3. Tables' /\ ArmedIffPending'
  BY <1>1 DEF RInv, Tables, ArmedIffPending, Open
<1>4. Batch'
  BY <1>1, <1>2 DEF Batch, Open
<1> QED BY <1>3, <1>4 DEF RInv

LEMMA AcceptOk ==
  ASSUME ReactorAssumption, RInv, BeginAccept \/ EndAccept  PROVE RInv'
<1>1. /\ events' \subseteq events
      /\ UNCHANGED <<conn, outbound, armed, responses, counter, pool, task,
                     unread, awaiting, hup, conns>>
  BY DEF BeginAccept, EndAccept, serverVars, replyVars, taskVars, clientVars
<1> QED BY <1>1 DEF RInv, Tables, Batch, ArmedIffPending, Open

LEMMA AcceptOneOk ==
  ASSUME RInv, NEW fd \in Fd, AcceptOne(fd)
  PROVE  RInv' /\ \A g \in Open : conn'[g] = conn[g]
<1>1. /\ conn[fd] = 0 /\ conns' = conns + 1 /\ conn' = [conn EXCEPT ![fd] = conns + 1]
      /\ UNCHANGED <<events, outbound, armed, responses, counter, pool, task,
                     unread, awaiting, hup>>
  BY DEF AcceptOne, replyVars, taskVars
<1>2. /\ conn' \in [Fd -> Nat] /\ conns' \in Nat /\ \A g \in Fd : conn'[g] <= conns'
      /\ Open' = Open \cup {fd} /\ \A g \in Open : conn'[g] = conn[g]
  BY <1>1 DEF RInv, Tables, Open
<1>3. \A g \in Fd : conn'[g] = 0 => conn[g] = 0
  BY <1>1 DEF RInv, Tables
<1>4. Tables'
  BY <1>1, <1>2, <1>3 DEF RInv, Tables
<1>5. Batch'
  BY <1>1, <1>2 DEF RInv, Batch
<1>6. ArmedIffPending'
  BY <1>1 DEF RInv, ArmedIffPending
<1> QED BY <1>2, <1>4, <1>5, <1>6 DEF RInv

LEMMA DrainOk == ASSUME RInv, DrainAsyncQueue  PROVE RInv'
<1>1. /\ responses' = <<>>
      /\ outbound' = [fd \in Fd |-> IF conn[fd] # 0 THEN outbound[fd] \o Addressed(fd)
                                    ELSE outbound[fd]]
      /\ armed' = armed \cup {fd \in Open : Addressed(fd) # <<>>}
      /\ UNCHANGED <<events, conn, counter, pool, task, unread, awaiting, hup, conns>>
  BY DEF DrainAsyncQueue, taskVars, clientVars
<1>2. \A fd \in Fd : Addressed(fd) \in Seq(Nat)
  BY AddressedOk DEF RInv, Tables
<1>3. ASSUME NEW fd \in Fd
      PROVE  /\ outbound'[fd] \in Seq(Nat)
             /\ fd \in armed' <=> outbound'[fd] # <<>>
             /\ conn[fd] = 0 => outbound'[fd] = <<>>
  <2>1. outbound[fd] \in Seq(Nat) /\ (fd \in armed <=> outbound[fd] # <<>>)
        /\ (conn[fd] = 0 => outbound[fd] = <<>>) /\ conn[fd] \in Nat
    BY DEF RInv, Tables, ArmedIffPending
  <2>2. CASE conn[fd] = 0
    <3>1. fd \notin Open
      BY <2>2 DEF Open
    <3> QED BY <1>1, <2>1, <2>2, <3>1
  <2>3. CASE conn[fd] # 0
    <3> DEFINE a == Addressed(fd)
               o == outbound[fd]
    <3>1. fd \in Open /\ outbound'[fd] = o \o a /\ a \in Seq(Nat)
      BY <1>1, <1>2, <2>3 DEF Open
    <3>2. fd \in armed' <=> fd \in armed \/ a # <<>>
      BY <1>1, <3>1
    <3> HIDE DEF a, o
    <3>3. o \in Seq(Nat) /\ (fd \in armed <=> o # <<>>)
      BY <2>1 DEF o
    <3>4. o \o a \in Seq(Nat) /\ (o \o a = <<>> <=> o = <<>> /\ a = <<>>)
      BY <3>1, <3>3
    <3> QED BY <2>3, <3>1, <3>2, <3>3, <3>4
  <2> QED BY <2>2, <2>3
<1>4. outbound' \in [Fd -> Seq(Nat)] /\ armed' \subseteq Fd
  BY <1>1, <1>3 DEF RInv, Tables, Open
<1>5. Tables'
  BY <1>1, <1>3, <1>4 DEF RInv, Tables, Open
<1>6. Batch' /\ ArmedIffPending'
  BY <1>1, <1>3 DEF RInv, Batch, ArmedIffPending, Open
<1> QED BY <1>5, <1>6 DEF RInv

LEMMA ReadEventfdOk == ASSUME RInv, ReadEventfd  PROVE RInv'
<1>1. /\ events' \subseteq events /\ counter' = 0
      /\ UNCHANGED <<conn, outbound, armed, responses, pool, task,
                     unread, awaiting, hup, conns>>
  BY DEF ReadEventfd, serverVars, replyVars, taskVars, clientVars
<1> QED BY <1>1 DEF RInv, Tables, Batch, ArmedIffPending, Open

(* An event of the batch is handled: no other is about its descriptor.     *)
LEMMA EventOk ==
  ASSUME ReactorAssumption, RInv, NEW e \in events, NextOfQueue(e)
  PROVE  /\ e.of \in Fd /\ e.of \in Open /\ conn[e.of] \in Nat \ {0}
         /\ (e.in => e.of \in unread) /\ (e.hup => e.of \in hup)
         /\ events' = events \ {e} /\ \A f \in events' : f.of # e.of
         /\ Wakeup \notin events /\ rpc = "loop"
<1>1. e.of \in Fd /\ Wakeup.of = Notify /\ events' = events \ {e}
  BY DEF NextOfQueue, Wakeup
<1> QED BY <1>1, Distinguished DEF NextOfQueue, RInv, Batch, Tables, Open

LEMMA CloseOk ==
  ASSUME ReactorAssumption, RInv, NEW e \in events, CloseConnection(e)
  PROVE  RInv'
<1> DEFINE fd == e.of
<1>1. /\ fd \in Fd /\ fd \in Open
      /\ events' = events \ {e} /\ \A f \in events' : f.of # fd
  BY EventOk DEF CloseConnection
<1>2. /\ conn' = [conn EXCEPT ![fd] = 0] /\ outbound' = [outbound EXCEPT ![fd] = <<>>]
      /\ armed' = armed \ {fd} /\ unread' = unread \ {fd}
      /\ awaiting' = awaiting \ {fd} /\ hup' = hup \ {fd}
      /\ UNCHANGED <<responses, counter, pool, task, conns>>
  BY DEF CloseConnection, Without, replyVars, taskVars
<1>3. /\ conn' \in [Fd -> Nat] /\ outbound' \in [Fd -> Seq(Nat)]
      /\ conn'[fd] = 0 /\ outbound'[fd] = <<>>
      /\ \A g \in Fd \ {fd} : conn'[g] = conn[g] /\ outbound'[g] = outbound[g]
      /\ Open' = Open \ {fd}
  <2> HIDE DEF fd
  <2>1. conn \in [Fd -> Nat] /\ outbound \in [Fd -> Seq(Nat)] /\ <<>> \in Seq(Nat)
    BY DEF RInv, Tables
  <2>2. /\ conn' \in [Fd -> Nat] /\ conn'[fd] = 0
        /\ \A g \in Fd \ {fd} : conn'[g] = conn[g]
    BY <1>1, <1>2, <2>1
  <2>3. /\ outbound' \in [Fd -> Seq(Nat)] /\ outbound'[fd] = <<>>
        /\ \A g \in Fd \ {fd} : outbound'[g] = outbound[g]
    BY <1>1, <1>2, <2>1
  <2>4. Open' = Open \ {fd}
    BY <1>1, <2>2 DEF Open
  <2> QED BY <2>2, <2>3, <2>4
<1> HIDE DEF fd
<1>4. \A g \in Fd : conn'[g] <= conns
  <2>1. conns \in Nat /\ \A g \in Fd : conn[g] <= conns
    BY DEF RInv, Tables
  <2>2. 0 <= conns
    BY <2>1
  <2>3. \A g \in Fd : conn'[g] = 0 \/ conn'[g] = conn[g]
    BY <1>3
  <2> QED BY <2>1, <2>2, <2>3
<1>5. Tables'
  BY <1>1, <1>2, <1>3, <1>4 DEF RInv, Tables
<1>6. Batch'
  BY <1>1, <1>2, <1>3 DEF RInv, Batch
<1>7. ArmedIffPending'
  BY <1>1, <1>2, <1>3 DEF RInv, ArmedIffPending
<1> QED BY <1>5, <1>6, <1>7 DEF RInv

(* The rest of an event: a request taken, and what EPOLLOUT allows.        *)
LEMMA HandledOk ==
  ASSUME ReactorAssumption, RInv, NEW e \in events, NextOfQueue(e), Flush(e),
         unread' \in {unread, unread \ {e.of}},
         responses' \in Seq(Reply), pool' \in Seq(Reply), counter' \in Nat,
         UNCHANGED <<conn, task, hup, conns>>
  PROVE  RInv'
<1> DEFINE fd == e.of
<1>1. /\ fd \in Fd /\ fd \in Open /\ conn[fd] # 0
      /\ events' = events \ {e} /\ \A f \in events' : f.of # fd
  BY EventOk
<1>2. /\ outbound' \in [Fd -> Seq(Nat)] /\ armed' \subseteq Fd /\ ArmedIffPending'
      /\ \A g \in Fd \ {fd} : outbound'[g] = outbound[g]
      /\ awaiting' = IF Len(outbound'[fd]) < Len(outbound[fd]) THEN awaiting \ {fd}
                     ELSE awaiting
  BY <1>1, FlushOk DEF RInv
<1> HIDE DEF fd
<1>3. Tables'
  BY <1>1, <1>2 DEF RInv, Tables, Open, fd
<1>4. Batch'
  BY <1>1 DEF RInv, Batch, Open, fd
<1> QED BY <1>2, <1>3, <1>4 DEF RInv

LEMMA RequestOk ==
  ASSUME ReactorAssumption, RInv, NEW e \in events,
         AnswerRequest(e) \/ SubmitTask(e) \/ WriteOnly(e)
  PROVE  RInv'
<1> DEFINE fd == e.of
           r(by) == ToClient(fd, by)
<1>1. NextOfQueue(e) /\ Flush(e) /\ UNCHANGED <<conn, task, hup, conns>>
  BY DEF AnswerRequest, SubmitTask, WriteOnly, taskVars
<1>2. r("reactor") \in Reply /\ r("task") \in Reply
  BY <1>1, EventOk DEF ToClient, Reply
<1>3. responses \in Seq(Reply) /\ pool \in Seq(Reply) /\ counter \in Nat
  BY DEF RInv, Tables
<1>4. Append(responses, r("reactor")) \in Seq(Reply) /\ Append(pool, r("task")) \in Seq(Reply)
      /\ counter + 1 \in Nat
  BY <1>2, <1>3, AppendProperties
<1> HIDE DEF r
<1>5. responses' \in Seq(Reply) /\ pool' \in Seq(Reply) /\ counter' \in Nat
      /\ unread' \in {unread, unread \ {fd}}
  <2>1. CASE AnswerRequest(e)
    BY <1>3, <1>4, <2>1 DEF AnswerRequest, ScheduleResponse, taskVars, r
  <2>2. CASE SubmitTask(e)
    BY <1>3, <1>4, <2>2 DEF SubmitTask, replyVars, r
  <2>3. CASE WriteOnly(e)
    BY <1>3, <2>3 DEF WriteOnly, replyVars, taskVars
  <2> QED BY <2>1, <2>2, <2>3
<1> QED BY <1>1, <1>5, HandledOk

LEMMA TakeTaskOk ==
  ASSUME RInv, NEW w \in Worker, TakeTask(w)
  PROVE  /\ RInv' /\ Len(pool) \in Nat \ {0} /\ Len(pool') = Len(pool) - 1
         /\ task' = [task EXCEPT ![w] = pool[1]]
         /\ pool[1] \in Reply
         /\ \A i \in 1..Len(pool') : pool'[i] = pool[i + 1]
<1>1. pool \in Seq(Reply) /\ pool # <<>> /\ pool' = Tail(pool)
      /\ task' = [task EXCEPT ![w] = Head(pool)]
      /\ UNCHANGED <<events, conn, outbound, armed, responses, counter, unread,
                     awaiting, hup, conns>>
  BY DEF TakeTask, RInv, Tables, serverVars, replyVars, clientVars
<1>2. /\ Head(pool) \in Reply /\ Head(pool) = pool[1] /\ Tail(pool) \in Seq(Reply)
      /\ Len(pool) \in Nat \ {0} /\ Len(Tail(pool)) = Len(pool) - 1
      /\ \A i \in 1..Len(Tail(pool)) : Tail(pool)[i] = pool[i + 1]
  BY <1>1, HeadTailProperties
<1>3. Tables'
  BY <1>1, <1>2 DEF RInv, Tables, Open
<1>4. Batch' /\ ArmedIffPending'
  BY <1>1 DEF RInv, Batch, ArmedIffPending, Open
<1> QED BY <1>1, <1>2, <1>3, <1>4 DEF RInv

LEMMA FinishTaskOk ==
  ASSUME RInv, NEW w \in Worker, FinishTask(w)
  PROVE  RInv' /\ task[w] \in Reply
<1>1. /\ task[w] # NoTask /\ responses' = Append(responses, task[w])
      /\ counter' = counter + 1 /\ task' = [task EXCEPT ![w] = NoTask]
      /\ UNCHANGED <<events, conn, outbound, armed, pool, unread, awaiting, hup, conns>>
  BY DEF FinishTask, ScheduleResponse, serverVars, clientVars
<1>2. task[w] \in Reply /\ responses \in Seq(Reply)
  BY <1>1 DEF RInv, Tables
<1>3. responses' \in Seq(Reply)
  BY <1>1, <1>2, AppendProperties
<1>4. Tables'
  BY <1>1, <1>3 DEF RInv, Tables, Open
<1>5. Batch' /\ ArmedIffPending'
  BY <1>1 DEF RInv, Batch, ArmedIffPending, Open
<1> QED BY <1>2, <1>4, <1>5 DEF RInv

LEMMA ClientOk ==
  ASSUME RInv, Connect \/ \E fd \in Fd : Request(fd) \/ HangUp(fd)
  PROVE  RInv'
<1>1. CASE Connect
  BY <1>1 DEF Connect, serverVars, replyVars, taskVars, RInv, Tables, Batch,
     ArmedIffPending, Open
<1>2. ASSUME NEW fd \in Fd, Request(fd)  PROVE RInv'
  BY <1>2 DEF Request, serverVars, replyVars, taskVars, RInv, Tables, Batch,
     ArmedIffPending, Open
<1>3. ASSUME NEW fd \in Fd, HangUp(fd)  PROVE RInv'
  BY <1>3 DEF HangUp, serverVars, replyVars, taskVars, RInv, Tables, Batch,
     ArmedIffPending, Open
<1> QED BY <1>1, <1>2, <1>3

LEMMA RInvInit == Init => RInv
<1> SUFFICES ASSUME Init  PROVE RInv
  OBVIOUS
<1>1. Tables
  BY DEF Init, Tables, Open
<1> QED BY <1>1 DEF Init, RInv, Batch, ArmedIffPending, Open

LEMMA RInvNext == ASSUME ReactorAssumption, RInv, [Next]_vars  PROVE RInv'
<1>1. CASE ReactorStep
  BY <1>1, EpollWaitOk, AcceptOk, AcceptOneOk, DrainOk, ReadEventfdOk, CloseOk,
     RequestOk DEF ReactorStep
<1>2. CASE \E w \in Worker : WorkerStep(w)
  BY <1>2, TakeTaskOk, FinishTaskOk DEF WorkerStep
<1>3. CASE ClientStep
  BY <1>3, ClientOk DEF ClientStep
<1>4. CASE UNCHANGED vars
  BY <1>4 DEF vars, serverVars, replyVars, taskVars, clientVars, RInv,
     Tables, Batch, ArmedIffPending, Open
<1> QED BY <1>1, <1>2, <1>3, <1>4 DEF Next

(* ArmedIffPending: a connection has EPOLLOUT exactly while its buffer is  *)
(* not empty (drain_async_queue, the end of the sends in handle_fd_event,  *)
(* close_connection), whatever the clients do.                             *)
THEOREM ReactorArmed ==
  ASSUME ReactorAssumption  PROVE Spec => []ArmedIffPending
<1> USE ReactorAssumption
<1>1. RInv /\ [Next]_vars => RInv'
  BY RInvNext
<1>2. RInv => ArmedIffPending
  BY DEF RInv
<1> QED BY <1>1, <1>2, RInvInit, PTL DEF Spec

-----------------------------------------------------------------------------
(* When the clients wait for their commits *)

LEMMA Members ==
  ASSUME RInv
  PROVE  /\ \A i \in 1..Len(responses) : responses[i] \in Reply
         /\ \A i \in 1..Len(pool) : pool[i] \in Reply
         /\ \A w \in Worker : task[w] # NoTask => task[w] \in Reply
         /\ Len(responses) \in Nat /\ Len(pool) \in Nat
BY DEF RInv, Tables

(* A reply that is on its way has an open connection.                      *)
LEMMA Standing ==
  ASSUME RInv, Current
  PROVE  /\ \A i \in 1..Len(responses) : conn[responses[i].fd] = responses[i].conn
         /\ \A fd \in Fd : Queued(responses, fd) # {} => conn[fd] # 0
         /\ \A fd \in Fd : Queued(pool, fd) # {} => conn[fd] # 0 /\ fd \notin hup
         /\ \A fd \in Fd : AtWork(task, fd) # {} => conn[fd] # 0 /\ fd \notin hup
BY Members DEF Current, Stays, Handed, Queued, AtWork, Reply

LEMMA Same ==
  ASSUME PInv, Current',
         UNCHANGED <<conn, outbound, responses, pool, task, unread, awaiting>>
  PROVE  PInv'
<1>1. RightConnection'
  BY DEF PInv, RightConnection
<1>2. OnePlace'
  BY DEF PInv, OnePlace, Queued, AtWork
<1> QED BY <1>1, <1>2 DEF PInv

LEMMA EpollWaitCurrent == ASSUME RInv, PInv, EpollWait  PROVE PInv'
<1>1. /\ events' = Ready
      /\ UNCHANGED <<rpc, conn, outbound, armed, responses, counter, pool, task,
                     backlog, unread, awaiting, hup, conns, requests>>
  BY DEF EpollWait, serverVars, replyVars, taskVars, clientVars
<1>2. counter > 0 => Wakeup \in Ready
  BY DEF Ready, Wakeup
<1>3. Current'
  BY <1>1, <1>2 DEF PInv, Current, Stays, Handed
<1> QED BY <1>1, <1>3, Same

LEMMA AcceptCurrent ==
  ASSUME ReactorAssumption, RInv, PInv, BeginAccept \/ EndAccept
  PROVE  PInv'
<1>1. /\ events' \subseteq events /\ (Wakeup \in events => Wakeup \in events')
      /\ rpc' # "read"
      /\ UNCHANGED <<conn, outbound, armed, responses, counter, pool, task,
                     unread, awaiting, hup, conns>>
  <2>1. Wakeup # [of |-> Listen]
    <3>1. Wakeup.of = Notify /\ [of |-> Listen].of = Listen
      BY DEF Wakeup
    <3> QED BY <3>1, Distinguished
  <2> QED BY <2>1 DEF BeginAccept, EndAccept, serverVars, replyVars,
          taskVars, clientVars
<1>2. Current'
  BY <1>1 DEF PInv, Current, Stays, Handed
<1> QED BY <1>1, <1>2, Same

LEMMA AcceptOneCurrent ==
  ASSUME RInv, PInv, NEW fd \in Fd, AcceptOne(fd)
  PROVE  PInv'
<1>1. /\ conn[fd] = 0 /\ conn' = [conn EXCEPT ![fd] = conns + 1]
      /\ UNCHANGED <<rpc, events, outbound, armed, responses, counter, pool, task,
                     unread, awaiting, hup>>
  BY DEF AcceptOne, replyVars, taskVars
<1>2. \A g \in Fd : conn[g] # 0 => conn'[g] = conn[g]
  BY <1>1 DEF RInv, Tables
<1>3. /\ \A i \in 1..Len(responses) : conn[responses[i].fd] = responses[i].conn =>
           conn'[responses[i].fd] = responses[i].conn
      /\ \A i \in 1..Len(pool) : conn[pool[i].fd] = pool[i].conn =>
           conn'[pool[i].fd] = pool[i].conn
      /\ \A w \in Worker : task[w] # NoTask /\ conn[task[w].fd] = task[w].conn =>
           conn'[task[w].fd] = task[w].conn
  BY <1>2, Members DEF Reply
<1>4. Current'
  BY <1>1, <1>3 DEF PInv, Current, Stays, Handed
<1>5. RightConnection'
  <2>1. outbound[fd] = <<>>
    BY <1>1 DEF RInv, Tables
  <2>2. \A g \in Fd : g # fd => conn'[g] = conn[g]
    BY <1>1 DEF RInv, Tables
  <2>3. DOMAIN <<>> = {}
    OBVIOUS
  <2> QED BY <1>1, <2>1, <2>2, <2>3 DEF PInv, RightConnection
<1>6. OnePlace'
  BY <1>1 DEF PInv, OnePlace
<1> QED BY <1>4, <1>5, <1>6 DEF PInv

LEMMA ReadCurrent == ASSUME RInv, PInv, ReadEventfd  PROVE PInv'
<1>1. /\ rpc = "read"
      /\ UNCHANGED <<conn, outbound, armed, responses, pool, task,
                     unread, awaiting, hup, conns>>
  BY DEF ReadEventfd, serverVars, replyVars, taskVars, clientVars
<1>2. Current'
  BY <1>1 DEF PInv, Current, Stays, Handed
<1> QED BY <1>1, <1>2, Same

LEMMA DrainCurrent == ASSUME RInv, PInv, DrainAsyncQueue  PROVE PInv'
<1>1. /\ responses' = <<>>
      /\ outbound' = [fd \in Fd |-> IF conn[fd] # 0 THEN outbound[fd] \o Addressed(fd)
                                    ELSE outbound[fd]]
      /\ UNCHANGED <<events, conn, counter, pool, task, unread, awaiting, hup, conns>>
  BY DEF DrainAsyncQueue, taskVars, clientVars
<1>2. Len(responses') = 0 /\ Current
  BY <1>1 DEF PInv
<1>3. Current'
  BY <1>1, <1>2 DEF Current, Stays
<1>4. ASSUME NEW fd \in Fd
      PROVE  /\ \A x \in 1..Len(outbound'[fd]) : outbound'[fd][x] = conn[fd]
             /\ outbound'[fd] \in Seq(Nat)
             /\ Place({}, Queued(pool, fd), AtWork(task, fd),
                      outbound'[fd], fd \in unread, fd \in awaiting)
  <2> DEFINE A == Queued(responses, fd)
             a == Addressed(fd)
             o == outbound[fd]
  <2>1. /\ a \in Seq(Nat) /\ (a = <<>> <=> A = {}) /\ (AtMostOne(A) => Len(a) <= 1)
        /\ \A x \in 1..Len(a) : \E i \in A : a[x] = responses[i].conn
    BY AddressedOk DEF RInv, Tables
  <2>2. A # {} => conn[fd] # 0
    BY <1>2, Standing
  <2>3. \A i \in A : responses[i].conn = conn[fd]
    BY <1>2, Standing DEF Queued
  <2>4. /\ o \in Seq(Nat) /\ \A x \in 1..Len(o) : o[x] = conn[fd]
        /\ Place(A, Queued(pool, fd), AtWork(task, fd), o, fd \in unread, fd \in awaiting)
    BY DEF PInv, RightConnection, OnePlace, RInv, Tables
  <2>5. outbound'[fd] = IF conn[fd] # 0 THEN o \o a ELSE o
    BY <1>1
  <2> HIDE DEF A, a, o
  <2>6. CASE A = {}
    <3>1. o \o a = o
      BY <2>1, <2>4, <2>6
    <3> QED BY <2>4, <2>5, <2>6, <3>1
  <2>7. CASE A # {}
    <3>1. o = <<>> /\ Len(a) <= 1
      BY <2>1, <2>4, <2>7 DEF Place
    <3>2. outbound'[fd] = a
      BY <2>1, <2>2, <2>5, <2>7, <3>1
    <3>3. \A x \in 1..Len(a) : a[x] = conn[fd]
      BY <2>1, <2>3
    <3>4. Place({}, Queued(pool, fd), AtWork(task, fd), a, fd \in unread, fd \in awaiting)
      BY <2>1, <2>4, <2>7, <3>1 DEF Place, AtMostOne
    <3> QED BY <2>1, <3>2, <3>3, <3>4
  <2> QED BY <2>6, <2>7
<1>5. \A fd \in Fd : Queued(responses', fd) = {}
  BY <1>2 DEF Queued
<1>6. OnePlace'
  BY <1>1, <1>4, <1>5 DEF OnePlace
<1>7. RightConnection'
  BY <1>1, <1>4 DEF RightConnection
<1> QED BY <1>3, <1>6, <1>7 DEF PInv

(* No reply of the reactor is for a connection whose event is in a batch   *)
(* that has come to its connections.                                       *)
LEMMA NoneOwn ==
  ASSUME ReactorAssumption, RInv, PInv, NEW e \in events, NextOfQueue(e)
  PROVE  /\ \A i \in 1..Len(responses) : responses[i].by # "task" =>
              \A f \in events : f.of # responses[i].fd
         /\ e.of \in hup => /\ Queued(responses, e.of) = {} /\ Queued(pool, e.of) = {}
                            /\ AtWork(task, e.of) = {}
<1>1. Wakeup \notin events
  BY EventOk
<1>2. \A i \in 1..Len(responses) : responses[i].by # "task" =>
        \A f \in events : f.of # responses[i].fd
  BY <1>1 DEF PInv, Current, Handed
<1>3. e.of \in hup => Queued(responses, e.of) = {}
  BY <1>2 DEF PInv, Current, Stays, Queued
<1>4. e.of \in hup => Queued(pool, e.of) = {} /\ AtWork(task, e.of) = {}
  BY DEF PInv, Current, Stays, Queued, AtWork
<1> QED BY <1>2, <1>3, <1>4

LEMMA CloseCurrent ==
  ASSUME ReactorAssumption, RInv, PInv, NEW e \in events, CloseConnection(e)
  PROVE  PInv'
<1> DEFINE fd == e.of
<1>1. /\ fd \in Fd /\ events' = events \ {e} /\ fd \in hup /\ rpc = "loop"
      /\ NextOfQueue(e)
  BY EventOk DEF CloseConnection
<1>2. /\ conn' = [conn EXCEPT ![fd] = 0] /\ outbound' = [outbound EXCEPT ![fd] = <<>>]
      /\ unread' = unread \ {fd} /\ awaiting' = awaiting \ {fd} /\ hup' = hup \ {fd}
      /\ UNCHANGED <<rpc, responses, counter, pool, task, conns>>
  BY DEF CloseConnection, Without, replyVars, taskVars
<1>3. /\ Queued(responses, fd) = {} /\ Queued(pool, fd) = {} /\ AtWork(task, fd) = {}
      /\ \A i \in 1..Len(responses) : responses[i].by # "task" =>
           \A f \in events : f.of # responses[i].fd
  BY <1>1, NoneOwn
<1>4. \A g \in Fd : g # fd => conn'[g] = conn[g] /\ outbound'[g] = outbound[g]
  BY <1>2 DEF RInv, Tables
<1>5. outbound'[fd] = <<>>
  BY <1>1, <1>2 DEF RInv, Tables
<1> HIDE DEF fd
<1>6. Current'
  <2>1. \A i \in 1..Len(responses) : responses[i].fd # fd /\ responses[i].fd \in Fd
    BY <1>3, Members DEF Queued, Reply
  <2>2. \A i \in 1..Len(pool) : pool[i].fd # fd /\ pool[i].fd \in Fd
    BY <1>3, Members DEF Queued, Reply
  <2>3. \A w \in Worker : task[w] # NoTask => task[w].fd # fd /\ task[w].fd \in Fd
    BY <1>3, Members DEF AtWork, Reply
  <2>4. \A i \in 1..Len(responses) :
          IF responses[i].by = "task" THEN Stays(responses[i])'
          ELSE Handed(responses[i])'
    BY <1>1, <1>2, <1>3, <1>4, <2>1 DEF PInv, Current, Stays, Handed
  <2>5. \A i \in 1..Len(pool) : pool[i].by = "task" /\ Stays(pool[i])'
    BY <1>2, <1>4, <2>2 DEF PInv, Current, Stays
  <2>6. \A w \in Worker : task[w] # NoTask => task[w].by = "task" /\ Stays(task[w])'
    BY <1>2, <1>4, <2>3 DEF PInv, Current, Stays
  <2> QED BY <1>2, <2>4, <2>5, <2>6 DEF Current
<1>7. RightConnection'
  <2>1. DOMAIN <<>> = {}
    OBVIOUS
  <2> QED BY <1>4, <1>5, <2>1 DEF PInv, RightConnection
<1>8. OnePlace'
  <2>1. Len(<<>>) = 0
    OBVIOUS
  <2>2. Place({}, {}, {}, <<>>, FALSE, FALSE)
    BY <2>1 DEF Place, AtMostOne
  <2>3. Place(Queued(responses, fd), Queued(pool, fd), AtWork(task, fd),
              outbound'[fd], fd \in unread', fd \in awaiting')
    BY <1>2, <1>3, <1>5, <2>1 DEF Place, AtMostOne
  <2>4. \A g \in Fd : g # fd =>
          Place(Queued(responses, g), Queued(pool, g), AtWork(task, g),
                outbound'[g], g \in unread', g \in awaiting')
    <3> SUFFICES ASSUME NEW g \in Fd, g # fd
                 PROVE  Place(Queued(responses, g), Queued(pool, g), AtWork(task, g),
                              outbound'[g], g \in unread', g \in awaiting')
      OBVIOUS
    <3>1. Place(Queued(responses, g), Queued(pool, g), AtWork(task, g),
                outbound[g], g \in unread, g \in awaiting)
      BY DEF PInv, OnePlace
    <3> QED BY <1>2, <1>4, <3>1 DEF Place
  <2> QED BY <1>2, <2>3, <2>4 DEF OnePlace
<1> QED BY <1>6, <1>7, <1>8 DEF PInv

(* Queues one longer.                                                      *)
LEMMA OneLonger ==
  ASSUME NEW q \in Seq(Reply), NEW r \in Reply
  PROVE  /\ Append(q, r) \in Seq(Reply) /\ Len(Append(q, r)) = Len(q) + 1
         /\ \A i \in 1..Len(q) : Append(q, r)[i] = q[i]
         /\ Append(q, r)[Len(q) + 1] = r
         /\ Queued(Append(q, r), r.fd) = Queued(q, r.fd) \cup {Len(q) + 1}
         /\ \A fd : fd # r.fd => Queued(Append(q, r), fd) = Queued(q, fd)
<1>1. /\ Append(q, r) \in Seq(Reply) /\ Len(Append(q, r)) = Len(q) + 1
      /\ \A i \in 1..Len(q) : Append(q, r)[i] = q[i]
      /\ Append(q, r)[Len(q) + 1] = r
  BY AppendProperties
<1>2. Len(q) \in Nat /\ \A i : i \in 1..Len(q) + 1 <=> i \in 1..Len(q) \/ i = Len(q) + 1
  OBVIOUS
<1> DEFINE a == Append(q, r)
<1> HIDE DEF a
<1>3. \A fd : Queued(a, fd) = {i \in 1..Len(q) + 1 : a[i].fd = fd}
  BY <1>1 DEF Queued, a
<1>4. \A fd : \A i \in 1..Len(q) : a[i].fd = fd <=> q[i].fd = fd
  BY <1>1 DEF a
<1>5. a[Len(q) + 1] = r /\ Len(q) + 1 \in 1..Len(q) + 1
  BY <1>1, <1>2 DEF a
<1>6. Queued(a, r.fd) = Queued(q, r.fd) \cup {Len(q) + 1}
  BY <1>2, <1>3, <1>4, <1>5 DEF Queued
<1>7. \A fd : fd # r.fd => Queued(a, fd) = Queued(q, fd)
  BY <1>2, <1>3, <1>4, <1>5 DEF Queued
<1> QED BY <1>1, <1>6, <1>7 DEF a

(* What Flush leaves is of the connection, and has its place.              *)
LEMMA FlushPlaces ==
  ASSUME RInv, PInv, NEW e, e.of \in Fd, Flush(e), conn' = conn
  PROVE  /\ RightConnection'
         /\ \A fd \in Fd : fd # e.of => outbound'[fd] = outbound[fd]
                                        /\ (fd \in awaiting' <=> fd \in awaiting)
         /\ outbound[e.of] = <<>> => outbound'[e.of] = <<>>
                                     /\ (e.of \in awaiting' <=> e.of \in awaiting)
         /\ Place(Queued(responses, e.of), Queued(pool, e.of), AtWork(task, e.of),
                  outbound'[e.of], e.of \in unread, e.of \in awaiting')
<1> DEFINE fd == e.of
           o == outbound[fd]
           p == outbound'[fd]
<1>1. /\ outbound' \in [Fd -> Seq(Nat)]
      /\ \A g \in Fd \ {fd} : outbound'[g] = outbound[g]
      /\ Len(p) <= Len(o)
      /\ \A i \in 1..Len(p) : \E k \in 1..Len(o) : p[i] = o[k]
      /\ awaiting' = IF Len(p) < Len(o) THEN awaiting \ {fd} ELSE awaiting
  BY FlushOk DEF RInv
<1>2. o \in Seq(Nat) /\ p \in Seq(Nat) /\ \A k \in 1..Len(o) : o[k] = conn[fd]
  BY <1>1 DEF RInv, Tables, PInv, RightConnection
<1>3. /\ Len(o) \in Nat /\ Len(p) \in Nat /\ (o = <<>> <=> Len(o) = 0)
      /\ (p = <<>> <=> Len(p) = 0)
  BY <1>2
<1>4. Place(Queued(responses, fd), Queued(pool, fd), AtWork(task, fd),
            o, fd \in unread, fd \in awaiting)
  BY DEF PInv, OnePlace
<1>5. RightConnection'
  <2>1. DOMAIN p = 1..Len(p)
    BY <1>2
  <2>2. \A i \in DOMAIN p : p[i] = conn[fd]
    BY <1>1, <1>2, <2>1
  <2> HIDE DEF o, p
  <2>3. \A g \in Fd \ {fd} : \A i \in DOMAIN outbound'[g] : outbound'[g][i] = conn[g]
    BY <1>1 DEF PInv, RightConnection
  <2> QED BY <2>2, <2>3 DEF RightConnection, p
<1> HIDE DEF o, p, fd
<1>6. Place(Queued(responses, fd), Queued(pool, fd), AtWork(task, fd),
            p, fd \in unread, fd \in awaiting')
  BY <1>1, <1>3, <1>4 DEF Place
<1>7. o = <<>> => p = <<>> /\ (fd \in awaiting' <=> fd \in awaiting)
  BY <1>1, <1>3
<1>8. \A g \in Fd : g # fd => outbound'[g] = outbound[g] /\ (g \in awaiting' <=> g \in awaiting)
  BY <1>1
<1> QED BY <1>5, <1>6, <1>7, <1>8 DEF fd, o, p

(* A request taken out of the socket has no other place.                   *)
LEMMA Fresh ==
  ASSUME RInv, PInv, NEW fd \in Fd, fd \in unread
  PROVE  /\ Queued(responses, fd) = {} /\ Queued(pool, fd) = {}
         /\ AtWork(task, fd) = {} /\ outbound[fd] = <<>> /\ fd \in awaiting
BY DEF PInv, OnePlace, Place

LEMMA AnswerCurrent ==
  ASSUME ReactorAssumption, RInv, PInv, NEW e \in events, AnswerRequest(e)
  PROVE  PInv'
<1> DEFINE fd == e.of
<1> SUFFICES ASSUME NEW r, r = ToClient(fd, "reactor")  PROVE PInv'
  OBVIOUS
<1>1. /\ NextOfQueue(e) /\ Flush(e) /\ e.in /\ responses' = Append(responses, r)
      /\ counter' = counter + 1 /\ unread' = unread \ {fd}
      /\ UNCHANGED <<rpc, conn, pool, task, hup>>
  BY DEF AnswerRequest, ScheduleResponse, taskVars
<1>2. /\ fd \in Fd /\ fd \in unread /\ conn[fd] \in Nat \ {0} /\ rpc = "loop"
      /\ events' = events \ {e} /\ \A f \in events' : f.of # fd
  BY <1>1, EventOk
<1>3. r \in Reply /\ r.fd = fd /\ r.conn = conn[fd] /\ r.by = "reactor"
  BY <1>2 DEF ToClient, Reply
<1>4. responses \in Seq(Reply) /\ counter \in Nat /\ Len(responses) \in Nat
  BY DEF RInv, Tables
<1>5. /\ Len(responses') = Len(responses) + 1
      /\ \A i \in 1..Len(responses) : responses'[i] = responses[i]
      /\ responses'[Len(responses) + 1] = r
      /\ Queued(responses', fd) = Queued(responses, fd) \cup {Len(responses) + 1}
      /\ \A g \in Fd : g # fd => Queued(responses', g) = Queued(responses, g)
  <2>1. /\ Len(Append(responses, r)) = Len(responses) + 1
        /\ \A i \in 1..Len(responses) : Append(responses, r)[i] = responses[i]
        /\ Append(responses, r)[Len(responses) + 1] = r
        /\ Queued(Append(responses, r), r.fd) = Queued(responses, r.fd) \cup {Len(responses) + 1}
        /\ \A g : g # r.fd => Queued(Append(responses, r), g) = Queued(responses, g)
    BY <1>3, <1>4, OneLonger
  <2> QED BY <1>1, <1>3, <2>1
<1>6. /\ Queued(responses, fd) = {} /\ Queued(pool, fd) = {}
      /\ AtWork(task, fd) = {} /\ outbound[fd] = <<>> /\ fd \in awaiting
  BY <1>2, Fresh
<1>7. /\ RightConnection'
      /\ \A g \in Fd : g # fd => outbound'[g] = outbound[g]
                                 /\ (g \in awaiting' <=> g \in awaiting)
      /\ outbound'[fd] = <<>> /\ fd \in awaiting'
  BY <1>1, <1>2, <1>6, FlushPlaces
<1>8. \A i \in 1..Len(responses) : responses[i].by # "task" =>
        \A f \in events : f.of # responses[i].fd
  BY <1>1, NoneOwn
<1> HIDE DEF fd
<1>9. Current'
  <2>1. \A i \in 1..Len(responses) :
          IF responses[i].by = "task" THEN Stays(responses[i])'
          ELSE Handed(responses[i])'
    BY <1>1, <1>2, <1>4, <1>5, <1>8 DEF PInv, Current, Stays, Handed
  <2>2. Handed(r)'
    BY <1>1, <1>2, <1>3, <1>4 DEF Handed
  <2>3. \A i \in 1..Len(responses') : i \in 1..Len(responses) \/ i = Len(responses) + 1
    BY <1>4, <1>5
  <2>4. \A i \in 1..Len(responses') :
          (IF responses[i].by = "task" THEN Stays(responses[i])
           ELSE Handed(responses[i]))'
    BY <1>3, <1>5, <2>1, <2>2, <2>3 DEF Stays, Handed
  <2>5. /\ \A i \in 1..Len(pool) : pool[i].by = "task" /\ Stays(pool[i])'
        /\ \A w \in Worker : task[w] # NoTask => task[w].by = "task" /\ Stays(task[w])'
    BY <1>1 DEF PInv, Current, Stays
  <2> QED BY <1>1, <2>4, <2>5 DEF Current
<1>10. OnePlace'
  <2>1. Place(Queued(responses', fd), Queued(pool, fd), AtWork(task, fd),
              outbound'[fd], fd \in unread', fd \in awaiting')
    <3>1. Len(<<>>) = 0
      OBVIOUS
    <3> QED BY <1>1, <1>5, <1>6, <1>7, <3>1 DEF Place, AtMostOne
  <2>2. \A g \in Fd : g # fd =>
          Place(Queued(responses', g), Queued(pool, g), AtWork(task, g),
                outbound'[g], g \in unread', g \in awaiting')
    <3> SUFFICES ASSUME NEW g \in Fd, g # fd
                 PROVE  Place(Queued(responses', g), Queued(pool, g), AtWork(task, g),
                              outbound'[g], g \in unread', g \in awaiting')
      OBVIOUS
    <3>1. Place(Queued(responses, g), Queued(pool, g), AtWork(task, g),
                outbound[g], g \in unread, g \in awaiting)
      BY DEF PInv, OnePlace
    <3> QED BY <1>1, <1>5, <1>7, <3>1 DEF Place
  <2> QED BY <1>1, <2>1, <2>2 DEF OnePlace
<1> QED BY <1>7, <1>9, <1>10 DEF PInv

LEMMA SubmitCurrent ==
  ASSUME ReactorAssumption, RInv, PInv, NEW e \in events, SubmitTask(e)
  PROVE  PInv'
<1> DEFINE fd == e.of
<1> SUFFICES ASSUME NEW r, r = ToClient(fd, "task")  PROVE PInv'
  OBVIOUS
<1>1. /\ NextOfQueue(e) /\ Flush(e) /\ e.in /\ pool' = Append(pool, r)
      /\ unread' = unread \ {fd} /\ fd \notin hup
      /\ UNCHANGED <<rpc, conn, responses, counter, task, hup>>
  BY DEF SubmitTask, replyVars
<1>2. /\ fd \in Fd /\ fd \in unread /\ conn[fd] \in Nat \ {0} /\ rpc = "loop"
      /\ events' = events \ {e} /\ \A f \in events' : f.of # fd
  BY <1>1, EventOk
<1>3. r \in Reply /\ r.fd = fd /\ r.conn = conn[fd] /\ r.by = "task"
  BY <1>2 DEF ToClient, Reply
<1>4. pool \in Seq(Reply) /\ Len(pool) \in Nat
  BY DEF RInv, Tables
<1>5. /\ Len(pool') = Len(pool) + 1
      /\ \A i \in 1..Len(pool) : pool'[i] = pool[i]
      /\ pool'[Len(pool) + 1] = r
      /\ Queued(pool', fd) = Queued(pool, fd) \cup {Len(pool) + 1}
      /\ \A g \in Fd : g # fd => Queued(pool', g) = Queued(pool, g)
  <2>1. /\ Len(Append(pool, r)) = Len(pool) + 1
        /\ \A i \in 1..Len(pool) : Append(pool, r)[i] = pool[i]
        /\ Append(pool, r)[Len(pool) + 1] = r
        /\ Queued(Append(pool, r), r.fd) = Queued(pool, r.fd) \cup {Len(pool) + 1}
        /\ \A g : g # r.fd => Queued(Append(pool, r), g) = Queued(pool, g)
    BY <1>3, <1>4, OneLonger
  <2> QED BY <1>1, <1>3, <2>1
<1>6. /\ Queued(responses, fd) = {} /\ Queued(pool, fd) = {}
      /\ AtWork(task, fd) = {} /\ outbound[fd] = <<>> /\ fd \in awaiting
  BY <1>2, Fresh
<1>7. /\ RightConnection'
      /\ \A g \in Fd : g # fd => outbound'[g] = outbound[g]
                                 /\ (g \in awaiting' <=> g \in awaiting)
      /\ outbound'[fd] = <<>> /\ fd \in awaiting'
  BY <1>1, <1>2, <1>6, FlushPlaces
<1>8. \A i \in 1..Len(responses) : responses[i].by # "task" =>
        \A f \in events : f.of # responses[i].fd
  BY <1>1, NoneOwn
<1> HIDE DEF fd
<1>9. Current'
  <2>1. \A i \in 1..Len(responses) :
          IF responses[i].by = "task" THEN Stays(responses[i])'
          ELSE Handed(responses[i])'
    BY <1>1, <1>2, <1>8 DEF PInv, Current, Stays, Handed
  <2>2. Stays(r)'
    BY <1>1, <1>3 DEF Stays
  <2>3. \A i \in 1..Len(pool') : i \in 1..Len(pool) \/ i = Len(pool) + 1
    BY <1>4, <1>5
  <2>4. \A i \in 1..Len(pool) : pool'[i].by = "task" /\ Stays(pool[i])'
    BY <1>1, <1>5 DEF PInv, Current, Stays
  <2>5. \A i \in 1..Len(pool') : (pool[i].by = "task" /\ Stays(pool[i]))'
    BY <1>3, <1>5, <2>2, <2>3, <2>4 DEF Stays
  <2>6. \A w \in Worker : task[w] # NoTask => task[w].by = "task" /\ Stays(task[w])'
    BY <1>1 DEF PInv, Current, Stays
  <2> QED BY <1>1, <2>1, <2>5, <2>6 DEF Current
<1>10. OnePlace'
  <2>1. Place(Queued(responses, fd), Queued(pool', fd), AtWork(task, fd),
              outbound'[fd], fd \in unread', fd \in awaiting')
    <3>1. Len(<<>>) = 0
      OBVIOUS
    <3> QED BY <1>1, <1>5, <1>6, <1>7, <3>1 DEF Place, AtMostOne
  <2>2. \A g \in Fd : g # fd =>
          Place(Queued(responses, g), Queued(pool', g), AtWork(task, g),
                outbound'[g], g \in unread', g \in awaiting')
    <3> SUFFICES ASSUME NEW g \in Fd, g # fd
                 PROVE  Place(Queued(responses, g), Queued(pool', g), AtWork(task, g),
                              outbound'[g], g \in unread', g \in awaiting')
      OBVIOUS
    <3>1. Place(Queued(responses, g), Queued(pool, g), AtWork(task, g),
                outbound[g], g \in unread, g \in awaiting)
      BY DEF PInv, OnePlace
    <3> QED BY <1>1, <1>5, <1>7, <3>1 DEF Place
  <2> QED BY <1>1, <2>1, <2>2 DEF OnePlace
<1> QED BY <1>7, <1>9, <1>10 DEF PInv

LEMMA WriteCurrent ==
  ASSUME ReactorAssumption, RInv, PInv, NEW e \in events, WriteOnly(e)
  PROVE  PInv'
<1> DEFINE fd == e.of
<1>1. /\ NextOfQueue(e) /\ Flush(e)
      /\ UNCHANGED <<rpc, conn, responses, counter, pool, task, unread, hup>>
  BY DEF WriteOnly, replyVars, taskVars
<1>2. fd \in Fd /\ events' = events \ {e}
  BY <1>1, EventOk
<1>3. /\ RightConnection'
      /\ \A g \in Fd : g # fd => outbound'[g] = outbound[g]
                                 /\ (g \in awaiting' <=> g \in awaiting)
      /\ Place(Queued(responses, fd), Queued(pool, fd), AtWork(task, fd),
               outbound'[fd], fd \in unread, fd \in awaiting')
  BY <1>1, <1>2, FlushPlaces
<1>4. \A i \in 1..Len(responses) : responses[i].by # "task" =>
        \A f \in events : f.of # responses[i].fd
  BY <1>1, NoneOwn
<1>5. Current'
  BY <1>1, <1>2, <1>4 DEF PInv, Current, Stays, Handed
<1>6. OnePlace'
  <2> SUFFICES ASSUME NEW g \in Fd
               PROVE  Place(Queued(responses, g), Queued(pool, g), AtWork(task, g),
                            outbound'[g], g \in unread, g \in awaiting')
    BY <1>1 DEF OnePlace
  <2>1. Place(Queued(responses, g), Queued(pool, g), AtWork(task, g),
              outbound[g], g \in unread, g \in awaiting)
    BY DEF PInv, OnePlace
  <2> HIDE DEF fd
  <2> QED BY <1>3, <2>1 DEF Place
<1> QED BY <1>3, <1>5, <1>6 DEF PInv


LEMMA TakeCurrent ==
  ASSUME RInv, PInv, NEW w \in Worker, TakeTask(w)
  PROVE  PInv'
<1>1. /\ task[w] = NoTask
      /\ UNCHANGED <<rpc, events, conn, outbound, responses, counter, unread,
                     awaiting, hup>>
  BY DEF TakeTask, serverVars, replyVars, clientVars
<1>2. /\ Len(pool) \in Nat \ {0} /\ Len(pool') = Len(pool) - 1
      /\ task' = [task EXCEPT ![w] = pool[1]] /\ pool[1] \in Reply
      /\ \A i \in 1..Len(pool') : pool'[i] = pool[i + 1]
  BY TakeTaskOk
<1>3. /\ task'[w] = pool[1] /\ \A v \in Worker : v # w => task'[v] = task[v]
  BY <1>2 DEF RInv, Tables
<1>4. pool[1] # NoTask
  BY <1>2 DEF Reply, NoTask
<1>5. /\ 1 \in 1..Len(pool) /\ \A i \in 1..Len(pool') : i + 1 \in 1..Len(pool)
      /\ \A i \in 1..Len(pool) : i # 1 => i - 1 \in 1..Len(pool') /\ (i - 1) + 1 = i
      /\ \A i, k \in 1..Len(pool') : i + 1 = k + 1 => i = k
      /\ \A i \in 1..Len(pool') : i + 1 # 1
  BY <1>2
<1>6. Current'
  <2>1. \A i \in 1..Len(responses) :
          IF responses[i].by = "task" THEN Stays(responses[i])' ELSE Handed(responses[i])'
    BY <1>1 DEF PInv, Current, Stays, Handed
  <2>2. \A i \in 1..Len(pool) :
          pool[i].by = "task" /\ conn[pool[i].fd] = pool[i].conn /\ pool[i].fd \notin hup
    BY DEF PInv, Current, Stays
  <2>3. \A i \in 1..Len(pool') : (pool[i].by = "task" /\ Stays(pool[i]))'
    <3> SUFFICES ASSUME NEW i \in 1..Len(pool')
                 PROVE  /\ pool'[i].by = "task" /\ conn[pool'[i].fd] = pool'[i].conn
                        /\ pool'[i].fd \notin hup
      BY <1>1 DEF Stays
    <3>1. i + 1 \in 1..Len(pool) /\ pool'[i] = pool[i + 1]
      BY <1>2, <1>5
    <3> QED BY <2>2, <3>1
  <2>4. \A v \in Worker : task[v] # NoTask =>
          task[v].by = "task" /\ conn[task[v].fd] = task[v].conn /\ task[v].fd \notin hup
    BY DEF PInv, Current, Stays
  <2>5. \A v \in Worker : task'[v] # NoTask => (task[v].by = "task" /\ Stays(task[v]))'
    BY <1>1, <1>3, <1>5, <2>2, <2>4 DEF Stays
  <2> QED BY <1>1, <2>1, <2>3, <2>5 DEF Current, NoTask
<1>7. RightConnection'
  BY <1>1 DEF PInv, RightConnection
<1>8. OnePlace'
  <2> SUFFICES ASSUME NEW fd \in Fd
               PROVE  Place(Queued(responses, fd), Queued(pool', fd), AtWork(task', fd),
                            outbound[fd], fd \in unread, fd \in awaiting)
    BY <1>1 DEF OnePlace
  <2> DEFINE B == Queued(pool, fd)
             C == Queued(pool', fd)
             W == AtWork(task, fd)
             V == AtWork(task', fd)
  <2>1. Place(Queued(responses, fd), B, W, outbound[fd], fd \in unread, fd \in awaiting)
    BY DEF PInv, OnePlace
  <2>2. \A i \in C : i + 1 \in B /\ i + 1 # 1
    BY <1>2, <1>5 DEF Queued
  <2>3. \A i \in B : i # 1 => i - 1 \in C
    BY <1>2, <1>5 DEF Queued
  <2>4. AtMostOne(B) => AtMostOne(C)
    <3>1. \A i, k \in C : i + 1 = k + 1 => i = k
      BY <1>5 DEF Queued
    <3> QED BY <2>2, <3>1 DEF AtMostOne
  <2>5. CASE pool[1].fd = fd
    <3>1. 1 \in B
      BY <1>5, <2>5 DEF Queued
    <3>2. AtMostOne(B) => C = {}
      BY <2>2, <3>1 DEF AtMostOne
    <3>3. V \subseteq W \cup {w} /\ w \in V
      BY <1>3, <1>4, <2>5 DEF AtWork
    <3> HIDE DEF B, C, W, V
    <3>4. Place(Queued(responses, fd), C, V, outbound[fd], fd \in unread, fd \in awaiting)
      BY <2>1, <3>1, <3>2, <3>3 DEF Place, AtMostOne
    <3> QED BY <3>4 DEF C, V
  <2>6. CASE pool[1].fd # fd
    <3>1. 1 \notin B
      BY <2>6 DEF Queued
    <3>2. V = W
      BY <1>1, <1>3, <2>6 DEF AtWork
    <3>3. C = {} <=> B = {}
      BY <2>2, <2>3, <3>1
    <3> HIDE DEF B, C, W, V
    <3>4. Place(Queued(responses, fd), C, V, outbound[fd], fd \in unread, fd \in awaiting)
      BY <2>1, <2>4, <3>2, <3>3 DEF Place
    <3> QED BY <3>4 DEF C, V
  <2> QED BY <2>5, <2>6
<1> QED BY <1>6, <1>7, <1>8 DEF PInv

LEMMA FinishCurrent ==
  ASSUME RInv, PInv, NEW w \in Worker, FinishTask(w)
  PROVE  PInv'
<1>1. /\ task[w] # NoTask /\ responses' = Append(responses, task[w])
      /\ counter' = counter + 1 /\ task' = [task EXCEPT ![w] = NoTask]
      /\ UNCHANGED <<rpc, events, conn, outbound, pool, unread, awaiting, hup>>
  BY DEF FinishTask, ScheduleResponse, serverVars, clientVars
<1> SUFFICES ASSUME NEW r, r = task[w]  PROVE PInv'
  OBVIOUS
<1>2. r \in Reply /\ responses \in Seq(Reply) /\ Len(responses) \in Nat /\ counter \in Nat
  BY FinishTaskOk DEF RInv, Tables
<1>3. /\ Len(responses') = Len(responses) + 1
      /\ \A i \in 1..Len(responses) : responses'[i] = responses[i]
      /\ responses'[Len(responses) + 1] = r
      /\ Queued(responses', r.fd) = Queued(responses, r.fd) \cup {Len(responses) + 1}
      /\ \A g : g # r.fd => Queued(responses', g) = Queued(responses, g)
  <2>1. /\ Len(Append(responses, r)) = Len(responses) + 1
        /\ \A i \in 1..Len(responses) : Append(responses, r)[i] = responses[i]
        /\ Append(responses, r)[Len(responses) + 1] = r
        /\ Queued(Append(responses, r), r.fd)
             = Queued(responses, r.fd) \cup {Len(responses) + 1}
        /\ \A g : g # r.fd => Queued(Append(responses, r), g) = Queued(responses, g)
    BY <1>2, OneLonger
  <2> QED BY <1>1, <2>1
<1>4. /\ task'[w] = NoTask /\ \A v \in Worker : v # w => task'[v] = task[v]
  BY <1>1 DEF RInv, Tables
<1>5. r.by = "task" /\ conn[r.fd] = r.conn /\ r.fd \notin hup
  BY <1>1 DEF PInv, Current, Stays
<1>6. Current'
  <2>1. \A i \in 1..Len(responses) :
          IF responses[i].by = "task" THEN Stays(responses[i])' ELSE Handed(responses[i])'
    BY <1>1, <1>2, <1>3 DEF PInv, Current, Stays, Handed
  <2>2. Stays(r)'
    BY <1>1, <1>5 DEF Stays
  <2>3. \A i \in 1..Len(responses') : i \in 1..Len(responses) \/ i = Len(responses) + 1
    BY <1>2, <1>3
  <2>4. \A i \in 1..Len(responses') :
          (IF responses[i].by = "task" THEN Stays(responses[i])
           ELSE Handed(responses[i]))'
    BY <1>3, <1>5, <2>1, <2>2, <2>3 DEF Stays, Handed
  <2>5. \A i \in 1..Len(pool) : pool[i].by = "task" /\ Stays(pool[i])'
    BY <1>1 DEF PInv, Current, Stays
  <2>6. \A v \in Worker : task[v] # NoTask =>
          task[v].by = "task" /\ conn[task[v].fd] = task[v].conn /\ task[v].fd \notin hup
    BY DEF PInv, Current, Stays
  <2>7. \A v \in Worker : task'[v] # NoTask => (task[v].by = "task" /\ Stays(task[v]))'
    BY <1>1, <1>4, <2>6 DEF Stays
  <2> QED BY <1>1, <2>4, <2>5, <2>7 DEF Current, NoTask
<1>7. RightConnection'
  BY <1>1 DEF PInv, RightConnection
<1>8. OnePlace'
  <2> SUFFICES ASSUME NEW fd \in Fd
               PROVE  Place(Queued(responses', fd), Queued(pool, fd), AtWork(task', fd),
                            outbound[fd], fd \in unread, fd \in awaiting)
    BY <1>1 DEF OnePlace
  <2> DEFINE A == Queued(responses, fd)
             D == Queued(responses', fd)
             W == AtWork(task, fd)
             V == AtWork(task', fd)
  <2>1. Place(A, Queued(pool, fd), W, outbound[fd], fd \in unread, fd \in awaiting)
    BY DEF PInv, OnePlace
  <2>2. V = W \ {w}
    BY <1>4 DEF AtWork
  <2>3. CASE r.fd = fd
    <3>1. w \in W
      BY <1>1, <2>3 DEF AtWork
    <3>2. D = A \cup {Len(responses) + 1}
      BY <1>3, <2>3
    <3> HIDE DEF A, D, W, V
    <3>3. Place(D, Queued(pool, fd), V, outbound[fd], fd \in unread, fd \in awaiting)
      BY <2>1, <2>2, <3>1, <3>2 DEF Place, AtMostOne
    <3> QED BY <3>3 DEF D, V
  <2>4. CASE r.fd # fd
    <3>1. w \notin W /\ D = A
      BY <1>3, <2>4 DEF AtWork
    <3>2. V = W
      BY <2>2, <3>1
    <3> QED BY <2>1, <3>1, <3>2
  <2> QED BY <2>3, <2>4
<1> QED BY <1>6, <1>7, <1>8 DEF PInv

LEMMA RequestCurrent ==
  ASSUME RInv, PInv, NEW fd \in Fd, Request(fd)
  PROVE  PInv'
<1>1. /\ fd \notin awaiting
      /\ unread' = unread \cup {fd} /\ awaiting' = awaiting \cup {fd}
      /\ UNCHANGED <<rpc, events, conn, outbound, responses, counter, pool, task, hup>>
  BY DEF Request, serverVars, replyVars, taskVars
<1>2. Current'
  BY <1>1 DEF PInv, Current, Stays, Handed
<1>3. RightConnection'
  BY <1>1 DEF PInv, RightConnection
<1>4. OnePlace'
  <2> SUFFICES ASSUME NEW g \in Fd
               PROVE  Place(Queued(responses, g), Queued(pool, g), AtWork(task, g),
                            outbound[g], g \in unread', g \in awaiting')
    BY <1>1 DEF OnePlace
  <2>1. Place(Queued(responses, g), Queued(pool, g), AtWork(task, g),
              outbound[g], g \in unread, g \in awaiting)
    BY DEF PInv, OnePlace
  <2>2. CASE g = fd
    BY <1>1, <2>1, <2>2 DEF Place
  <2>3. CASE g # fd
    <3>1. (g \in unread' <=> g \in unread) /\ (g \in awaiting' <=> g \in awaiting)
      BY <1>1, <2>3
    <3> QED BY <2>1, <3>1 DEF Place
  <2> QED BY <2>2, <2>3
<1> QED BY <1>2, <1>3, <1>4 DEF PInv

(* The client that leaves has no task at work and no reply of one queued.  *)
LEMMA HangUpCurrent ==
  ASSUME Impatient = FALSE, RInv, PInv, NEW fd \in Fd, HangUp(fd)
  PROVE  PInv'
<1>1. /\ ~Committing(fd) /\ hup' = hup \cup {fd}
      /\ UNCHANGED <<rpc, events, conn, outbound, responses, counter, pool, task,
                     unread, awaiting>>
  BY DEF HangUp, serverVars, replyVars, taskVars
<1>2. /\ \A i \in 1..Len(responses) : responses[i] \in Range(responses)
      /\ \A i \in 1..Len(pool) : pool[i] \in Range(pool)
      /\ \A w \in Worker : task[w] \in Range(task)
  BY DEF RInv, Tables, Range
<1>3. \A i \in 1..Len(responses) : responses[i].by = "task" => responses[i].fd # fd
  BY <1>1, <1>2 DEF PInv, Current, Stays, Committing, Answers
<1>4. \A i \in 1..Len(pool) : pool[i].fd # fd
  BY <1>1, <1>2 DEF PInv, Current, Stays, Committing, Answers
<1>5. \A w \in Worker : task[w] # NoTask => task[w].fd # fd
  BY <1>1, <1>2 DEF PInv, Current, Stays, Committing, Answers
<1>6. Current'
  BY <1>1, <1>3, <1>4, <1>5 DEF PInv, Current, Stays, Handed
<1> QED BY <1>1, <1>6, Same

LEMMA PInvInit == Init => PInv
<1> SUFFICES ASSUME Init  PROVE PInv
  OBVIOUS
<1>1. /\ responses = <<>> /\ pool = <<>> /\ task = [w \in Worker |-> NoTask]
      /\ outbound = [fd \in Fd |-> <<>>] /\ unread = {} /\ awaiting = {}
  BY DEF Init
<1>2. Len(<<>>) = 0 /\ DOMAIN <<>> = {}
  OBVIOUS
<1>3. Current /\ RightConnection
  BY <1>1, <1>2 DEF Current, RightConnection
<1>4. \A fd \in Fd : /\ Queued(responses, fd) = {} /\ Queued(pool, fd) = {}
                     /\ AtWork(task, fd) = {}
  BY <1>1, <1>2 DEF Queued, AtWork
<1>5. OnePlace
  BY <1>1, <1>2, <1>4 DEF OnePlace, Place, AtMostOne
<1> QED BY <1>3, <1>5 DEF PInv

LEMMA PInvNext ==
  ASSUME ReactorAssumption, Impatient = FALSE, RInv, PInv, [Next]_vars
  PROVE  PInv'
<1>1. CASE ReactorStep
  BY <1>1, EpollWaitCurrent, AcceptCurrent, AcceptOneCurrent, DrainCurrent,
     ReadCurrent, CloseCurrent, AnswerCurrent, SubmitCurrent, WriteCurrent
     DEF ReactorStep
<1>2. CASE \E w \in Worker : WorkerStep(w)
  BY <1>2, TakeCurrent, FinishCurrent DEF WorkerStep
<1>3. CASE Connect
  <2>1. /\ UNCHANGED <<rpc, events, conn, outbound, responses, counter, pool, task,
                       unread, awaiting, hup>>
    BY <1>3 DEF Connect, serverVars, replyVars, taskVars
  <2>2. Current'
    BY <2>1 DEF PInv, Current, Stays, Handed
  <2> QED BY <2>1, <2>2, Same
<1>4. CASE \E fd \in Fd : Request(fd) \/ HangUp(fd)
  BY <1>4, RequestCurrent, HangUpCurrent
<1>5. CASE UNCHANGED vars
  <2>1. UNCHANGED <<rpc, events, conn, outbound, responses, counter, pool, task,
                    unread, awaiting, hup>>
    BY <1>5 DEF vars, serverVars, replyVars, taskVars, clientVars
  <2>2. Current'
    BY <2>1 DEF PInv, Current, Stays, Handed
  <2> QED BY <2>1, <2>2, Same
<1> QED BY <1>1, <1>2, <1>3, <1>4, <1>5 DEF Next, ClientStep

(* Both, of every state, when the clients wait.                            *)
THEOREM Patient ==
  ASSUME ReactorAssumption, Impatient = FALSE
  PROVE  Spec => [](RInv /\ PInv)
<1> USE ReactorAssumption
<1>1. RInv /\ PInv /\ [Next]_vars => RInv' /\ PInv'
  BY RInvNext, PInvNext
<1> QED BY <1>1, RInvInit, PInvInit, PTL DEF Spec

(* RightConnection: what waits in a connection's buffer answers a request  *)
(* of that connection, and not of one that had its descriptor before       *)
(* (drain_async_queue addresses replies by descriptor only), as long as no *)
(* client leaves while a task works for it.                                *)
THEOREM RepliesFindTheirConnection ==
  ASSUME ReactorAssumption, Impatient = FALSE
  PROVE  Spec => []RightConnection
<1>1. RInv /\ PInv => RightConnection
  BY DEF PInv
<1> QED BY <1>1, Patient, PTL

LEMMA Counts ==
  ASSUME NEW S, AtMostOne(S)
  PROVE  Cardinality(S) = IF S = {} THEN 0 ELSE 1
<1>1. CASE S = {}
  BY <1>1, FS_EmptySet
<1>2. CASE S # {}
  <2>1. PICK x : x \in S
    BY <1>2
  <2>2. S = {x}
    BY <2>1 DEF AtMostOne
  <2> QED BY <1>2, <2>2, FS_Singleton
<1> QED BY <1>1, <1>2

(* The replies and the tasks that answer an open connection are those that *)
(* carry its descriptor.                                                   *)
LEMMA OnTheWay ==
  ASSUME RInv, PInv, NEW fd \in Open
  PROVE  /\ {i \in DOMAIN responses : Answers(responses[i], fd)} = Queued(responses, fd)
         /\ {i \in DOMAIN pool : Answers(pool[i], fd)} = Queued(pool, fd)
         /\ {w \in DOMAIN task : Answers(task[w], fd)} = AtWork(task, fd)
<1>1. DOMAIN responses = 1..Len(responses) /\ DOMAIN pool = 1..Len(pool)
      /\ DOMAIN task = Worker
  BY DEF RInv, Tables
<1>2. conn[fd] # 0 /\ NoTask.conn = 0
  BY DEF Open, NoTask
<1>3. {i \in DOMAIN responses : Answers(responses[i], fd)} = Queued(responses, fd)
  BY <1>1, Standing DEF Queued, Answers, PInv
<1>4. {i \in DOMAIN pool : Answers(pool[i], fd)} = Queued(pool, fd)
  BY <1>1 DEF Queued, Answers, PInv, Current, Stays
<1>5. {w \in DOMAIN task : Answers(task[w], fd)} = AtWork(task, fd)
  BY <1>1, <1>2 DEF AtWork, Answers, PInv, Current, Stays
<1> QED BY <1>3, <1>4, <1>5

LEMMA OneReply == ASSUME RInv, PInv  PROVE OneReplyInFlight
<1> SUFFICES ASSUME NEW fd \in Open
             PROVE  Cardinality({i \in DOMAIN responses : Answers(responses[i], fd)})
                    + Cardinality({i \in DOMAIN pool : Answers(pool[i], fd)})
                    + Cardinality({i \in DOMAIN task : Answers(task[i], fd)})
                    + Len(outbound[fd]) + (IF fd \in unread THEN 1 ELSE 0)
                    = (IF fd \in awaiting THEN 1 ELSE 0)
  BY Zenon DEF OneReplyInFlight
<1> DEFINE A == Queued(responses, fd)
           B == Queued(pool, fd)
           W == AtWork(task, fd)
<1>1. /\ Cardinality({i \in DOMAIN responses : Answers(responses[i], fd)}) = Cardinality(A)
      /\ Cardinality({i \in DOMAIN pool : Answers(pool[i], fd)}) = Cardinality(B)
      /\ Cardinality({i \in DOMAIN task : Answers(task[i], fd)}) = Cardinality(W)
  BY OnTheWay
<1>2. fd \in Fd /\ outbound[fd] \in Seq(Nat)
  BY DEF Open, RInv, Tables
<1>3. Len(outbound[fd]) \in Nat /\ (outbound[fd] = <<>> <=> Len(outbound[fd]) = 0)
  BY <1>2
<1>4. Place(A, B, W, outbound[fd], fd \in unread, fd \in awaiting)
  BY <1>2 DEF PInv, OnePlace
<1> HIDE DEF A, B, W
<1>5. /\ Cardinality(A) = (IF A = {} THEN 0 ELSE 1)
      /\ Cardinality(B) = (IF B = {} THEN 0 ELSE 1)
      /\ Cardinality(W) = (IF W = {} THEN 0 ELSE 1)
  BY <1>4, Counts DEF Place
<1> QED BY <1>1, <1>3, <1>4, <1>5 DEF Place

(* OneReplyInFlight: a client that waits has exactly one place its request *)
(* or its reply is in, and a client that does not wait has none.           *)
THEOREM OneReplyEach ==
  ASSUME ReactorAssumption, Impatient = FALSE
  PROVE  Spec => []OneReplyInFlight
<1> USE ReactorAssumption
<1>1. RInv /\ PInv => OneReplyInFlight
  BY OneReply
<1> QED BY <1>1, Patient, PTL

-----------------------------------------------------------------------------
(* Fetch *)

(* Block b may be found at place i of a file fetched since INIT.           *)
Honest(b, i) ==
  \/ \E v \in seen : b = <<v, i>>
  \/ b = Hole /\ \E v \in seen : SizeOf[v] < i

Ended == \E v \in seen : SizeOf[v] <= off

(* The path has held what it holds now since INIT or later.                *)
SeenNow == pc \in Busy /\ remote # None => remote \in seen

(* The client has one command under way, only while bytes are missing.     *)
OneCall ==
  /\ job # None => pc = "loop" /\ off < total /\ reply = None
  /\ reply # None => pc = "loop" /\ off < total

(* The local file.                                                         *)
LocalGood ==
  /\ pc = "truncate" => local \in Seq(Block) /\ off = from /\ off <= total
  /\ pc \in {"loop", "done"} =>
       /\ local \in Seq(Block) /\ Len(local) = total /\ off <= total
       /\ \A i \in from + 1..off : Honest(local[i], i)
  /\ pc = "done" /\ off < total => Ended

(* The command and the answer.                                             *)
JobGood ==
  job # None => /\ remote # None /\ off + job.len <= total
                /\ job.len = 0 => Ended

ReplyGood ==
  reply # None =>
    /\ off + Len(reply.body) <= total
    /\ \A k \in 1..Len(reply.body) : Honest(reply.body[k], off + k)
    /\ Over(reply) => Ended

FetchInv == FetchTypeOK /\ SeenNow /\ OneCall /\ LocalGood /\ JobGood /\ ReplyGood

LEMMA FunctionIsSeq ==
  ASSUME NEW S, NEW n \in Nat, NEW f \in [1..n -> S]
  PROVE  f \in Seq(S) /\ Len(f) = n
BY SeqDef

LEMMA InitFetchInv == FetchInit => FetchInv
<1> SUFFICES ASSUME FetchInit  PROVE FetchInv
  OBVIOUS
<1>1. FetchTypeOK
  <2>1. valid \in BOOLEAN /\ up \in BOOLEAN
    BY Zenon DEF FetchInit
  <2>2. QED
    BY <2>1, FetchAssumption DEF FetchInit, FetchTypeOK
<1>2. QED
  BY <1>1 DEF FetchInit, FetchInv, SeenNow, OneCall, LocalGood, JobGood, ReplyGood, Busy

-----------------------------------------------------------------------------
(* The steps of a download *)

(* A download starts or stops, another path is read, the token changes.    *)
LEMMA SessionStep ==
  ASSUME FetchInv, Download \/ EndLoop \/ CallFails \/ Interrupt \/ Expire \/ Login
  PROVE  FetchInv'
<1> USE DEF FetchInv, server, client
<1>1. valid' \in BOOLEAN
  <2>1. valid' \in {valid, TRUE, FALSE} /\ valid \in BOOLEAN
    BY DEF Download, EndLoop, CallFails, Interrupt, Expire, Login, FetchTypeOK
  <2>2. QED
    BY <2>1, Zenon
<1>2. up' \in BOOLEAN
  <2>1. up' = up /\ up \in BOOLEAN
    BY DEF Download, EndLoop, CallFails, Interrupt, Expire, Login, FetchTypeOK
  <2>2. QED
    BY <2>1, Zenon
<1>3. FetchTypeOK'
  BY <1>1, <1>2, FetchAssumption DEF Download, EndLoop, CallFails, Interrupt,
     Expire, Login, FetchTypeOK, Busy
<1>4. SeenNow' /\ OneCall'
  BY DEF Download, EndLoop, CallFails, Interrupt, Expire, Login, SeenNow,
     OneCall, Busy, FetchTypeOK
<1>5. LocalGood'
  BY DEF Download, EndLoop, CallFails, Interrupt, Expire, Login, LocalGood,
     Honest, Ended, Busy, FetchTypeOK
<1>6. JobGood' /\ ReplyGood'
  BY DEF Download, EndLoop, CallFails, Interrupt, Expire, Login, OneCall,
     JobGood, ReplyGood, Honest, Over, Ended, Busy, FetchTypeOK
<1>7. QED
  BY <1>3, <1>4, <1>5, <1>6

LEMMA OpenStep ==
  ASSUME FetchInv, OpenLocal
  PROVE  FetchInv'
<1> USE DEF FetchInv, OpenLocal, server
<1>1. ResumeAt \in Nat /\ ResumeAt <= total
  BY DEF ResumeAt, LocalSize, FetchTypeOK
<1>2. local' \in Seq(Block)
  BY DEF FetchTypeOK
<1>3. FetchTypeOK'
  BY <1>1, <1>2 DEF FetchTypeOK, Busy
<1>4. LocalGood'
  BY <1>1, <1>2 DEF LocalGood
<1>5. QED
  BY <1>3, <1>4 DEF SeenNow, OneCall, JobGood, ReplyGood, Busy

LEMMA TruncateStep ==
  ASSUME FetchInv, Truncate
  PROVE  FetchInv'
<1> USE DEF FetchInv, Truncate, server
<1>1. local \in Seq(Block) /\ off = from /\ off <= total /\ total \in Nat
      /\ off \in Nat
  BY DEF LocalGood, FetchTypeOK
<1>2. local' \in Seq(Block) /\ Len(local') = total
  <2>1. local' \in [1..total -> Block]
    BY <1>1 DEF Block
  <2>2. QED
    BY <1>1, <2>1, FunctionIsSeq
<1>3. FetchTypeOK'
  BY <1>2 DEF FetchTypeOK, Busy
<1>4. LocalGood'
  BY <1>1, <1>2 DEF LocalGood
<1>5. QED
  BY <1>3, <1>4 DEF SeenNow, OneCall, JobGood, ReplyGood, Busy

(* read_chunk never goes past the size it has read, and answers nothing    *)
(* only at the end of the file.                                            *)
LEMMA ChunkFits ==
  ASSUME FetchTypeOK, pc = "loop", off < total, NEW size \in Nat
  PROVE  /\ ChunkLen(size) \in Nat
         /\ off + ChunkLen(size) <= total
         /\ ChunkLen(size) = 0 => size <= off
BY FetchAssumption DEF ChunkLen, Wanted, Smaller, FetchTypeOK

LEMMA AskStep ==
  ASSUME FetchInv, AskChunk
  PROVE  FetchInv'
<1> USE DEF FetchInv, client
<1>1. CASE valid /\ remote # None
  <2>1. remote \in Version /\ SizeOf[remote] \in Nat /\ remote \in seen
    BY <1>1, FetchAssumption DEF AskChunk, FetchTypeOK, SeenNow, Busy
  <2>2. /\ job' = [len |-> ChunkLen(SizeOf[remote]),
                   mapped |-> SizeOf[remote] >= Threshold]
        /\ reply = None
        /\ UNCHANGED <<remote, local, valid, up, pc, total, off, reply, seen,
                       from, tries, changes>>
    BY <1>1 DEF AskChunk
  <2>3. job'.len \in Nat /\ off + job'.len <= total
        /\ (job'.len = 0 => SizeOf[remote] <= off)
    BY <2>1, <2>2, ChunkFits DEF AskChunk
  <2>4. job' \in [len : Nat, mapped : BOOLEAN]
    BY <2>2, <2>3
  <2>5. FetchTypeOK'
    BY <2>2, <2>4 DEF FetchTypeOK
  <2>6. LocalGood' /\ ReplyGood' /\ SeenNow' /\ OneCall'
    BY <2>2 DEF AskChunk, LocalGood, ReplyGood, SeenNow, OneCall, Honest, Ended
  <2>7. JobGood'
    BY <1>1, <2>1, <2>2, <2>3 DEF JobGood, Ended
  <2>8. QED
    BY <2>5, <2>6, <2>7
<1>2. CASE ~(valid /\ remote # None)
  <2>1. /\ reply' = [status |-> "refused", body |-> <<>>]
        /\ job' = None
        /\ UNCHANGED <<remote, local, valid, up, pc, total, off, seen, from,
                       tries, changes>>
    BY <1>2 DEF AskChunk
  <2>2. FetchTypeOK'
    BY <2>1 DEF FetchTypeOK
  <2>3. LocalGood' /\ SeenNow' /\ OneCall' /\ JobGood'
    BY <2>1 DEF AskChunk, LocalGood, SeenNow, OneCall, JobGood, Honest, Ended
  <2>4. ReplyGood'
    BY <2>1 DEF AskChunk, ReplyGood, Over, FetchTypeOK
  <2>5. QED
    BY <2>2, <2>3, <2>4
<1>3. QED
  BY <1>1, <1>2

LEMMA GotStep ==
  ASSUME FetchInv, GotChunk
  PROVE  FetchInv'
<1> USE DEF FetchInv
<1>0. /\ local \in Seq(Block) /\ Len(local) = total /\ off <= total
      /\ off \in Nat /\ total \in Nat /\ from \in Nat
      /\ \A i \in from + 1..off : Honest(local[i], i)
      /\ reply.body \in Seq(Block) /\ off + Len(reply.body) <= total
      /\ \A k \in 1..Len(reply.body) : Honest(reply.body[k], off + k)
  BY DEF GotChunk, LocalGood, ReplyGood, FetchTypeOK
<1>1. CASE Over(reply)
  <2>1. /\ pc' = "done" /\ reply' = None
        /\ UNCHANGED <<remote, local, valid, up, total, off, job, seen, from,
                       tries, changes>>
    BY <1>1 DEF GotChunk
  <2>2. Ended /\ job = None
    BY <1>1 DEF GotChunk, ReplyGood, OneCall
  <2>3. FetchTypeOK' /\ SeenNow' /\ OneCall' /\ JobGood' /\ ReplyGood'
    BY <2>1, <2>2 DEF FetchTypeOK, SeenNow, OneCall, JobGood, ReplyGood, Busy
  <2>4. LocalGood'
    BY <1>0, <2>1, <2>2 DEF LocalGood, Honest, Ended
  <2>5. QED
    BY <2>3, <2>4
<1>2. CASE ~Over(reply)
  <2>1. /\ local' = Written(reply.body) /\ off' = off + Len(reply.body)
        /\ pc = "loop" /\ pc' = "loop" /\ reply' = None /\ job = None
        /\ UNCHANGED <<remote, valid, up, total, job, seen, from, tries,
                       changes>>
    BY <1>2 DEF GotChunk, Advance, OneCall
  <2>2. Len(reply.body) \in Nat
    BY <1>0
  <2>3. /\ local' \in [1..total -> Block]
        /\ \A i \in 1..total : local'[i] =
             IF i \in off + 1..off + Len(reply.body) THEN reply.body[i - off]
             ELSE local[i]
    <3>1. local' = [i \in 1..total |->
                      IF i \in off + 1..off + Len(reply.body)
                      THEN reply.body[i - off] ELSE local[i]]
      BY <1>0, <2>1 DEF Written
    <3>2. ASSUME NEW i \in 1..total
          PROVE  (IF i \in off + 1..off + Len(reply.body)
                  THEN reply.body[i - off] ELSE local[i]) \in Block
      BY <1>0, <2>2, <3>2
    <3>3. QED
      BY <3>1, <3>2
  <2>4. local' \in Seq(Block) /\ Len(local') = total
    BY <1>0, <2>3, FunctionIsSeq
  <2>5. ASSUME NEW i \in from + 1..off + Len(reply.body)
        PROVE  Honest(local'[i], i)
    <3>1. i \in 1..total
      BY <1>0, <2>2
    <3>2. CASE i \in off + 1..off + Len(reply.body)
      <4>1. i - off \in 1..Len(reply.body) /\ off + (i - off) = i
        BY <1>0, <2>2, <3>2
      <4>2. QED
        BY <1>0, <2>3, <3>1, <3>2, <4>1
    <3>3. CASE i \notin off + 1..off + Len(reply.body)
      <4>1. i \in from + 1..off
        BY <1>0, <2>2, <3>3
      <4>2. QED
        BY <1>0, <2>3, <3>1, <3>3, <4>1
    <3>4. QED
      BY <3>2, <3>3
  <2>6. FetchTypeOK'
    BY <1>0, <2>1, <2>2, <2>4 DEF FetchTypeOK
  <2>7. LocalGood'
    BY <1>0, <2>1, <2>2, <2>4, <2>5 DEF LocalGood, Honest
  <2>8. SeenNow' /\ OneCall' /\ JobGood' /\ ReplyGood'
    BY <2>1 DEF SeenNow, OneCall, JobGood, ReplyGood
  <2>9. QED
    BY <2>6, <2>7, <2>8
<1>3. QED
  BY <1>1, <1>2

(* The file may have been replaced since its size was read: the blocks are *)
(* those of the new one, which has been seen, too.                         *)
LEMMA ReadStep ==
  ASSUME FetchInv, ReadChunk
  PROVE  FetchInv'
<1> USE DEF FetchInv, client
<1>0. /\ remote \in Version /\ remote \in seen /\ SizeOf[remote] \in Nat
      /\ job \in [len : Nat, mapped : BOOLEAN] /\ off + job.len <= total
      /\ job.len = 0 => Ended
      /\ pc = "loop" /\ off < total /\ off \in Nat
  BY FetchAssumption DEF ReadChunk, JobGood, SeenNow, OneCall, FetchTypeOK, Busy
<1>1. /\ reply' = [status |-> IF job.len = 0 THEN "done" ELSE "ok",
                   body |-> BlocksNow(job.len)]
      /\ job' = None
      /\ UNCHANGED <<remote, local, valid, up, pc, total, off, seen, from,
                     tries, changes>>
  BY DEF ReadChunk
<1>2. /\ BlocksNow(job.len) \in Seq(Block)
      /\ Len(BlocksNow(job.len)) = job.len
  <2>1. BlocksNow(job.len) \in [1..job.len -> Block]
    BY <1>0 DEF BlocksNow, Block
  <2>2. QED
    BY <1>0, <2>1, FunctionIsSeq
<1>3. \A k \in 1..job.len : Honest(BlocksNow(job.len)[k], off + k)
  BY <1>0 DEF BlocksNow, Honest
<1>4. FetchTypeOK'
  BY <1>1, <1>2 DEF FetchTypeOK
<1>5. ReplyGood'
  BY <1>0, <1>1, <1>2, <1>3 DEF ReplyGood, Honest, Over, Ended
<1>6. LocalGood' /\ SeenNow' /\ OneCall' /\ JobGood'
  BY <1>0, <1>1 DEF LocalGood, SeenNow, OneCall, JobGood, Honest, Ended
<1>7. QED
  BY <1>4, <1>5, <1>6

LEMMA PastEndStep ==
  ASSUME FetchInv, ReadPastEnd
  PROVE  FetchInv'
<1> USE DEF FetchInv, client
<1>1. up' \in BOOLEAN
  BY Zenon DEF ReadPastEnd
<1>2. FetchTypeOK'
  BY <1>1 DEF ReadPastEnd, FetchTypeOK
<1>3. QED
  BY <1>2 DEF ReadPastEnd, SeenNow, OneCall, LocalGood, JobGood, ReplyGood,
     Honest, Ended

(* Other sessions: what has been seen stays seen.                          *)
LEMMA OtherStep ==
  ASSUME FetchInv, Delete \/ \E v \in Version : Replace(v)
  PROVE  FetchInv'
<1> USE DEF FetchInv, client, server
<1>1. /\ seen \subseteq seen'
      /\ UNCHANGED <<local, valid, up, pc, total, off, job, reply, from, tries>>
  BY DEF Delete, Replace
<1>2. FetchTypeOK'
  BY <1>1, FetchAssumption DEF Delete, Replace, FetchTypeOK
<1>3. SeenNow' /\ OneCall'
  BY DEF Delete, Replace, SeenNow, OneCall
<1>4. /\ \A b, i : Honest(b, i) => Honest(b, i)'
      /\ Ended => Ended'
  BY <1>1 DEF Honest, Ended
<1>5. LocalGood' /\ ReplyGood'
  BY <1>1, <1>4 DEF LocalGood, ReplyGood, Over
<1>6. JobGood'
  BY <1>1, <1>4, FetchAssumption DEF Delete, Replace, JobGood
<1>7. QED
  BY <1>2, <1>3, <1>5, <1>6

THEOREM FetchInvariance == FetchSpec => []FetchInv
<1>1. FetchInv /\ [FetchNext]_fetchVars => FetchInv'
  <2>1. ASSUME FetchInv, FetchNext
        PROVE  FetchInv'
    BY <2>1, SessionStep, OpenStep, TruncateStep, AskStep, GotStep, ReadStep,
       PastEndStep, OtherStep DEF FetchNext, FetchStep, ServerStep
  <2>2. ASSUME FetchInv, UNCHANGED fetchVars
        PROVE  FetchInv'
    BY <2>2 DEF FetchInv, fetchVars, server, client, FetchTypeOK, SeenNow, OneCall, LocalGood,
       JobGood, ReplyGood, Honest, Ended
  <2>3. QED
    BY <2>1, <2>2
<1>2. QED
  BY InitFetchInv, <1>1, PTL DEF FetchSpec

(* handle_download writes within the local file, and read_chunk answers    *)
(* with blocks: every variable keeps its type.                             *)
THEOREM FetchTypeCorrect == FetchSpec => []FetchTypeOK
<1>1. FetchInv => FetchTypeOK
  BY DEF FetchInv
<1>2. QED
  BY FetchInvariance, <1>1, PTL

(* Whatever the other sessions do to the path and however the loop of      *)
(* handle_download is cut into chunks, a download that says it is over has *)
(* fetched what the path held while it ran.                                *)
THEOREM FetchesTheRemote == FetchSpec => []FetchedIsRemote
<1>1. FetchInv => FetchedIsRemote
  BY DEF FetchInv, LocalGood, Honest, Ended, FetchedIsRemote
<1>2. QED
  BY FetchInvariance, <1>1, PTL

=============================================================================
