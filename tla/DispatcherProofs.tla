--------------------------- MODULE DispatcherProofs ---------------------------
(***************************************************************************)
(* Proofs about Dispatcher, for any number of descriptors and threads and  *)
(* any limits.  The invariants of the hand-off are proved together, from   *)
(* the inductive invariant IInv; those of the wheel on top of it.          *)
(***************************************************************************)
EXTENDS Dispatcher, SequenceTheorems, FiniteSetTheorems, TLAPS

(* Sequences as queues: what Append and Tail do to length and contents.    *)
LEMMA RangeAppend ==
  ASSUME NEW S, NEW s \in Seq(S), NEW x \in S
  PROVE  /\ Range(Append(s, x)) = Range(s) \cup {x}
         /\ Len(Append(s, x)) = Len(s) + 1
         /\ \A i \in 1..Len(s) : Append(s, x)[i] = s[i]
         /\ Append(s, x)[Len(s) + 1] = x
<1>1. /\ Append(s, x) \in Seq(S) /\ Len(Append(s, x)) = Len(s) + 1
      /\ \A i \in 1..Len(s) : Append(s, x)[i] = s[i]
      /\ Append(s, x)[Len(s) + 1] = x
  BY AppendProperties
<1>2. DOMAIN Append(s, x) = 1..Len(s) + 1 /\ DOMAIN s = 1..Len(s)
  BY <1>1
<1>3. \A i : i \in 1..Len(s) + 1 <=> i \in 1..Len(s) \/ i = Len(s) + 1
  OBVIOUS
<1>4. \A y : y \in Range(Append(s, x)) <=> y \in Range(s) \/ y = x
  BY <1>1, <1>2, <1>3 DEF Range
<1> QED BY <1>1, <1>4

LEMMA RangeTail ==
  ASSUME NEW S, NEW s \in Seq(S), s # <<>>
  PROVE  /\ Range(s) = {Head(s)} \cup Range(Tail(s))
         /\ Len(Tail(s)) = Len(s) - 1
         /\ Head(s) \in S /\ Tail(s) \in Seq(S)
         /\ \A i \in 1..Len(Tail(s)) : Tail(s)[i] = s[i + 1]
         /\ Head(s) = s[1]
<1>1. /\ Head(s) \in S /\ Tail(s) \in Seq(S) /\ Len(Tail(s)) = Len(s) - 1
      /\ \A i \in 1..Len(Tail(s)) : Tail(s)[i] = s[i + 1]
      /\ Head(s) = s[1] /\ Len(s) \in Nat \ {0}
  BY HeadTailProperties
<1>2. ASSUME NEW x \in Range(s)  PROVE x \in {Head(s)} \cup Range(Tail(s))
  <2>1. PICK i \in 1..Len(s) : x = s[i]
    BY DEF Range
  <2>2. CASE i # 1
    <3>1. i - 1 \in 1..Len(Tail(s)) /\ i - 1 \in DOMAIN Tail(s) /\ Tail(s)[i - 1] = s[i]
      BY <2>2, <1>1
    <3> QED BY <2>1, <3>1 DEF Range
  <2> QED BY <1>1, <2>1, <2>2
<1>3. {Head(s)} \cup Range(Tail(s)) \subseteq Range(s)
  BY <1>1 DEF Range
<1> QED BY <1>1, <1>2, <1>3

-----------------------------------------------------------------------------
(* Type correctness *)

LEMMA WorkerType ==
  /\ \A w \in Worker : Cap(w) \in Nat \ {0} /\ w \in Nat
  /\ None \notin Fd /\ None \notin Worker
  /\ Listen \notin Fd /\ Listen \notin Worker
  /\ Fd \cap Worker = {}
BY DispatcherAssumption DEF Worker, Cap

LEMMA ReadyType ==
  ASSUME TypeOK
  PROVE  Ready \in SUBSET (Fd \cup Worker \cup {Listen})
BY DEF TypeOK, Ready

LEMMA TypeInit == Init => TypeOK
BY WorkerType DEF Init, TypeOK, Spokes

LEMMA TypeNext == TypeOK /\ [Next]_vars => TypeOK'
<1> SUFFICES ASSUME TypeOK, [Next]_vars  PROVE TypeOK'
  OBVIOUS
<1> USE WorkerType DEF TypeOK, wheelVars, kernelVars, workerVars
<1>1. CASE EpollReturn
  BY <1>1, ReadyType DEF EpollReturn
<1>2. CASE EpollTick
  <2>1. roud' \in 0..4
    BY <1>2 DEF EpollTick, NextSpoke, Spokes
  <2>2. client_sum' \in Int
    <3>1. IsFiniteSet(Expired(roud'))
      BY FdAssumption, FS_Subset DEF Expired
    <3>2. QED
      BY <1>2, <3>1, FS_CardinalityType DEF EpollTick
  <2>3. QED
    BY <1>2, <2>1, <2>2, ReadyType DEF EpollTick, NextSpoke, Spokes
<1>3. CASE RefuseClient
  BY <1>3 DEF RefuseClient
<1>4. ASSUME NEW fd \in Fd, AcceptClient(fd)  PROVE TypeOK'
  BY <1>4 DEF AcceptClient, Spokes
<1>5. ASSUME NEW fd \in Fd, ClientEvent(fd)  PROVE TypeOK'
  BY <1>5 DEF ClientEvent, Spokes
<1>6. ASSUME NEW fd \in Fd, DropEvent(fd)  PROVE TypeOK'
  BY <1>6 DEF DropEvent
<1>7. ASSUME NEW w \in Worker, TransferDone(w)  PROVE TypeOK'
  <2>1. done' \in [Worker -> Int] /\ busy_num' \in [Worker -> Int]
    BY <1>7 DEF TransferDone
  <2>2. QED
    BY <1>7, <2>1 DEF TransferDone
<1>8. CASE ClientQuit
  BY <1>8 DEF ClientQuit, Spokes
<1>9. CASE PreLogin
  BY <1>9 DEF PreLogin, TakeRequest
<1>10. CASE LoginOk
  BY <1>10 DEF LoginOk, TakeRequest
<1>11. CASE Answer
  BY <1>11 DEF Answer, TakeRequest
<1>12. CASE LetGo
  BY <1>12 DEF LetGo, Spokes
<1>13. ASSUME NEW pool \in {Down, Up}, SendToThread(pool)  PROVE TypeOK'
  <2>1. PICK w \in MathTask(pool) : /\ target' = w
                                    /\ pipe' = [pipe EXCEPT ![w] = Append(@, cur)]
    BY <1>13 DEF SendToThread
  <2>2. w \in Worker
    BY <2>1 DEF MathTask, Worker
  <2>3. Append(pipe[w], cur) \in Seq(Fd)
    BY <1>13, <2>2 DEF SendToThread, TakeRequest
  <2>4. pipe' \in [Worker -> Seq(Fd)]
    BY <2>1, <2>2, <2>3
  <2>5. QED
    BY <1>13, <2>1, <2>2, <2>4 DEF SendToThread, TakeRequest
<1>14. ASSUME NEW pool \in {Down, Up}, NoTransfer(pool)  PROVE TypeOK'
  BY <1>14 DEF NoTransfer, TakeRequest
<1>15. ASSUME NEW w \in Worker, TakeConnection(w)  PROVE TypeOK'
  <2>1. Tail(pipe[w]) \in Seq(Fd) /\ Head(pipe[w]) \in Fd
    BY <1>15, RangeTail DEF TakeConnection
  <2>2. pipe' \in [Worker -> Seq(Fd)] /\ held' \in [Worker -> SUBSET Fd]
    BY <1>15, <2>1 DEF TakeConnection
  <2>3. QED
    BY <1>15, <2>2 DEF TakeConnection
<1>16. ASSUME NEW w \in Worker, NEW fd \in Fd, CloseConnection(w, fd)
       PROVE TypeOK'
  BY <1>16 DEF CloseConnection
<1>17. ASSUME NEW w \in Worker, ReportDone(w)  PROVE TypeOK'
  <2>1. done' \in [Worker -> Int] /\ closing' \in [Worker -> Fd \cup {None}]
    BY <1>17 DEF ReportDone
  <2>2. QED
    BY <1>17, <2>1 DEF ReportDone
<1>18. CASE Connect
  BY <1>18 DEF Connect
<1>19. ASSUME NEW fd \in Fd, Request(fd)  PROVE TypeOK'
  BY <1>19 DEF Request
<1>20. ASSUME NEW fd \in Fd, HangUp(fd)  PROVE TypeOK'
  BY <1>20 DEF HangUp
<1>21. CASE UNCHANGED vars
  BY <1>21 DEF vars
<1>22. QED
  BY <1>1, <1>2, <1>3, <1>4, <1>5, <1>6, <1>7, <1>8, <1>9, <1>10, <1>11,
     <1>12, <1>13, <1>14, <1>15, <1>16, <1>17, <1>18, <1>19, <1>20, <1>21
     DEF Next, DispatcherStep, HandleEvent, HandleRequest, ThreadStep, PeerStep

-----------------------------------------------------------------------------
(* Ownership of a connection *)

Owner == OneOwner /\ HandedOnce /\ MainOwns

LEMMA OwnerInit == Init => Owner
BY WorkerType DEF Init, Owner, OneOwner, HandedOnce, MainOwns, Handed, Range

(* What is handed over stays so while pipes and slots do not change; only  *)
(* the clauses of OneOwner about one descriptor remain to be shown.        *)
LEMMA OwnerFrame ==
  ASSUME Owner, pipe' = pipe, held' = held, MainOwns',
         \A w \in Worker : \A fd \in Handed(w) :
            /\ fd \in open'
            /\ \/ pc' = "handoff" /\ cur' = fd
               \/ state'[fd] = 0 /\ rotate'[fd] = -1 /\ fd \notin epoll'
  PROVE  Owner'
BY DEF Owner, OneOwner, HandedOnce, Handed

LEMMA OwnerNext == TypeOK /\ Owner /\ [Next]_vars => Owner'
<1> SUFFICES ASSUME TypeOK, Owner, [Next]_vars  PROVE Owner'
  OBVIOUS
<1>0. \A w \in Worker : Handed(w) \subseteq Fd
  BY DEF TypeOK, Handed, Range
<1> DEFINE Kept == \A w \in Worker : \A fd \in Handed(w) :
            /\ fd \in open'
            /\ \/ pc' = "handoff" /\ cur' = fd
               \/ state'[fd] = 0 /\ rotate'[fd] = -1 /\ fd \notin epoll'
<1> USE DEF wheelVars, kernelVars, workerVars
<1>1. CASE EpollReturn
  <2>1. MainOwns' /\ Kept
    BY <1>1 DEF EpollReturn, Owner, OneOwner, MainOwns
  <2>2. QED
    BY <2>1, <1>1, OwnerFrame DEF EpollReturn
<1>2. CASE EpollTick
  <2>1. roud' \in 0..4
    BY <1>2 DEF EpollTick, NextSpoke, Spokes, TypeOK
  <2>2. Kept
    BY <1>0, <1>2, <2>1 DEF EpollTick, NextSpoke, Owner, OneOwner, Expired, TypeOK
  <2>3. MainOwns'
    BY <1>2, <2>1 DEF EpollTick, NextSpoke, Owner, MainOwns, Expired, TypeOK
  <2>4. QED
    BY <2>2, <2>3, <1>2, OwnerFrame DEF EpollTick
<1>3. CASE RefuseClient
  <2>1. MainOwns' /\ Kept
    BY <1>3 DEF RefuseClient, Owner, OneOwner, MainOwns
  <2>2. QED
    BY <2>1, <1>3, OwnerFrame DEF RefuseClient
<1>4. ASSUME NEW fd \in Fd, AcceptClient(fd)  PROVE Owner'
  <2>1. Kept
    BY <1>0, <1>4 DEF AcceptClient, Owner, OneOwner, TypeOK
  <2>2. MainOwns'
    BY <1>4 DEF AcceptClient, Owner, MainOwns, TypeOK, Spokes
  <2>3. QED
    BY <2>1, <2>2, <1>4, OwnerFrame DEF AcceptClient
<1>5. ASSUME NEW fd \in Fd, ClientEvent(fd)  PROVE Owner'
  <2>1. Kept
    BY <1>0, <1>5 DEF ClientEvent, Owner, OneOwner, TypeOK
  <2>2. MainOwns'
    BY <1>5 DEF ClientEvent, Owner, MainOwns, TypeOK, Spokes
  <2>3. QED
    BY <2>1, <2>2, <1>5, OwnerFrame DEF ClientEvent
<1>6. ASSUME NEW fd \in Fd, DropEvent(fd)  PROVE Owner'
  <2>1. MainOwns' /\ Kept
    BY <1>6 DEF DropEvent, Owner, OneOwner, MainOwns
  <2>2. QED
    BY <2>1, <1>6, OwnerFrame DEF DropEvent
<1>7. ASSUME NEW w \in Worker, TransferDone(w)  PROVE Owner'
  <2>1. MainOwns' /\ Kept
    BY <1>7 DEF TransferDone, Owner, OneOwner, MainOwns
  <2>2. QED
    BY <2>1, <1>7, OwnerFrame DEF TransferDone
<1>8. CASE ClientQuit
  <2>1. Kept
    BY <1>0, <1>8 DEF ClientQuit, Owner, OneOwner, MainOwns, TypeOK
  <2>2. MainOwns'
    BY <1>8 DEF ClientQuit, Owner, MainOwns, TypeOK
  <2>3. QED
    BY <2>1, <2>2, <1>8, OwnerFrame DEF ClientQuit
<1>9. CASE PreLogin
  <2>1. Kept
    BY <1>0, <1>9 DEF PreLogin, TakeRequest, Owner, OneOwner, MainOwns, TypeOK
  <2>2. MainOwns'
    BY <1>9 DEF PreLogin, TakeRequest, Owner, MainOwns, TypeOK
  <2>3. QED
    BY <2>1, <2>2, <1>9, OwnerFrame DEF PreLogin
<1>10. CASE LoginOk
  <2>1. Kept
    BY <1>0, <1>10 DEF LoginOk, TakeRequest, Owner, OneOwner, MainOwns, TypeOK
  <2>2. MainOwns'
    BY <1>10 DEF LoginOk, TakeRequest, Owner, MainOwns, TypeOK
  <2>3. QED
    BY <2>1, <2>2, <1>10, OwnerFrame DEF LoginOk
<1>11. CASE Answer
  <2>1. Kept
    BY <1>11 DEF Answer, TakeRequest, Owner, OneOwner
  <2>2. MainOwns'
    BY <1>11 DEF Answer, TakeRequest, Owner, MainOwns
  <2>3. QED
    BY <2>1, <2>2, <1>11, OwnerFrame DEF Answer
<1>12. CASE LetGo
  <2>1. Kept
    BY <1>0, <1>12 DEF LetGo, Owner, OneOwner, TypeOK
  <2>2. MainOwns'
    BY <1>12 DEF LetGo, Owner, MainOwns, TypeOK
  <2>3. QED
    BY <2>1, <2>2, <1>12, OwnerFrame DEF LetGo
<1>13. ASSUME NEW pool \in {Down, Up}, SendToThread(pool)  PROVE Owner'
  <2>1. PICK w \in Worker : pipe' = [pipe EXCEPT ![w] = Append(@, cur)]
    BY <1>13 DEF SendToThread, MathTask, Worker
  <2>2. cur \in Fd /\ state[cur] > 0 /\ pc = "recv" /\ cur \in open
    BY <1>13 DEF SendToThread, TakeRequest, TypeOK, Owner, MainOwns
  <2>3. \A v \in Worker : cur \notin Handed(v)
    BY <2>2 DEF Owner, OneOwner
  <2>4. /\ Range(pipe'[w]) = Range(pipe[w]) \cup {cur}
        /\ Len(pipe'[w]) = Len(pipe[w]) + 1
        /\ \A i \in 1..Len(pipe[w]) : pipe'[w][i] = pipe[w][i]
        /\ pipe'[w][Len(pipe[w]) + 1] = cur
    <3>1. pipe'[w] = Append(pipe[w], cur)
      BY <2>1 DEF TypeOK
    <3>2. QED
      BY <3>1, <2>2, RangeAppend DEF TypeOK
  <2>5. \A v \in Worker : v # w => pipe'[v] = pipe[v]
    BY <2>1 DEF TypeOK
  <2>6. held' = held /\ open' = open /\ state' = state /\ rotate' = rotate
        /\ epoll' = epoll /\ cur' = cur /\ pc' = "handoff"
    BY <1>13 DEF SendToThread
  <2>7. Handed(w)' = Handed(w) \cup {cur}
    BY <2>4, <2>6 DEF Handed
  <2>8. \A v \in Worker : v # w => Handed(v)' = Handed(v)
    BY <2>5, <2>6 DEF Handed
  <2>9. OneOwner'
    BY <2>2, <2>3, <2>6, <2>7, <2>8 DEF Owner, OneOwner
  <2>10. HandedOnce'
    <3>1. \A i \in 1..Len(pipe[w]) : pipe[w][i] # cur
      <4>1. cur \notin Range(pipe[w])
        BY <2>3 DEF Handed
      <4>2. DOMAIN pipe[w] = 1..Len(pipe[w])
        BY DEF TypeOK
      <4>3. QED
        BY <4>1, <4>2 DEF Range
    <3>2. Len(pipe[w]) \in Nat
      BY DEF TypeOK
    <3>3. \A i, j \in 1..Len(pipe'[w]) : pipe'[w][i] = pipe'[w][j] => i = j
      BY <3>1, <3>2, <2>4 DEF Owner, HandedOnce
    <3>4. Range(pipe'[w]) \cap held[w] = {}
      BY <2>3, <2>4 DEF Owner, HandedOnce, Handed
    <3>5. QED
      BY <3>3, <3>4, <2>5, <2>6 DEF Owner, HandedOnce
  <2>11. MainOwns'
    BY <2>2, <2>6 DEF Owner, MainOwns
  <2>12. QED
    BY <2>9, <2>10, <2>11 DEF Owner
<1>14. ASSUME NEW pool \in {Down, Up}, NoTransfer(pool)  PROVE Owner'
  <2>1. Kept
    BY <1>14 DEF NoTransfer, TakeRequest, Owner, OneOwner
  <2>2. MainOwns'
    BY <1>14 DEF NoTransfer, TakeRequest, Owner, MainOwns
  <2>3. QED
    BY <2>1, <2>2, <1>14, OwnerFrame DEF NoTransfer
<1>15. ASSUME NEW w \in Worker, TakeConnection(w)  PROVE Owner'
  <2>1. /\ pipe'[w] = Tail(pipe[w]) /\ held'[w] = held[w] \cup {Head(pipe[w])}
        /\ \A v \in Worker : v # w => pipe'[v] = pipe[v] /\ held'[v] = held[v]
    BY <1>15 DEF TakeConnection, TypeOK
  <2>2. pipe[w] \in Seq(Fd) /\ pipe[w] # <<>> /\ Len(pipe[w]) \in Nat
    BY <1>15 DEF TakeConnection, TypeOK
  <2>3. /\ Range(pipe[w]) = {Head(pipe[w])} \cup Range(pipe'[w])
        /\ Len(pipe'[w]) = Len(pipe[w]) - 1
        /\ \A i \in 1..Len(pipe'[w]) : pipe'[w][i] = pipe[w][i + 1]
        /\ Head(pipe[w]) = pipe[w][1] /\ pipe'[w] \in Seq(Fd)
    BY <2>1, <2>2, RangeTail
  <2>4. \A v \in Worker : Handed(v)' = Handed(v)
    BY <2>1, <2>3 DEF Handed
  <2>5. pc' = pc /\ cur' = cur /\ open' = open /\ state' = state
        /\ rotate' = rotate /\ epoll' = epoll
    BY <1>15 DEF TakeConnection
  <2>6. OneOwner' /\ MainOwns'
    BY <2>4, <2>5 DEF Owner, OneOwner, MainOwns
  <2>7. \A i, j \in 1..Len(pipe'[w]) : pipe'[w][i] = pipe'[w][j] => i = j
    <3> SUFFICES ASSUME NEW i \in 1..Len(pipe'[w]), NEW j \in 1..Len(pipe'[w]),
                        pipe'[w][i] = pipe'[w][j]
                 PROVE  i = j
      OBVIOUS
    <3>1. i + 1 \in 1..Len(pipe[w]) /\ j + 1 \in 1..Len(pipe[w])
      BY <2>2, <2>3
    <3>2. pipe[w][i + 1] = pipe[w][j + 1]
      BY <2>3
    <3>3. i + 1 = j + 1
      BY <3>1, <3>2 DEF Owner, HandedOnce
    <3>4. i \in Int /\ j \in Int
      OBVIOUS
    <3>5. QED
      BY <3>3, <3>4
  <2>8. Range(pipe'[w]) \cap held'[w] = {}
    <3>1. \A i \in 1..Len(pipe'[w]) : pipe'[w][i] # Head(pipe[w])
      <4> SUFFICES ASSUME NEW i \in 1..Len(pipe'[w]),
                          pipe[w][i + 1] = pipe[w][1]
                   PROVE  FALSE
        BY <2>3
      <4>1. i + 1 \in 1..Len(pipe[w]) /\ 1 \in 1..Len(pipe[w])
        BY <2>2, <2>3
      <4>2. i + 1 = 1
        BY <4>1 DEF Owner, HandedOnce
      <4>3. QED
        BY <4>2
    <3>2. Head(pipe[w]) \notin Range(pipe'[w])
      BY <3>1, <2>3 DEF Range
    <3>3. Range(pipe'[w]) \cap held[w] = {}
      BY <2>3 DEF Owner, HandedOnce
    <3>4. QED
      BY <3>2, <3>3, <2>1
  <2>9. HandedOnce'
    BY <2>1, <2>7, <2>8 DEF Owner, HandedOnce
  <2>10. QED
    BY <2>6, <2>9 DEF Owner
<1>16. ASSUME NEW w \in Worker, NEW fd \in Fd, CloseConnection(w, fd)
       PROVE Owner'
  <2>1. /\ held'[w] = held[w] \ {fd} /\ fd \in held[w] /\ pipe' = pipe
        /\ \A v \in Worker : v # w => held'[v] = held[v]
        /\ open' = open \ {fd} /\ epoll' = epoll \ {fd}
        /\ pc' = pc /\ cur' = cur /\ state' = state /\ rotate' = rotate
    BY <1>16 DEF CloseConnection, TypeOK
  <2>2. fd \in Handed(w)
    BY <2>1 DEF Handed
  <2>3. fd \notin Range(pipe[w])
    BY <2>1 DEF Owner, HandedOnce
  <2>4. Handed(w)' = Handed(w) \ {fd}
    BY <2>1, <2>3 DEF Handed
  <2>5. \A v \in Worker : v # w => Handed(v)' = Handed(v) /\ fd \notin Handed(v)
    BY <2>1, <2>2 DEF Handed, Owner, OneOwner
  <2>6. OneOwner'
    BY <2>1, <2>4, <2>5 DEF Owner, OneOwner
  <2>7. MainOwns'
    BY <2>1, <2>2 DEF Owner, OneOwner, MainOwns, TypeOK
  <2>8. HandedOnce'
    BY <2>1 DEF Owner, HandedOnce
  <2>9. QED
    BY <2>6, <2>7, <2>8 DEF Owner
<1>17. ASSUME NEW w \in Worker, ReportDone(w)  PROVE Owner'
  <2>1. MainOwns' /\ Kept
    BY <1>17 DEF ReportDone, Owner, OneOwner, MainOwns
  <2>2. QED
    BY <2>1, <1>17, OwnerFrame DEF ReportDone
<1>18. CASE Connect
  <2>1. MainOwns' /\ Kept
    BY <1>18 DEF Connect, Owner, OneOwner, MainOwns
  <2>2. QED
    BY <2>1, <1>18, OwnerFrame DEF Connect
<1>19. ASSUME NEW fd \in Fd, Request(fd)  PROVE Owner'
  <2>1. MainOwns' /\ Kept
    BY <1>19 DEF Request, Owner, OneOwner, MainOwns
  <2>2. QED
    BY <2>1, <1>19, OwnerFrame DEF Request
<1>20. ASSUME NEW fd \in Fd, HangUp(fd)  PROVE Owner'
  <2>1. MainOwns' /\ Kept
    BY <1>20 DEF HangUp, Owner, OneOwner, MainOwns
  <2>2. QED
    BY <2>1, <1>20, OwnerFrame DEF HangUp
<1>21. CASE UNCHANGED vars
  <2>1. MainOwns' /\ Kept
    BY <1>21 DEF vars, Owner, OneOwner, MainOwns
  <2>2. QED
    BY <2>1, <1>21, OwnerFrame DEF vars
<1>22. QED
  BY <1>1, <1>2, <1>3, <1>4, <1>5, <1>6, <1>7, <1>8, <1>9, <1>10, <1>11,
     <1>12, <1>13, <1>14, <1>15, <1>16, <1>17, <1>18, <1>19, <1>20, <1>21
     DEF Next, DispatcherStep, HandleEvent, HandleRequest, ThreadStep, PeerStep

-----------------------------------------------------------------------------
(* The counters of the threads *)

LEMMA IInvParts == IInv <=> TypeOK /\ Owner /\ Counted /\ BusyExact
BY DEF IInv, Owner

LEMMA CountInit == Init => Counted /\ BusyExact
<1> SUFFICES ASSUME Init  PROVE Counted /\ BusyExact
  OBVIOUS
<1>1. ASSUME NEW w \in Worker
      PROVE  /\ Load(w) = 0 /\ Uncounted(w) = 0
             /\ busy_num[w] = 0 /\ done[w] = 0
             /\ w \notin batch /\ IsFiniteSet(held[w])
  BY FS_EmptySet DEF Init, Load, Uncounted
<1>2. QED
  BY <1>1, WorkerType DEF Counted, BusyExact

LEMMA LoadType ==
  ASSUME TypeOK, Counted, NEW w \in Worker
  PROVE  Load(w) \in Nat /\ Len(pipe[w]) \in Nat /\ Cardinality(held[w]) \in Nat
<1>1. Cardinality(held[w]) \in Nat
  BY FS_CardinalityType DEF Counted
<1>2. Len(pipe[w]) \in Nat
  BY DEF TypeOK
<1>3. QED
  BY <1>1, <1>2 DEF Load

(* Steps that move nothing between the dispatcher and the threads.         *)
LEMMA CountFrame ==
  ASSUME Counted, BusyExact,
         UNCHANGED <<busy_num, target, pipe, held, closing, done>>,
         pc' = "handoff" <=> pc = "handoff",
         \A w \in Worker : w \in batch' => w \in batch \/ done[w] > 0
  PROVE  Counted' /\ BusyExact'
BY DEF Counted, BusyExact, Load, Uncounted

LEMMA CountNext == IInv /\ [Next]_vars => Counted' /\ BusyExact'
<1> SUFFICES ASSUME IInv, [Next]_vars  PROVE Counted' /\ BusyExact'
  OBVIOUS
<1>0. TypeOK /\ Owner /\ Counted /\ BusyExact
  BY IInvParts
<1> USE <1>0 DEF wheelVars, kernelVars, workerVars
<1>1. \A w \in Worker : w \in Ready => done[w] > 0
  BY WorkerType DEF Ready, TypeOK
<1>2. CASE EpollReturn
  BY <1>1, <1>2, CountFrame DEF EpollReturn
<1>3. CASE EpollTick
  BY <1>1, <1>3, CountFrame DEF EpollTick
<1>4. CASE RefuseClient
  BY <1>4, CountFrame DEF RefuseClient
<1>5. ASSUME NEW fd \in Fd, AcceptClient(fd) \/ ClientEvent(fd) \/ DropEvent(fd)
      PROVE  Counted' /\ BusyExact'
  <2>1. CASE AcceptClient(fd)
    BY <2>1, CountFrame DEF AcceptClient
  <2>2. CASE ClientEvent(fd)
    BY <2>2, CountFrame DEF ClientEvent
  <2>3. CASE DropEvent(fd)
    BY <2>3, CountFrame DEF DropEvent
  <2>4. QED
    BY <1>5, <2>1, <2>2, <2>3
<1>6. CASE ClientQuit \/ PreLogin \/ LoginOk \/ Answer
  <2>1. pc = "recv" /\ pc' = "loop"
    BY <1>6 DEF ClientQuit, PreLogin, LoginOk, Answer, TakeRequest
  <2>2. UNCHANGED <<batch, busy_num, target, pipe, held, closing, done>>
    BY <1>6 DEF ClientQuit, PreLogin, LoginOk, Answer
  <2>3. QED
    BY <2>1, <2>2, CountFrame
<1>7. ASSUME NEW pool \in {Down, Up}, NoTransfer(pool)
      PROVE  Counted' /\ BusyExact'
  BY <1>7, CountFrame DEF NoTransfer, TakeRequest
<1>8. ASSUME NEW fd \in Fd, Request(fd) \/ HangUp(fd)
      PROVE  Counted' /\ BusyExact'
  BY <1>8, CountFrame DEF Request, HangUp
<1>9. CASE Connect
  BY <1>9, CountFrame DEF Connect
<1>10. CASE UNCHANGED vars
  BY <1>10, CountFrame DEF vars
<1>11. ASSUME NEW w \in Worker, TransferDone(w)  PROVE Counted' /\ BusyExact'
  <2>1. /\ done'[w] = done[w] - 1 /\ busy_num'[w] = busy_num[w] - 1
        /\ \A v \in Worker : v # w => done'[v] = done[v] /\ busy_num'[v] = busy_num[v]
        /\ w \in batch /\ batch' = batch \ {w}
        /\ UNCHANGED <<pc, target, pipe, held, closing>>
    BY <1>11 DEF TransferDone, TypeOK
  <2>2. \A v \in Worker : Load(v)' = Load(v) /\ Uncounted(v)' = Uncounted(v)
    BY <2>1 DEF Load, Uncounted
  <2>3. \A v \in Worker : /\ busy_num[v] \in Int /\ done[v] \in Int
                          /\ Load(v) \in Nat /\ Uncounted(v) \in {0, 1}
                          /\ Cap(v) \in Nat
    BY LoadType, WorkerType DEF TypeOK, Uncounted
  <2>4. BusyExact'
    BY <2>1, <2>2, <2>3 DEF BusyExact
  <2>5. Counted'
    BY <2>1, <2>2, <2>3 DEF Counted
  <2>6. QED
    BY <2>4, <2>5
<1>12. ASSUME NEW pool \in {Down, Up}, SendToThread(pool)
       PROVE  Counted' /\ BusyExact'
  <2>1. PICK w \in MathTask(pool) : /\ target' = w
                                    /\ pipe' = [pipe EXCEPT ![w] = Append(@, cur)]
    BY <1>12 DEF SendToThread
  <2>2. w \in Worker /\ busy_num[w] < Cap(w)
    BY <2>1 DEF MathTask, Worker
  <2>3. Len(pipe'[w]) = Len(pipe[w]) + 1
        /\ \A v \in Worker : v # w => pipe'[v] = pipe[v]
    <3>1. cur \in Fd /\ pipe[w] \in Seq(Fd)
      BY <1>12, <2>2 DEF SendToThread, TakeRequest, TypeOK
    <3>2. QED
      BY <3>1, <2>1, <2>2, RangeAppend DEF TypeOK
  <2>4. pc = "recv" /\ pc' = "handoff"
        /\ UNCHANGED <<batch, busy_num, held, closing, done>>
    BY <1>12 DEF SendToThread, TakeRequest
  <2>5. \A v \in Worker : /\ Uncounted(v) = 0
                          /\ Uncounted(v)' = IF v = w THEN 1 ELSE 0
    BY <2>1, <2>4 DEF Uncounted
  <2>6. \A v \in Worker : Load(v)' = IF v = w THEN Load(v) + 1 ELSE Load(v)
    <3>1. \A v \in Worker : Len(pipe[v]) \in Nat /\ Cardinality(held[v]) \in Nat
      BY LoadType
    <3>2. QED
      BY <2>2, <2>3, <2>4, <3>1 DEF Load
  <2>7. \A v \in Worker : /\ busy_num[v] \in Int /\ done[v] \in Int
                          /\ Load(v) \in Nat /\ Cap(v) \in Nat
    BY LoadType, WorkerType DEF TypeOK
  <2>8. BusyExact'
    BY <2>4, <2>5, <2>6, <2>7 DEF BusyExact
  <2>9. Counted'
    BY <2>2, <2>4, <2>5, <2>7 DEF Counted
  <2>10. QED
    BY <2>8, <2>9
<1>13. CASE LetGo
  <2>1. /\ target \in Worker /\ pc = "handoff" /\ pc' = "loop"
        /\ busy_num'[target] = busy_num[target] + 1
        /\ \A v \in Worker : v # target => busy_num'[v] = busy_num[v]
        /\ UNCHANGED <<batch, pipe, held, closing, done>>
    BY <1>13 DEF LetGo, TypeOK
  <2>2. \A v \in Worker : /\ Load(v)' = Load(v) /\ Uncounted(v)' = 0
                          /\ Uncounted(v) = IF v = target THEN 1 ELSE 0
    BY <2>1 DEF Load, Uncounted
  <2>3. \A v \in Worker : /\ busy_num[v] \in Int /\ done[v] \in Int
                          /\ Load(v) \in Nat /\ Cap(v) \in Nat
    BY LoadType, WorkerType DEF TypeOK
  <2>4. BusyExact'
    BY <2>1, <2>2, <2>3 DEF BusyExact
  <2>5. Counted'
    BY <2>1, <2>2, <2>3 DEF Counted
  <2>6. QED
    BY <2>4, <2>5
<1>14. ASSUME NEW w \in Worker, TakeConnection(w)
       PROVE  Counted' /\ BusyExact'
  <2>1. /\ pipe[w] \in Seq(Fd) /\ pipe[w] # <<>>
        /\ pipe'[w] = Tail(pipe[w]) /\ held'[w] = held[w] \cup {Head(pipe[w])}
        /\ \A v \in Worker : v # w => pipe'[v] = pipe[v] /\ held'[v] = held[v]
        /\ UNCHANGED <<pc, batch, target, busy_num, closing, done>>
    BY <1>14 DEF TakeConnection, TypeOK
  <2>2. Head(pipe[w]) \notin held[w]
    <3>1. Head(pipe[w]) \in Range(pipe[w])
      BY <2>1, RangeTail
    <3>2. QED
      BY <3>1 DEF Owner, HandedOnce
  <2>3. IsFiniteSet(held'[w]) /\ Cardinality(held'[w]) = Cardinality(held[w]) + 1
    BY <2>1, <2>2, FS_AddElement DEF Counted
  <2>4. Len(pipe'[w]) = Len(pipe[w]) - 1
    BY <2>1, RangeTail
  <2>5. \A v \in Worker : Load(v)' = Load(v) /\ Uncounted(v)' = Uncounted(v)
    <3>1. \A v \in Worker : Len(pipe[v]) \in Nat /\ Cardinality(held[v]) \in Nat
      BY LoadType
    <3>2. Load(w)' = Load(w)
      BY <2>1, <2>3, <2>4, <3>1 DEF Load
    <3>3. \A v \in Worker : v # w => Load(v)' = Load(v)
      BY <2>1 DEF Load
    <3>4. QED
      BY <2>1, <3>2, <3>3 DEF Uncounted
  <2>6. QED
    BY <2>1, <2>3, <2>5 DEF Counted, BusyExact
<1>15. ASSUME NEW w \in Worker, NEW fd \in Fd, CloseConnection(w, fd)
       PROVE  Counted' /\ BusyExact'
  <2>1. /\ fd \in held[w] /\ held'[w] = held[w] \ {fd}
        /\ closing[w] = None /\ closing'[w] = fd /\ fd # None
        /\ \A v \in Worker : v # w => closing'[v] = closing[v] /\ held'[v] = held[v]
        /\ UNCHANGED <<pc, batch, target, busy_num, pipe, done>>
    BY <1>15, WorkerType DEF CloseConnection, TypeOK
  <2>2. IsFiniteSet(held'[w]) /\ Cardinality(held'[w]) = Cardinality(held[w]) - 1
    BY <2>1, FS_RemoveElement DEF Counted
  <2>3. \A v \in Worker : Load(v)' = Load(v) /\ Uncounted(v)' = Uncounted(v)
    <3>1. \A v \in Worker : Len(pipe[v]) \in Nat /\ Cardinality(held[v]) \in Nat
      BY LoadType
    <3>2. Load(w)' = Load(w)
      BY <2>1, <2>2, <3>1 DEF Load
    <3>3. \A v \in Worker : v # w => Load(v)' = Load(v)
      BY <2>1 DEF Load
    <3>4. QED
      BY <2>1, <3>2, <3>3 DEF Uncounted
  <2>4. QED
    BY <2>1, <2>2, <2>3 DEF Counted, BusyExact
<1>16. ASSUME NEW w \in Worker, ReportDone(w)  PROVE Counted' /\ BusyExact'
  <2>1. /\ closing[w] # None /\ closing'[w] = None /\ done'[w] = done[w] + 1
        /\ \A v \in Worker : v # w => closing'[v] = closing[v] /\ done'[v] = done[v]
        /\ UNCHANGED <<pc, batch, target, busy_num, pipe, held>>
    BY <1>16 DEF ReportDone, TypeOK
  <2>2. \A v \in Worker : /\ Load(v)' = IF v = w THEN Load(v) - 1 ELSE Load(v)
                          /\ Uncounted(v)' = Uncounted(v)
    <3>1. \A v \in Worker : Len(pipe[v]) \in Nat /\ Cardinality(held[v]) \in Nat
      BY LoadType
    <3>2. QED
      BY <2>1, <3>1 DEF Load, Uncounted
  <2>3. \A v \in Worker : /\ busy_num[v] \in Int /\ done[v] \in Int
                          /\ Load(v) \in Nat /\ Cap(v) \in Nat
                          /\ Uncounted(v) \in {0, 1}
    BY LoadType, WorkerType DEF TypeOK, Uncounted
  <2>4. BusyExact'
    BY <2>1, <2>2, <2>3 DEF BusyExact
  <2>5. Counted'
    BY <2>1, <2>2, <2>3 DEF Counted
  <2>6. QED
    BY <2>4, <2>5
<1>17. QED
  BY <1>2, <1>3, <1>4, <1>5, <1>6, <1>7, <1>8, <1>9, <1>10, <1>11, <1>12,
     <1>13, <1>14, <1>15, <1>16
     DEF Next, DispatcherStep, HandleEvent, HandleRequest, ThreadStep, PeerStep

-----------------------------------------------------------------------------
(* The invariants of the hand-off *)

LEMMA HandOff == Spec => []IInv
<1>1. Init => IInv
  BY TypeInit, OwnerInit, CountInit, IInvParts
<1>2. IInv /\ [Next]_vars => IInv'
  <2> SUFFICES ASSUME IInv, [Next]_vars  PROVE IInv'
    OBVIOUS
  <2>1. TypeOK' /\ Owner' /\ Counted' /\ BusyExact'
    BY TypeNext, OwnerNext, CountNext, IInvParts
  <2>2. QED
    BY <2>1 DEF IInv, Owner
<1>3. QED
  BY <1>1, <1>2, PTL DEF Spec

(* The state of the dispatcher, of the descriptor table and of the threads *)
(* keeps its type through every step of main.c and factory.c.              *)
THEOREM TypeCorrect == Spec => []TypeOK
<1>1. IInv => TypeOK
  BY DEF IInv
<1>2. QED
  BY <1>1, HandOff, PTL

(* A connection has one owner at a time, whatever the interleaving of the  *)
(* hand-off, the wheel and the threads, and for any number of them.        *)
THEOREM ConnectionHasOneOwner == Spec => []OneOwner
<1>1. IInv => OneOwner
  BY DEF IInv
<1>2. QED
  BY <1>1, HandOff, PTL

(* busy_num counts the connections of each thread exactly.                 *)
THEOREM BusyNumIsExact == Spec => []BusyExact
<1>1. IInv => BusyExact
  BY DEF IInv
<1>2. QED
  BY <1>1, HandOff, PTL

(* A thread that reads a descriptor from its pipe always finds a free slot *)
(* ("it is always found", factory.c).                                      *)
THEOREM FreeSlotFound == Spec => []SlotAlwaysFound
<1>1. IInv => SlotAlwaysFound
  <2> SUFFICES ASSUME IInv, NEW w \in Worker  PROVE Load(w) <= Cap(w)
    BY DEF SlotAlwaysFound
  <2>1. /\ busy_num[w] \in Int /\ done[w] \in Int /\ Cap(w) \in Nat
        /\ Load(w) \in Nat /\ Uncounted(w) \in {0, 1}
    BY LoadType, WorkerType DEF IInv, TypeOK, Uncounted
  <2>2. /\ busy_num[w] + Uncounted(w) = Load(w) + done[w]
        /\ busy_num[w] + Uncounted(w) <= Cap(w) /\ done[w] >= 0
    BY DEF IInv, BusyExact, Counted
  <2>3. QED
    BY <2>1, <2>2
<1>2. QED
  BY <1>1, HandOff, PTL

-----------------------------------------------------------------------------
(* The timeout wheel *)

(* Turning the wheel past a connection that has been silent for k ticks.   *)
LEMMA Spoke ==
  ASSUME NEW r \in 0..4, NEW k \in 0..4
  PROVE  /\ (r + 1) % 5 \in 0..4
         /\ (r - k) % 5 = (r + 1) % 5 <=> k = 4
         /\ k < 4 => (r - k) % 5 = (((r + 1) % 5) - (k + 1)) % 5
         /\ (r - 0) % 5 = r
OBVIOUS

LEMMA WheelFrame ==
  ASSUME WheelKeepsTime, rotate' = rotate, roud' = roud, idle' = idle,
         \A fd \in Fd : state'[fd] > 0 => state[fd] > 0
  PROVE  WheelKeepsTime'
BY DEF WheelKeepsTime

LEMMA WheelNext == IInv /\ WheelKeepsTime /\ [Next]_vars => WheelKeepsTime'
<1> SUFFICES ASSUME IInv, WheelKeepsTime, [Next]_vars  PROVE WheelKeepsTime'
  OBVIOUS
<1>0. TypeOK /\ Owner
  BY IInvParts
<1> USE <1>0 DEF wheelVars, kernelVars, workerVars
<1>1. CASE EpollTick
  <2> SUFFICES ASSUME NEW fd \in Fd, state'[fd] > 0
               PROVE  /\ idle'[fd] < Spokes
                      /\ rotate'[fd] = (roud' - idle'[fd]) % Spokes
    BY DEF WheelKeepsTime
  <2>1. /\ roud' = (roud + 1) % 5 /\ roud \in 0..4
        /\ state[fd] > 0 /\ fd \notin Expired(roud')
        /\ rotate'[fd] = rotate[fd] /\ idle'[fd] = idle[fd] + 1
    BY <1>1 DEF EpollTick, NextSpoke, TypeOK, Spokes
  <2>2. /\ idle[fd] \in 0..4 /\ rotate[fd] = (roud - idle[fd]) % 5
        /\ rotate[fd] # roud'
    BY <2>1 DEF WheelKeepsTime, Spokes, TypeOK, Expired
  <2>3. idle[fd] < 4
    BY <2>1, <2>2, Spoke
  <2>4. QED
    BY <2>1, <2>2, <2>3, Spoke DEF Spokes
<1>2. ASSUME NEW fd \in Fd, AcceptClient(fd) \/ ClientEvent(fd)
      PROVE  WheelKeepsTime'
  <2>1. /\ rotate'[fd] = roud /\ idle'[fd] = 0 /\ roud' = roud /\ roud \in 0..4
        /\ \A g \in Fd : g # fd => /\ rotate'[g] = rotate[g]
                                   /\ idle'[g] = idle[g]
                                   /\ state'[g] = state[g]
    BY <1>2 DEF AcceptClient, ClientEvent, TypeOK, Spokes
  <2>2. rotate'[fd] = (roud' - idle'[fd]) % 5 /\ idle'[fd] < 5
    BY <2>1, Spoke
  <2>3. QED
    BY <2>1, <2>2 DEF WheelKeepsTime, Spokes
<1>3. CASE PreLogin \/ LoginOk
  <2>1. state[cur] > 0
    BY <1>3 DEF PreLogin, LoginOk, TakeRequest, Owner, MainOwns
  <2>2. \A fd \in Fd : state'[fd] > 0 => state[fd] > 0
    BY <1>3, <2>1 DEF PreLogin, LoginOk, TypeOK
  <2>3. QED
    BY <1>3, <2>2, WheelFrame DEF PreLogin, LoginOk
<1>4. CASE ClientQuit \/ LetGo
  <2>1. /\ cur \in Fd /\ state'[cur] = 0 /\ roud' = roud /\ idle' = idle
        /\ \A g \in Fd : g # cur => rotate'[g] = rotate[g] /\ state'[g] = state[g]
    BY <1>4 DEF ClientQuit, LetGo, TypeOK
  <2>2. QED
    BY <2>1 DEF WheelKeepsTime
<1>5. CASE EpollReturn \/ RefuseClient \/ Answer \/ Connect \/ UNCHANGED vars
  BY <1>5, WheelFrame DEF EpollReturn, RefuseClient, Answer, Connect, vars
<1>6. ASSUME NEW fd \in Fd, DropEvent(fd) \/ Request(fd) \/ HangUp(fd)
      PROVE  WheelKeepsTime'
  BY <1>6, WheelFrame DEF DropEvent, Request, HangUp
<1>7. ASSUME NEW w \in Worker, TransferDone(w) \/ TakeConnection(w)
                               \/ ReportDone(w)
      PROVE  WheelKeepsTime'
  BY <1>7, WheelFrame DEF TransferDone, TakeConnection, ReportDone
<1>8. ASSUME NEW w \in Worker, NEW fd \in Fd, CloseConnection(w, fd)
      PROVE  WheelKeepsTime'
  BY <1>8, WheelFrame DEF CloseConnection
<1>9. ASSUME NEW pool \in {Down, Up}, SendToThread(pool) \/ NoTransfer(pool)
      PROVE  WheelKeepsTime'
  BY <1>9, WheelFrame DEF SendToThread, NoTransfer
<1>10. QED
  BY <1>1, <1>2, <1>3, <1>4, <1>5, <1>6, <1>7, <1>8, <1>9
     DEF Next, DispatcherStep, HandleEvent, HandleRequest, ThreadStep, PeerStep

(* A connection's spoke tells how long it has been silent, and no          *)
(* connection the dispatcher holds has been silent for a full turn.        *)
THEOREM WheelTellsTheTime == Spec => []WheelKeepsTime
<1>1. Init => WheelKeepsTime
  BY DEF Init, WheelKeepsTime
<1>2. QED
  BY <1>1, WheelNext, HandOff, PTL DEF Spec

(* The wheel closes a connection only on its fifth tick of silence.        *)
THEOREM TimeoutsAreLate == Spec => OnlyIdleClosed
<1>1. ASSUME IInv, WheelKeepsTime, [Next]_vars
      PROVE  [\A fd \in Fd : pc = "loop" /\ state[fd] > 0 /\ state'[fd] = 0
                               => idle[fd] = Spokes - 1]_vars
  <2>0. TypeOK
    BY <1>1 DEF IInv
  <2> SUFFICES ASSUME NEW fd \in Fd, ~ UNCHANGED vars,
                      pc = "loop", state[fd] > 0, state'[fd] = 0
               PROVE  idle[fd] = Spokes - 1
    OBVIOUS
  <2> USE <2>0 DEF wheelVars, kernelVars, workerVars
  <2>1. CASE EpollTick
    <3>1. /\ roud' = (roud + 1) % 5 /\ roud \in 0..4 /\ fd \in Expired(roud')
      BY <2>1 DEF EpollTick, NextSpoke, TypeOK, Spokes
    <3>2. /\ idle[fd] \in 0..4 /\ rotate[fd] = (roud - idle[fd]) % 5
          /\ rotate[fd] = roud'
      BY <1>1, <3>1 DEF WheelKeepsTime, Spokes, TypeOK, Expired
    <3>3. QED
      BY <3>1, <3>2, Spoke DEF Spokes
  <2>2. state'[fd] = state[fd] \/ EpollTick
    <3>1. CASE EpollReturn \/ RefuseClient \/ Connect
      BY <3>1 DEF EpollReturn, RefuseClient, Connect
    <3>2. ASSUME NEW g \in Fd, ClientEvent(g) \/ DropEvent(g) \/ Request(g)
                               \/ HangUp(g)
          PROVE  state'[fd] = state[fd]
      BY <3>2 DEF ClientEvent, DropEvent, Request, HangUp
    <3>3. ASSUME NEW g \in Fd, AcceptClient(g)
          PROVE  state'[fd] = state[fd] \/ state'[fd] = 1
      BY <3>3 DEF AcceptClient, TypeOK
    <3>4. ASSUME NEW w \in Worker, TransferDone(w) \/ TakeConnection(w)
                                   \/ ReportDone(w)
          PROVE  state'[fd] = state[fd]
      BY <3>4 DEF TransferDone, TakeConnection, ReportDone
    <3>5. ASSUME NEW w \in Worker, NEW g \in Fd, CloseConnection(w, g)
          PROVE  state'[fd] = state[fd]
      BY <3>5 DEF CloseConnection
    <3>6. ~(ClientQuit \/ PreLogin \/ LoginOk \/ Answer \/ LetGo)
      BY DEF ClientQuit, PreLogin, LoginOk, Answer, LetGo, TakeRequest
    <3>7. ~(\E pool \in {Down, Up} : SendToThread(pool) \/ NoTransfer(pool))
      BY DEF SendToThread, NoTransfer, TakeRequest
    <3>8. QED
      BY <1>1, <3>1, <3>2, <3>3, <3>4, <3>5, <3>6, <3>7
         DEF Next, DispatcherStep, HandleEvent, HandleRequest, ThreadStep, PeerStep
  <2>3. QED
    BY <2>1, <2>2
<1>2. QED
  BY <1>1, WheelTellsTheTime, HandOff, PTL DEF Spec, OnlyIdleClosed

-----------------------------------------------------------------------------
(* client_sum *)

Served == {fd \in Fd : state[fd] > 0}

LEMMA SumFrame ==
  ASSUME SumExact, client_sum' = client_sum, Served' = Served
  PROVE  SumExact'
BY DEF SumExact, Served

LEMMA SumNext == IInv /\ SumExact /\ [Next]_vars => SumExact'
<1> SUFFICES ASSUME IInv, SumExact, [Next]_vars  PROVE SumExact'
  OBVIOUS
<1>0. TypeOK /\ Owner
  BY IInvParts
<1> USE <1>0 DEF wheelVars, kernelVars, workerVars
<1>1. /\ IsFiniteSet(Served) /\ Cardinality(Served) \in Nat
      /\ client_sum = Cardinality(Served) /\ client_sum <= MAX_CONNECT_NUM
      /\ MAX_CONNECT_NUM \in Nat
  BY FdAssumption, DispatcherAssumption, FS_Subset, FS_CardinalityType
     DEF Served, SumExact
<1>2. CASE EpollTick
  <2> DEFINE late == Expired(roud')
  <2>1. late \subseteq Served
    <3>1. roud' \in 0..4
      BY <1>2 DEF EpollTick, NextSpoke, TypeOK, Spokes
    <3>2. \A fd \in late : fd \in Fd /\ rotate[fd] >= 0
      BY <3>1 DEF Expired
    <3>3. QED
      BY <3>2 DEF Owner, MainOwns, TypeOK, Served
  <2>2. Served' = Served \ late /\ client_sum' = client_sum - Cardinality(late)
    BY <1>2 DEF EpollTick, NextSpoke, Served
  <2>3. Served \cap late = late
    BY <2>1
  <2>4. /\ Cardinality(Served \ late) = Cardinality(Served) - Cardinality(late)
        /\ Cardinality(late) \in Nat
    BY <1>1, <2>1, <2>3, FS_Difference, FS_Subset, FS_CardinalityType
  <2>5. QED
    BY <1>1, <2>2, <2>4 DEF SumExact, Served
<1>3. ASSUME NEW fd \in Fd, AcceptClient(fd)  PROVE SumExact'
  <2>1. fd \notin Served
    BY <1>3 DEF AcceptClient, Owner, MainOwns, TypeOK, Served
  <2>2. /\ Served' = Served \cup {fd} /\ client_sum' = client_sum + 1
        /\ client_sum < MAX_CONNECT_NUM
    BY <1>3 DEF AcceptClient, Served, TypeOK
  <2>3. Cardinality(Served \cup {fd}) = Cardinality(Served) + 1
    BY <1>1, <2>1, FS_AddElement
  <2>4. QED
    BY <1>1, <2>2, <2>3 DEF SumExact, Served
<1>4. CASE ClientQuit \/ LetGo
  <2>1. cur \in Served
    BY <1>4 DEF ClientQuit, LetGo, Owner, MainOwns, TypeOK, Served
  <2>2. Served' = Served \ {cur} /\ client_sum' = client_sum - 1
    <3>1. /\ cur \in Fd /\ state' = [state EXCEPT ![cur] = 0]
          /\ client_sum' = client_sum - 1
      BY <1>4 DEF ClientQuit, LetGo, TypeOK
    <3>2. \A fd \in Fd : state'[fd] = IF fd = cur THEN 0 ELSE state[fd]
      BY <3>1 DEF TypeOK
    <3>3. QED
      BY <3>1, <3>2 DEF Served
  <2>3. Cardinality(Served \ {cur}) = Cardinality(Served) - 1
    BY <1>1, <2>1, FS_RemoveElement
  <2>4. QED
    BY <1>1, <2>2, <2>3 DEF SumExact, Served
<1>5. CASE PreLogin \/ LoginOk
  <2>1. cur \in Served
    BY <1>5 DEF PreLogin, LoginOk, TakeRequest, Owner, MainOwns, TypeOK, Served
  <2>2. Served' = Served
    <3>1. /\ cur \in Fd /\ state[cur] > 0
          /\ \E k \in {1, 2} : state' = [state EXCEPT ![cur] = k]
      BY <1>5, <2>1 DEF PreLogin, LoginOk, Served
    <3>2. \A fd \in Fd : state'[fd] > 0 <=> state[fd] > 0
      BY <3>1 DEF TypeOK
    <3>3. QED
      BY <3>2 DEF Served
  <2>3. QED
    BY <1>5, <2>2, SumFrame DEF PreLogin, LoginOk
<1>6. CASE EpollReturn \/ RefuseClient \/ Answer \/ Connect \/ UNCHANGED vars
  BY <1>6, SumFrame DEF EpollReturn, RefuseClient, Answer, Connect, vars, Served
<1>7. ASSUME NEW fd \in Fd,
             ClientEvent(fd) \/ DropEvent(fd) \/ Request(fd) \/ HangUp(fd)
      PROVE  SumExact'
  BY <1>7, SumFrame DEF ClientEvent, DropEvent, Request, HangUp, Served
<1>8. ASSUME NEW w \in Worker, TransferDone(w) \/ TakeConnection(w)
                               \/ ReportDone(w)
      PROVE  SumExact'
  BY <1>8, SumFrame DEF TransferDone, TakeConnection, ReportDone, Served
<1>9. ASSUME NEW w \in Worker, NEW fd \in Fd, CloseConnection(w, fd)
      PROVE  SumExact'
  BY <1>9, SumFrame DEF CloseConnection, Served
<1>10. ASSUME NEW pool \in {Down, Up}, SendToThread(pool) \/ NoTransfer(pool)
      PROVE  SumExact'
  BY <1>10, SumFrame DEF SendToThread, NoTransfer, Served
<1>11. QED
  BY <1>2, <1>3, <1>4, <1>5, <1>6, <1>7, <1>8, <1>9, <1>10
     DEF Next, DispatcherStep, HandleEvent, HandleRequest, ThreadStep, PeerStep

(* client_sum is the number of connections the dispatcher holds and stays  *)
(* within MAX_CONNECT_NUM, whichever way connections come and go.          *)
THEOREM ClientSumIsExact == Spec => []SumExact
<1>1. Init => SumExact
  <2> SUFFICES ASSUME Init  PROVE SumExact
    OBVIOUS
  <2>1. Served = {}
    BY DEF Init, Served
  <2>2. Cardinality(Served) = 0
    BY <2>1, FS_EmptySet
  <2>3. client_sum = 0 /\ 0 <= MAX_CONNECT_NUM
    BY DispatcherAssumption DEF Init
  <2>4. QED
    BY <2>2, <2>3 DEF SumExact, Served
<1>2. QED
  BY <1>1, SumNext, HandOff, PTL DEF Spec

-----------------------------------------------------------------------------
(* Blocking calls *)

LEMMA EventsNext == IInv /\ EventsAreReal /\ [Next]_vars => EventsAreReal'
<1> SUFFICES ASSUME IInv, EventsAreReal, [Next]_vars  PROVE EventsAreReal'
  OBVIOUS
<1>0. TypeOK /\ Owner
  BY IInvParts
<1> USE <1>0 DEF EventsAreReal, RecvBlocksOnNewcomer, RecvHasInput, wheelVars,
                 kernelVars, workerVars
<1>ready. \A fd \in Fd : fd \in Ready => fd \in pending \cup gone
  BY WorkerType DEF Ready
<1>1. CASE EpollReturn
  BY <1>1, <1>ready DEF EpollReturn
<1>2. CASE EpollTick
  <2>1. \A fd \in Fd : state'[fd] = 2 =>
          (fd \in pending \cup gone => fd \in pending' \cup gone')
    BY <1>2 DEF EpollTick, TypeOK
  <2>2. batch' = Ready /\ pc = "loop" /\ pc' = pc
    BY <1>2 DEF EpollTick
  <2>3. QED
    BY <1>ready, <2>1, <2>2
<1>3. ASSUME NEW fd \in Fd, AcceptClient(fd)  PROVE EventsAreReal'
  BY <1>3 DEF AcceptClient, TypeOK
<1>4. CASE RefuseClient \/ Connect
  BY <1>4 DEF RefuseClient, Connect
<1>5. ASSUME NEW fd \in Fd,
             ClientEvent(fd) \/ DropEvent(fd) \/ Request(fd) \/ HangUp(fd)
      PROVE  EventsAreReal'
  BY <1>5 DEF ClientEvent, DropEvent, Request, HangUp, TypeOK
<1>6. ASSUME NEW w \in Worker, TransferDone(w) \/ TakeConnection(w)
                               \/ ReportDone(w)
      PROVE  EventsAreReal'
  BY <1>6 DEF TransferDone, TakeConnection, ReportDone, TypeOK
<1>7. ASSUME NEW w \in Worker, NEW fd \in Fd, CloseConnection(w, fd)
      PROVE  EventsAreReal'
  BY <1>7 DEF CloseConnection
<1>8. CASE ClientQuit \/ PreLogin \/ LoginOk \/ Answer \/ LetGo
  BY <1>8 DEF ClientQuit, PreLogin, LoginOk, Answer, LetGo, TakeRequest, TypeOK
<1>9. ASSUME NEW pool \in {Down, Up}, SendToThread(pool) \/ NoTransfer(pool)
      PROVE  EventsAreReal'
  BY <1>9 DEF SendToThread, NoTransfer, TakeRequest, TypeOK
<1>10. CASE UNCHANGED vars
  BY <1>10 DEF vars
<1>11. QED
  BY <1>1, <1>2, <1>3, <1>4, <1>5, <1>6, <1>7, <1>8, <1>9, <1>10
     DEF Next, DispatcherStep, HandleEvent, HandleRequest, ThreadStep, PeerStep

(* The blocking one_recv of main.c waits in vain only for a connection     *)
(* that has not logged in yet, for any interleaving of the wheel, accept   *)
(* and the threads.                                                        *)
THEOREM BlocksOnlyOnNewcomers == Spec => []RecvBlocksOnNewcomer
<1>1. Init => EventsAreReal
  BY DEF Init, EventsAreReal, RecvBlocksOnNewcomer, RecvHasInput
<1>2. EventsAreReal => RecvBlocksOnNewcomer
  BY DEF EventsAreReal
<1>3. QED
  BY <1>1, <1>2, EventsNext, HandOff, PTL DEF Spec

=============================================================================
