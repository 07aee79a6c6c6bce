------------------------------ MODULE Dispatcher ------------------------------
(***************************************************************************)
(* The main thread of the C server (src/src/main.c): one epoll loop that   *)
(* accepts connections, ages them on a five-spoke timeout wheel, answers   *)
(* requests, and hands a connection over to a transfer thread through a    *)
(* socket pair.  A transfer thread (src/src/factory.c) is seen here only   *)
(* through what it shares with the dispatcher: the descriptor table, the   *)
(* pipe it reads, the completions it writes back and the slots it fills.   *)
(*                                                                         *)
(* A request is abstracted to the effect it has on the connection, and a   *)
(* peer to whether it has sent something and whether it has hung up.       *)
(***************************************************************************)
EXTENDS Integers, FiniteSets, Sequences, Functions

CONSTANTS
  Fd,                \* descriptor numbers that accept() may return
  Down, Up,          \* the download and the upload threads, in array order
  AVG_CLIENT_NUM,    \* connections one download thread serves at most
  UP_TASK_NUM,       \* slots of the task ring of one upload thread
  MAX_CONNECT_NUM,   \* connections the dispatcher serves at most
  MaxBacklog,        \* bound on connections waiting to be accepted
  Listen,            \* the listening socket, as an event
  None               \* no descriptor, no thread

Worker == Down \cup Up
Spokes == 5
Cap(w) == IF w \in Down THEN AVG_CLIENT_NUM ELSE UP_TASK_NUM - 1

(* The most connections that are open at once: those the dispatcher serves *)
(* and those every thread serves.                                          *)
FdBound == MAX_CONNECT_NUM + Cardinality(Down) * AVG_CLIENT_NUM
           + Cardinality(Up) * (UP_TASK_NUM - 1)

(* The descriptor table has a number left for accept() to return.          *)
ASSUME FdAssumption == IsFiniteSet(Fd) /\ Cardinality(Fd) > FdBound

ASSUME DispatcherAssumption ==
  /\ IsFiniteSet(Down) /\ IsFiniteSet(Up)
  /\ Down \in SUBSET Nat /\ Up \in SUBSET Nat /\ Down \cap Up = {}
  /\ AVG_CLIENT_NUM \in Nat \ {0}
  /\ UP_TASK_NUM \in Nat \ {0, 1}
  /\ MAX_CONNECT_NUM \in Nat \ {0}
  /\ MaxBacklog \in Nat \ {0}
  /\ None \notin Fd \cup Worker /\ Listen \notin Fd \cup Worker
  /\ Fd \cap Worker = {}

VARIABLES
  pc,          \* "loop": between two events; "recv": in one_recv; "handoff"
  batch,       \* evs[]: events returned by epoll_wait and not handled yet
  cur,         \* nn_fd while a request is being handled
  target,      \* the thread chosen by math_task during a hand-off
  state,       \* client[fd].state: 0 absent, 1 connected, 2 logged in
  rotate,      \* client[fd].rotate: spoke of the wheel, -1 when absent
  roud,        \* current spoke
  client_sum,  \* number of connections the dispatcher counts
  busy_num,    \* per thread, the connections the dispatcher counts
  open,        \* the process' descriptor table
  epoll,       \* descriptors registered with the dispatcher's epoll
  backlog,     \* connections waiting in the listen queue
  pending,     \* connections with a request to read
  gone,        \* connections whose peer has hung up
  pipe,        \* descriptors on their way to each thread
  held,        \* descriptors in the slots of each thread
  closing,     \* descriptor a thread has closed and not yet reported
  done,        \* completion words on their way back from each thread
  idle         \* history: wheel ticks since the last event of a connection

wheelVars  == <<state, rotate, roud, client_sum, idle>>
kernelVars == <<open, epoll, backlog, pending, gone>>
workerVars == <<held, closing>>
vars == <<pc, batch, cur, target, wheelVars, busy_num, kernelVars, pipe,
          workerVars, done>>

Init ==
  /\ pc = "loop" /\ batch = {} /\ cur = None /\ target = None
  /\ state = [fd \in Fd |-> 0]
  /\ rotate = [fd \in Fd |-> -1]
  /\ roud = 0 /\ client_sum = 0
  /\ busy_num = [w \in Worker |-> 0]
  /\ open = {} /\ epoll = {} /\ backlog = 0 /\ pending = {} /\ gone = {}
  /\ pipe = [w \in Worker |-> <<>>]
  /\ held = [w \in Worker |-> {}]
  /\ closing = [w \in Worker |-> None]
  /\ done = [w \in Worker |-> 0]
  /\ idle = [fd \in Fd |-> 0]

-----------------------------------------------------------------------------
(* epoll_wait and the timeout wheel *)

Ready == {fd \in epoll : fd \in pending \/ fd \in gone}
         \cup {w \in Worker : done[w] > 0}
         \cup (IF backlog > 0 THEN {Listen} ELSE {})

(* epoll_wait returns and less than five seconds have passed. *)
EpollReturn ==
  /\ pc = "loop" /\ batch = {} /\ Ready # {}
  /\ batch' = Ready
  /\ UNCHANGED <<pc, cur, target, wheelVars, busy_num, kernelVars, pipe,
                 workerVars, done>>

NextSpoke == (roud + 1) % Spokes

(* Mutation: two spokes expire at once. *)
Expired_Early(spoke) ==
  {fd \in Fd : rotate[fd] \in {spoke, (spoke + 1) % Spokes}}

Expired(spoke) == {fd \in Fd : rotate[fd] = spoke}

(* epoll_wait returns, five seconds have passed: the wheel turns and every *)
(* connection on the new spoke is closed.  Its event stays in the batch.   *)
EpollTick ==
  /\ pc = "loop" /\ batch = {}
  /\ batch' = Ready
  /\ roud' = NextSpoke
  /\ LET late == Expired(roud')
     IN /\ state' = [fd \in Fd |-> IF fd \in late THEN 0 ELSE state[fd]]
        /\ rotate' = [fd \in Fd |-> IF fd \in late THEN -1 ELSE rotate[fd]]
        /\ client_sum' = client_sum - Cardinality(late)
        /\ open' = open \ late
        /\ epoll' = epoll \ late
        /\ pending' = pending \ late
        /\ gone' = gone \ late
        /\ idle' = [fd \in Fd |-> IF state[fd] = 0 \/ fd \in late THEN 0
                                  ELSE idle[fd] + 1]
  /\ UNCHANGED <<pc, cur, target, busy_num, backlog, pipe, workerVars, done>>

-----------------------------------------------------------------------------
(* One event of the batch *)

(* accept(): the new connection is refused when the dispatcher is full. *)
AcceptClient(fd) ==
  /\ pc = "loop" /\ Listen \in batch
  /\ batch' = batch \ {Listen}
  /\ backlog' = backlog - 1
  /\ client_sum < MAX_CONNECT_NUM
  /\ fd \in Fd \ open
  /\ open' = open \cup {fd}
  /\ epoll' = epoll \cup {fd}
  /\ state' = [state EXCEPT ![fd] = 1]
  /\ rotate' = [rotate EXCEPT ![fd] = roud]
  /\ idle' = [idle EXCEPT ![fd] = 0]
  /\ client_sum' = client_sum + 1
  /\ UNCHANGED <<pc, cur, target, roud, busy_num, pending, gone, pipe,
                 workerVars, done>>

RefuseClient ==
  /\ pc = "loop" /\ Listen \in batch
  /\ batch' = batch \ {Listen}
  /\ backlog' = backlog - 1
  /\ client_sum >= MAX_CONNECT_NUM
  /\ UNCHANGED <<pc, cur, target, wheelVars, busy_num, open, epoll, pending,
                 gone, pipe, workerVars, done>>

(* Mutation: the completion is read and the thread is not credited. *)
TransferDone_Leak(w) ==
  /\ pc = "loop" /\ w \in batch
  /\ batch' = batch \ {w}
  /\ done' = [done EXCEPT ![w] = @ - 1]
  /\ UNCHANGED <<pc, cur, target, wheelVars, busy_num, kernelVars, pipe,
                 workerVars>>

(* A transfer thread reports that it is done with one connection. *)
TransferDone(w) ==
  /\ pc = "loop" /\ w \in batch
  /\ batch' = batch \ {w}
  /\ done' = [done EXCEPT ![w] = @ - 1]
  /\ busy_num' = [busy_num EXCEPT ![w] = @ - 1]
  /\ UNCHANGED <<pc, cur, target, wheelVars, kernelVars, pipe, workerVars>>

(* Mutation: an event stays in the batch and is handled again. *)
ClientEvent_Twice(fd) ==
  /\ pc = "loop" /\ fd \in batch
  /\ state[fd] > 0
  /\ pc' = "recv" /\ cur' = fd
  /\ rotate' = [rotate EXCEPT ![fd] = roud]
  /\ idle' = [idle EXCEPT ![fd] = 0]
  /\ UNCHANGED <<batch, target, state, roud, client_sum, busy_num, kernelVars,
                 pipe, workerVars, done>>

(* A client event: the connection moves to the current spoke and the       *)
(* dispatcher enters the blocking one_recv.                                *)
ClientEvent(fd) ==
  /\ pc = "loop" /\ fd \in batch
  /\ batch' = batch \ {fd}
  /\ state[fd] > 0
  /\ pc' = "recv" /\ cur' = fd
  /\ rotate' = [rotate EXCEPT ![fd] = roud]
  /\ idle' = [idle EXCEPT ![fd] = 0]
  /\ UNCHANGED <<target, state, roud, client_sum, busy_num, kernelVars, pipe,
                 workerVars, done>>

(* An event of a connection the wheel closed at the head of the batch. *)
DropEvent(fd) ==
  /\ pc = "loop" /\ fd \in batch
  /\ batch' = batch \ {fd}
  /\ state[fd] = 0
  /\ UNCHANGED <<pc, cur, target, wheelVars, busy_num, kernelVars, pipe,
                 workerVars, done>>

-----------------------------------------------------------------------------
(* one_recv has returned: what each kind of request does.  With nothing to *)
(* read and the peer still there, no action is enabled: the thread blocks. *)

(* Mutation: the departed client is still counted. *)
ClientQuit_KeepsSum ==
  /\ pc = "recv" /\ cur \in gone /\ cur \notin pending
  /\ pc' = "loop" /\ cur' = None
  /\ state' = [state EXCEPT ![cur] = 0]
  /\ rotate' = [rotate EXCEPT ![cur] = -1]
  /\ open' = open \ {cur}
  /\ epoll' = epoll \ {cur}
  /\ gone' = gone \ {cur}
  /\ UNCHANGED <<batch, target, roud, client_sum, idle, busy_num, backlog,
                 pending, pipe, workerVars, done>>

(* one_recv returned -1: the peer hung up. *)
ClientQuit ==
  /\ pc = "recv" /\ cur \in gone /\ cur \notin pending
  /\ pc' = "loop" /\ cur' = None
  /\ state' = [state EXCEPT ![cur] = 0]
  /\ rotate' = [rotate EXCEPT ![cur] = -1]
  /\ client_sum' = client_sum - 1
  /\ open' = open \ {cur}
  /\ epoll' = epoll \ {cur}
  /\ gone' = gone \ {cur}
  /\ UNCHANGED <<batch, target, roud, idle, busy_num, backlog, pending, pipe,
                 workerVars, done>>

TakeRequest == pc = "recv" /\ cur \in pending /\ pending' = pending \ {cur}

(* LOGIN_PRE, REGISTER_PRE: name the account, the session drops to state 1. *)
PreLogin ==
  /\ TakeRequest
  /\ pc' = "loop" /\ cur' = None
  /\ state' = [state EXCEPT ![cur] = 1]
  /\ UNCHANGED <<batch, target, rotate, roud, client_sum, idle, busy_num,
                 open, epoll, backlog, gone, pipe, workerVars, done>>

(* REGISTER_Q, TOKEN_PLESE with credentials the database accepts. *)
LoginOk ==
  /\ TakeRequest
  /\ pc' = "loop" /\ cur' = None
  /\ state' = [state EXCEPT ![cur] = 2]
  /\ UNCHANGED <<batch, target, rotate, roud, client_sum, idle, busy_num,
                 open, epoll, backlog, gone, pipe, workerVars, done>>

(* Requests that are answered, or ignored, and leave the connection where  *)
(* it is: LS_Q, OPERATE_Q, LOGIN_Q, the *_PRE of transfers, and failed     *)
(* credentials.                                                            *)
Answer ==
  /\ TakeRequest
  /\ pc' = "loop" /\ cur' = None
  /\ UNCHANGED <<batch, target, wheelVars, busy_num, open, epoll, backlog,
                 gone, pipe, workerVars, done>>

(* Mutation: a full thread is still eligible. *)
MathTask_OffByOne(pool) ==
  {w \in pool : /\ busy_num[w] <= Cap(w)
                /\ \A v \in pool : \/ busy_num[w] < busy_num[v]
                                   \/ busy_num[w] = busy_num[v] /\ w <= v}

(* math_task: the least busy thread, the first of them on a tie, unless it *)
(* is full.  The set is empty when the code returns -1.                    *)
MathTask(pool) ==
  {w \in pool : /\ busy_num[w] < Cap(w)
                /\ \A v \in pool : \/ busy_num[w] < busy_num[v]
                                   \/ busy_num[w] = busy_num[v] /\ w <= v}

(* DOWNLOAD_Q, UPLOAD_Q: write the descriptor into the thread's pipe.  The *)
(* thread may run before the dispatcher lets go of the descriptor.         *)
SendToThread(pool) ==
  /\ TakeRequest
  /\ state[cur] = 2
  /\ \E w \in MathTask(pool) :
       /\ target' = w
       /\ pipe' = [pipe EXCEPT ![w] = Append(@, cur)]
  /\ pc' = "handoff"
  /\ UNCHANGED <<batch, cur, wheelVars, busy_num, open, epoll, backlog, gone,
                 workerVars, done>>

(* Mutation: the handed-over connection stays on the wheel. *)
LetGo_KeepsSpoke ==
  /\ pc = "handoff"
  /\ pc' = "loop" /\ cur' = None /\ target' = None
  /\ busy_num' = [busy_num EXCEPT ![target] = @ + 1]
  /\ epoll' = epoll \ {cur}
  /\ state' = [state EXCEPT ![cur] = 0]
  /\ client_sum' = client_sum - 1
  /\ gone' = gone \ {cur}
  /\ UNCHANGED <<batch, rotate, roud, idle, open, backlog, pending, pipe,
                 workerVars, done>>

(* The rest of the hand-off: count it and forget the connection. *)
LetGo ==
  /\ pc = "handoff"
  /\ pc' = "loop" /\ cur' = None /\ target' = None
  /\ busy_num' = [busy_num EXCEPT ![target] = @ + 1]
  /\ epoll' = epoll \ {cur}
  /\ state' = [state EXCEPT ![cur] = 0]
  /\ rotate' = [rotate EXCEPT ![cur] = -1]
  /\ client_sum' = client_sum - 1
  /\ gone' = gone \ {cur}
  /\ UNCHANGED <<batch, roud, idle, open, backlog, pending, pipe, workerVars,
                 done>>

(* The same requests before login, or with every thread of the pool full.  *)
NoTransfer(pool) ==
  /\ TakeRequest
  /\ state[cur] < 2 \/ MathTask(pool) = {}
  /\ pc' = "loop" /\ cur' = None
  /\ UNCHANGED <<batch, target, wheelVars, busy_num, open, epoll, backlog,
                 gone, pipe, workerVars, done>>

-----------------------------------------------------------------------------
(* The transfer threads, as the dispatcher sees them *)

(* Read one descriptor from the pipe and put it in a free slot. *)
TakeConnection(w) ==
  /\ closing[w] = None /\ pipe[w] # <<>>
  /\ held' = [held EXCEPT ![w] = @ \cup {Head(pipe[w])}]
  /\ pipe' = [pipe EXCEPT ![w] = Tail(@)]
  /\ UNCHANGED <<pc, batch, cur, target, wheelVars, busy_num, kernelVars,
                 closing, done>>

(* The transfer is over or the peer is lost: close the connection ... *)
CloseConnection(w, fd) ==
  /\ closing[w] = None /\ fd \in held[w]
  /\ closing' = [closing EXCEPT ![w] = fd]
  /\ held' = [held EXCEPT ![w] = @ \ {fd}]
  /\ open' = open \ {fd}
  /\ epoll' = epoll \ {fd}
  /\ UNCHANGED <<pc, batch, cur, target, wheelVars, busy_num, backlog,
                 pending, gone, pipe, done>>

(* ... then free the slot and write one word back. *)
ReportDone(w) ==
  /\ closing[w] # None
  /\ closing' = [closing EXCEPT ![w] = None]
  /\ done' = [done EXCEPT ![w] = @ + 1]
  /\ UNCHANGED <<pc, batch, cur, target, wheelVars, busy_num, kernelVars,
                 pipe, held>>

-----------------------------------------------------------------------------
(* The peers *)

Connect ==
  /\ backlog < MaxBacklog
  /\ backlog' = backlog + 1
  /\ UNCHANGED <<pc, batch, cur, target, wheelVars, busy_num, open, epoll,
                 pending, gone, pipe, workerVars, done>>

Request(fd) ==
  /\ state[fd] > 0 /\ fd \notin pending \cup gone
  /\ ~(pc = "handoff" /\ fd = cur)
  /\ pending' = pending \cup {fd}
  /\ UNCHANGED <<pc, batch, cur, target, wheelVars, busy_num, open, epoll,
                 backlog, gone, pipe, workerVars, done>>

HangUp(fd) ==
  /\ state[fd] > 0 /\ fd \notin gone
  /\ gone' = gone \cup {fd}
  /\ UNCHANGED <<pc, batch, cur, target, wheelVars, busy_num, open, epoll,
                 backlog, pending, pipe, workerVars, done>>

-----------------------------------------------------------------------------
HandleEvent ==
  \/ RefuseClient
  \/ \E fd \in Fd : AcceptClient(fd) \/ ClientEvent(fd) \/ DropEvent(fd)
  \/ \E w \in Worker : TransferDone(w)

HandleRequest ==
  \/ ClientQuit \/ PreLogin \/ LoginOk \/ Answer \/ LetGo
  \/ \E pool \in {Down, Up} : SendToThread(pool) \/ NoTransfer(pool)

DispatcherStep == EpollReturn \/ EpollTick \/ HandleEvent \/ HandleRequest

ThreadStep(w) ==
  \/ TakeConnection(w)
  \/ \E fd \in Fd : CloseConnection(w, fd)
  \/ ReportDone(w)

PeerStep == Connect \/ \E fd \in Fd : Request(fd) \/ HangUp(fd)

Next == DispatcherStep \/ (\E w \in Worker : ThreadStep(w)) \/ PeerStep

Spec == Init /\ [][Next]_vars

-----------------------------------------------------------------------------
(* Properties *)

(* Connections in the hands of thread w: on the way to it or in a slot.    *)
Handed(w) == Range(pipe[w]) \cup held[w]

(* Slots of thread w that are or will be needed, counting the one whose    *)
(* connection is closed and not yet reported.                              *)
Load(w) == Len(pipe[w]) + Cardinality(held[w])
           + (IF closing[w] = None THEN 0 ELSE 1)

(* One while the dispatcher has written to w's pipe and not counted it.    *)
Uncounted(w) == IF pc = "handoff" /\ target = w THEN 1 ELSE 0

(* Every variable has its type, and a connection is on the wheel and in    *)
(* epoll as long as its state says it is the dispatcher's.                 *)
TypeOK ==
  /\ pc \in {"loop", "recv", "handoff"}
  /\ batch \in SUBSET (Fd \cup Worker \cup {Listen})
  /\ cur \in Fd \cup {None} /\ (pc # "loop" => cur \in Fd)
  /\ target \in Worker \cup {None} /\ (pc = "handoff" => target \in Worker)
  /\ state \in [Fd -> 0..2]
  /\ rotate \in [Fd -> -1..Spokes-1]
  /\ roud \in 0..Spokes-1
  /\ client_sum \in Int
  /\ busy_num \in [Worker -> Int]
  /\ open \in SUBSET Fd /\ epoll \in SUBSET Fd
  /\ backlog \in Int /\ pending \in SUBSET Fd /\ gone \in SUBSET Fd
  /\ pipe \in [Worker -> Seq(Fd)]
  /\ held \in [Worker -> SUBSET Fd]
  /\ closing \in [Worker -> Fd \cup {None}]
  /\ done \in [Worker -> Int]
  /\ idle \in [Fd -> Nat]

(* The counters of math_task are exact: what the dispatcher believes a     *)
(* thread serves is what is on its way to it, in its slots, or finished    *)
(* and unread, at every interleaving of the hand-off with the thread.      *)
BusyExact ==
  \A w \in Worker : busy_num[w] + Uncounted(w) = Load(w) + done[w]

(* The comment of down_func at its search for a free slot, "it is always   *)
(* found": a thread never has more connections than slots, those still in  *)
(* its pipe included.                                                      *)
SlotAlwaysFound == \A w \in Worker : Load(w) <= Cap(w)

(* client_sum, which admission compares with MAX_CONNECT_NUM, is the       *)
(* number of connections the dispatcher holds, whichever of the four ways  *)
(* out they take, and never passes the limit.                              *)
SumExact ==
  /\ client_sum = Cardinality({fd \in Fd : state[fd] > 0})
  /\ client_sum <= MAX_CONNECT_NUM

(* A connection has one owner.  What is handed to a thread is open, is in  *)
(* no other thread's hands, is not closed by the wheel or the dispatcher,  *)
(* and has left client[] and epoll as soon as the hand-off is over.        *)
OneOwner ==
  \A w \in Worker : \A fd \in Handed(w) :
    /\ fd \in open
    /\ \A v \in Worker : v # w => fd \notin Handed(v)
    /\ (pc = "handoff" /\ cur = fd)
       \/ (state[fd] = 0 /\ rotate[fd] = -1 /\ fd \notin epoll)

(* The wheel tells the time: a connection's spoke is as far behind the     *)
(* current one as it has been silent, and none outlives a full turn.       *)
WheelKeepsTime ==
  \A fd \in Fd : state[fd] > 0 =>
    /\ idle[fd] < Spokes
    /\ rotate[fd] = (roud - idle[fd]) % Spokes

(* A turn of the wheel closes only connections that have been silent for   *)
(* the four ticks before.                                                  *)
OnlyIdleClosed ==
  [][\A fd \in Fd : pc = "loop" /\ state[fd] > 0 /\ state'[fd] = 0
                        => idle[fd] = Spokes - 1]_vars

(* The comment at the request branch, "a connected client has made a       *)
(* request": one_recv is entered only when there is something to read or   *)
(* the peer is gone, so the dispatcher never blocks on one client.         *)
RecvHasInput == pc = "recv" => cur \in pending \cup gone

(* It does block, but only on a connection that has not logged in: one     *)
(* that accept() gave a number whose event was still in the batch.         *)
RecvBlocksOnNewcomer == RecvHasInput \/ state[cur] = 1

-----------------------------------------------------------------------------
(* What makes the invariants inductive *)

(* No descriptor is handed over twice: the pipe has no duplicates, and     *)
(* nothing in it is in a slot.                                             *)
HandedOnce ==
  \A w \in Worker :
    /\ \A i, j \in 1..Len(pipe[w]) : pipe[w][i] = pipe[w][j] => i = j
    /\ Range(pipe[w]) \cap held[w] = {}

(* The dispatcher's connections are open and on the wheel, the others are  *)
(* not on it; a request in hand belongs to one of them.                    *)
MainOwns ==
  /\ \A fd \in Fd :
       /\ IF state[fd] > 0 THEN rotate[fd] >= 0 ELSE rotate[fd] = -1
       /\ state[fd] > 0 => fd \in open \/ (pc = "handoff" /\ cur = fd)
  /\ pc # "loop" => state[cur] > 0

(* math_task never picks a full thread, and no completion is read twice.   *)
Counted ==
  \A w \in Worker :
    /\ busy_num[w] + Uncounted(w) <= Cap(w)
    /\ done[w] >= 0
    /\ w \in batch => done[w] > 0
    /\ IsFiniteSet(held[w])

(* The events of the batch are real, but for those of connections closed   *)
(* since, and of those that have taken their numbers; each is handled once. *)
EventsAreReal ==
  /\ \A fd \in Fd : fd \in batch /\ state[fd] = 2 => fd \in pending \cup gone
  /\ pc # "loop" => cur \notin batch
  /\ RecvBlocksOnNewcomer

IInv ==
  TypeOK /\ OneOwner /\ HandedOnce /\ MainOwns /\ Counted /\ BusyExact

=============================================================================
