----------------------------- MODULE TaskExecutor -----------------------------
(***************************************************************************)
(* The thread pool of the C++ drive (server/src/task_executor.cpp): a      *)
(* mutex, a condition variable, a queue and a stop flag, with the two      *)
(* threads that use it: the reactor, which submits commits, and the main   *)
(* thread, which starts the pool and takes it down in CloudServer::stop.   *)
(*                                                                         *)
(* A critical section is an acquisition, its body and a release; a wait    *)
(* releases the mutex and joins the wait set in one step, and can end      *)
(* without a notification.                                                 *)
(***************************************************************************)
EXTENDS Integers, Sequences, FiniteSets, Functions

CONSTANTS
  Worker,       \* the pool's threads
  Task,         \* the tasks the reactor may submit, each of them once
  NoTask,         \* no task
  MaxSpurious   \* bound on wake-ups without a notification

ASSUME ExecutorAssumption ==
  /\ IsFiniteSet(Worker) /\ Worker # {}
  /\ Worker \cap {"free", "reactor", "main"} = {}
  /\ NoTask \notin Task
  /\ MaxSpurious \in Nat

VARIABLES
  lock,       \* who holds mutex_, or "free"
  tasks,      \* tasks_
  stopping,   \* stopping_
  waiting,    \* workers in the wait set of cv_
  wpc,        \* where each worker is in worker_loop
  hand,       \* the task each worker has taken
  rpc,        \* where the reactor is in submit
  arg,        \* the task it submits
  mpc,        \* where the main thread is in start, stop and shutdown
  spurious,   \* wake-ups without a notification so far
  submitted,  \* history: the tasks pushed
  ran         \* history: the tasks executed

workerVars  == <<wpc, hand>>
reactorVars == <<rpc, arg>>
history     == <<submitted, ran>>
executorVars == <<lock, tasks, stopping, waiting, workerVars, reactorVars, mpc,
          spurious, history>>

ExecutorInit ==
  /\ lock = "free" /\ tasks = <<>> /\ stopping = FALSE /\ waiting = {}
  /\ wpc = [w \in Worker |-> "absent"] /\ hand = [w \in Worker |-> NoTask]
  /\ rpc = "absent" /\ arg = NoTask /\ mpc = "start" /\ spurious = 0
  /\ submitted = {} /\ ran = {}

-----------------------------------------------------------------------------
(* worker_loop *)

Acquire(w) ==
  /\ wpc[w] = "acquire" /\ lock = "free"
  /\ lock' = w
  /\ wpc' = [wpc EXCEPT ![w] = "test"]
  /\ UNCHANGED <<tasks, stopping, waiting, hand, reactorVars, mpc, spurious,
                 history>>

(* Mutation: a worker leaves as soon as it sees the stop flag. *)
Test_StopFirst(w) ==
  /\ wpc[w] = "test"
  /\ wpc' = [wpc EXCEPT ![w] = IF stopping THEN "exit"
                               ELSE IF tasks = <<>> THEN "wait" ELSE "pop"]
  /\ UNCHANGED <<lock, tasks, stopping, waiting, hand, reactorVars, mpc,
                 spurious, history>>

(* The predicate of the wait, and the test after it. *)
Test(w) ==
  /\ wpc[w] = "test"
  /\ wpc' = [wpc EXCEPT ![w] = IF tasks # <<>> THEN "pop"
                               ELSE IF stopping THEN "exit" ELSE "wait"]
  /\ UNCHANGED <<lock, tasks, stopping, waiting, hand, reactorVars, mpc,
                 spurious, history>>

Wait(w) ==
  /\ wpc[w] = "wait"
  /\ lock' = "free" /\ waiting' = waiting \cup {w}
  /\ wpc' = [wpc EXCEPT ![w] = "waiting"]
  /\ UNCHANGED <<tasks, stopping, hand, reactorVars, mpc, spurious, history>>

SpuriousWakeup(w) ==
  /\ w \in waiting /\ spurious < MaxSpurious
  /\ spurious' = spurious + 1
  /\ waiting' = waiting \ {w}
  /\ wpc' = [wpc EXCEPT ![w] = "acquire"]
  /\ UNCHANGED <<lock, tasks, stopping, hand, reactorVars, mpc, history>>

Exit(w) ==
  /\ wpc[w] = "exit"
  /\ lock' = "free"
  /\ wpc' = [wpc EXCEPT ![w] = "exited"]
  /\ UNCHANGED <<tasks, stopping, waiting, hand, reactorVars, mpc, spurious,
                 history>>

Pop(w) ==
  /\ wpc[w] = "pop"
  /\ lock' = "free"
  /\ hand' = [hand EXCEPT ![w] = Head(tasks)] /\ tasks' = Tail(tasks)
  /\ wpc' = [wpc EXCEPT ![w] = "run"]
  /\ UNCHANGED <<stopping, waiting, reactorVars, mpc, spurious, history>>

(* The task runs outside the mutex; what it throws is swallowed. *)
Run(w) ==
  /\ wpc[w] = "run"
  /\ ran' = ran \cup {hand[w]}
  /\ hand' = [hand EXCEPT ![w] = NoTask]
  /\ wpc' = [wpc EXCEPT ![w] = "acquire"]
  /\ UNCHANGED <<lock, tasks, stopping, waiting, reactorVars, mpc, spurious,
                 submitted>>

-----------------------------------------------------------------------------
(* submit, on the reactor thread *)

SubmitLock(t) ==
  /\ rpc = "loop" /\ lock = "free" /\ t \notin submitted
  /\ lock' = "reactor" /\ arg' = t
  /\ rpc' = "push"
  /\ UNCHANGED <<tasks, stopping, waiting, workerVars, mpc, spurious, history>>

Push ==
  /\ rpc = "push"
  /\ lock' = "free"
  /\ tasks' = Append(tasks, arg) /\ submitted' = submitted \cup {arg}
  /\ rpc' = "notify" /\ arg' = NoTask
  /\ UNCHANGED <<stopping, waiting, workerVars, mpc, spurious, ran>>

(* Mutation: only the first task of a busy period is notified. *)
NotifyOne_IfAlone ==
  /\ rpc = "notify"
  /\ rpc' = "loop"
  /\ \/ /\ \/ waiting = {} \/ Len(tasks) # 1
        /\ UNCHANGED <<waiting, wpc>>
     \/ /\ Len(tasks) = 1
        /\ \E w \in waiting : /\ waiting' = waiting \ {w}
                              /\ wpc' = [wpc EXCEPT ![w] = "acquire"]
  /\ UNCHANGED <<lock, tasks, stopping, hand, arg, mpc, spurious, history>>

(* cv_.notify_one, after the mutex has been released. *)
NotifyOne ==
  /\ rpc = "notify"
  /\ rpc' = "loop"
  /\ \/ waiting = {} /\ UNCHANGED <<waiting, wpc>>
     \/ \E w \in waiting : /\ waiting' = waiting \ {w}
                           /\ wpc' = [wpc EXCEPT ![w] = "acquire"]
  /\ UNCHANGED <<lock, tasks, stopping, hand, arg, mpc, spurious, history>>

(* running_ is false: reactor_loop returns between two requests. *)
LeaveLoop ==
  /\ rpc = "loop" /\ mpc = "stop"
  /\ rpc' = "left"
  /\ UNCHANGED <<lock, tasks, stopping, waiting, workerVars, arg, mpc, spurious,
                 history>>

-----------------------------------------------------------------------------
(* start, CloudServer::stop and shutdown, on the main thread *)

StartWorker(w) ==
  /\ mpc = "start" /\ wpc[w] = "absent"
  /\ wpc' = [wpc EXCEPT ![w] = "acquire"]
  /\ UNCHANGED <<lock, tasks, stopping, waiting, hand, reactorVars, mpc,
                 spurious, history>>

StartReactor ==
  /\ mpc = "start" /\ \A w \in Worker : wpc[w] # "absent"
  /\ mpc' = "run" /\ rpc' = "loop"
  /\ UNCHANGED <<lock, tasks, stopping, waiting, workerVars, arg, spurious,
                 history>>

Stop ==
  /\ mpc = "run"
  /\ mpc' = "stop"
  /\ UNCHANGED <<lock, tasks, stopping, waiting, workerVars, reactorVars,
                 spurious, history>>

(* Mutation: the flag is set without the mutex. *)
JoinReactor_NoLock ==
  /\ mpc = "stop" /\ rpc = "left"
  /\ stopping' = TRUE
  /\ mpc' = "notify"
  /\ UNCHANGED <<lock, tasks, waiting, workerVars, reactorVars, spurious,
                 history>>

(* reactor_thread_.join(), then shutdown waits for the mutex. *)
JoinReactor ==
  /\ mpc = "stop" /\ rpc = "left" /\ lock = "free"
  /\ lock' = "main"
  /\ mpc' = "flag"
  /\ UNCHANGED <<tasks, stopping, waiting, workerVars, reactorVars, spurious,
                 history>>

SetStopping ==
  /\ mpc = "flag"
  /\ lock' = "free"
  /\ stopping' = TRUE
  /\ mpc' = "notify"
  /\ UNCHANGED <<tasks, waiting, workerVars, reactorVars, spurious, history>>

(* Mutation: shutdown notifies one worker. *)
NotifyAll_One ==
  /\ mpc = "notify"
  /\ \/ waiting = {} /\ UNCHANGED <<waiting, wpc>>
     \/ \E w \in waiting : /\ waiting' = waiting \ {w}
                           /\ wpc' = [wpc EXCEPT ![w] = "acquire"]
  /\ mpc' = "join"
  /\ UNCHANGED <<lock, tasks, stopping, hand, reactorVars, spurious, history>>

NotifyAll ==
  /\ mpc = "notify"
  /\ waiting' = {}
  /\ wpc' = [w \in Worker |-> IF w \in waiting THEN "acquire" ELSE wpc[w]]
  /\ mpc' = "join"
  /\ UNCHANGED <<lock, tasks, stopping, hand, reactorVars, spurious, history>>

(* Every join() has returned, and the queue is swapped with an empty one. *)
JoinWorkers ==
  /\ mpc = "join" /\ \A w \in Worker : wpc[w] = "exited"
  /\ tasks' = <<>>
  /\ mpc' = "done"
  /\ UNCHANGED <<lock, stopping, waiting, workerVars, reactorVars, spurious,
                 history>>

-----------------------------------------------------------------------------
WorkerLoop(w) ==
  Acquire(w) \/ Test(w) \/ Wait(w) \/ Exit(w) \/ Pop(w) \/ Run(w)

ReactorStep == (\E t \in Task : SubmitLock(t)) \/ Push \/ NotifyOne \/ LeaveLoop

MainStep ==
  \/ \E w \in Worker : StartWorker(w)
  \/ StartReactor \/ JoinReactor \/ SetStopping \/ NotifyAll \/ JoinWorkers

ExecutorNext ==
  \/ \E w \in Worker : WorkerLoop(w) \/ SpuriousWakeup(w)
  \/ ReactorStep \/ MainStep \/ Stop

ExecutorSpec == ExecutorInit /\ [][ExecutorNext]_executorVars

-----------------------------------------------------------------------------
(* Properties *)

WorkerPc == {"absent", "acquire", "test", "wait", "waiting", "pop", "run",
             "exit", "exited"}

(* Every variable has its type; the reactor pushes a task it was given.    *)
ExecutorTypeOK ==
  /\ lock \in Worker \cup {"free", "reactor", "main"}
  /\ tasks \in Seq(Task) /\ stopping \in BOOLEAN
  /\ waiting \in SUBSET Worker
  /\ wpc \in [Worker -> WorkerPc]
  /\ hand \in [Worker -> Task \cup {NoTask}]
  /\ rpc \in {"absent", "loop", "push", "notify", "left"}
  /\ arg \in Task \cup {NoTask} /\ (rpc = "push" => arg \in Task)
  /\ mpc \in {"start", "run", "stop", "flag", "notify", "join", "done"}
  /\ spurious \in Nat
  /\ submitted \in SUBSET Task /\ ran \in SUBSET Task

(* A task that was submitted is in exactly one place: once in the queue,   *)
(* with one worker, or executed.  NoTask is lost, none is executed twice.    *)
ExactlyOnce ==
  /\ submitted = Range(tasks) \cup {hand[w] : w \in {v \in Worker : wpc[v] = "run"}}
                 \cup ran
  /\ \A i, j \in 1..Len(tasks) : tasks[i] = tasks[j] => i = j
  /\ Range(tasks) \cap ran = {}
  /\ \A w \in Worker : wpc[w] = "run" =>
       /\ hand[w] \in Task \ (Range(tasks) \cup ran)
       /\ \A v \in Worker : wpc[v] = "run" /\ hand[v] = hand[w] => v = w

(* Workers that will look at the queue before they sleep again.            *)
Awake == {w \in Worker : wpc[w] \in {"acquire", "test", "pop"}}

(* No wake-up is lost: as long as a worker sleeps, there are as many       *)
(* workers on their way to the queue as it has tasks, so a commit never    *)
(* waits behind another while a thread of the pool is asleep.              *)
WorkConserving ==
  waiting # {} =>
    Len(tasks) <= Cardinality(Awake) + (IF rpc = "notify" THEN 1 ELSE 0)

(* shutdown discards no task: the queue it swaps away is empty, and every  *)
(* commit that was submitted has been executed before stop() returns.      *)
ShutdownDrains == mpc = "done" => ran = submitted

(* join() waits for no sleeping worker: once the stop flag is announced no *)
(* worker is in the wait set, or will enter it.                            *)
NoSleeperAtJoin ==
  mpc \in {"join", "done"} =>
    waiting = {} /\ \A w \in Worker : wpc[w] \notin {"wait", "waiting"}

(* The executor implements the abstract pool.                              *)
Pool == INSTANCE TaskPool WITH closed <- mpc = "done"
PoolSpec == Pool!Spec

-----------------------------------------------------------------------------
(* What makes the invariants inductive *)

(* The mutex protects what it should: who is in a critical section holds   *)
(* it, and what a worker has seen there is still true when it acts on it.  *)
Locked ==
  /\ \A w \in Worker : wpc[w] \in {"test", "wait", "pop", "exit"} <=> lock = w
  /\ rpc = "push" <=> lock = "reactor"
  /\ mpc = "flag" <=> lock = "main"
  /\ rpc = "push" => arg \notin submitted
  /\ \A w \in Worker :
       /\ wpc[w] = "waiting" <=> w \in waiting
       /\ wpc[w] = "pop" => tasks # <<>>
       /\ wpc[w] \in {"wait", "exit"} => tasks = <<>>
       /\ wpc[w] = "wait" => ~stopping

(* The order of a shutdown: the reactor leaves, the flag is set, the       *)
(* workers empty the queue and exit.  Until start() is over, no reactor.   *)
Stages ==
  /\ mpc = "start" <=> rpc = "absent"
  /\ stopping <=> mpc \in {"notify", "join", "done"}
  /\ mpc \in {"flag", "notify", "join", "done"} => rpc = "left"
  /\ \A w \in Worker :
       /\ wpc[w] \in {"exit", "exited"} => stopping /\ tasks = <<>>
       /\ mpc = "done" => wpc[w] = "exited"
  /\ mpc \in {"join", "done"} => waiting = {}

ExecutorInv == ExecutorTypeOK /\ Locked /\ Stages /\ ExactlyOnce

-----------------------------------------------------------------------------
(* Fairness: every thread keeps running.  Tasks and spurious wake-ups are  *)
(* finitely many, so no thread is overtaken at the mutex forever.          *)
FairSpec ==
  /\ ExecutorSpec
  /\ \A w \in Worker : WF_executorVars(WorkerLoop(w))
  /\ WF_executorVars(ReactorStep)
  /\ WF_executorVars(MainStep)

(* stop() returns.                                                         *)
StopReturns == mpc = "stop" ~> mpc = "done"

(* A submitted task is executed, whether or not the server is stopped.     *)
TaskRuns == \A t \in Task : t \in submitted ~> t \in ran

(* Both, under one set of workers: neither a task nor the thread that      *)
(* stops the server waits for ever (notify_one, notify_all, the predicate  *)
(* of the wait).                                                           *)
ExecutorProgress == StopReturns /\ TaskRuns

=============================================================================
