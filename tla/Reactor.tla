-------------------------------- MODULE Reactor --------------------------------
(***************************************************************************)
(* The reactor thread of the C++ drive (server/src/cloud_server.cpp): one  *)
(* epoll loop that accepts, reads, writes and closes connections, and the  *)
(* queue of replies through which it and the worker threads answer, woken  *)
(* by an eventfd.                                                          *)
(*                                                                         *)
(* A request is abstracted to who answers it: the reactor itself, or a     *)
(* task on a worker (FILE_UPLOAD_COMMIT).  Connections are numbered in the *)
(* order they are accepted; a reply carries the number of the connection   *)
(* it answers.  A client sends its next request after the reply.           *)
(* epoll_wait reports every ready descriptor: there are fewer than         *)
(* kMaxEvents.                                                             *)
(***************************************************************************)
EXTENDS Integers, Sequences, FiniteSets, Functions

CONSTANTS
  Fd,           \* descriptor numbers the server may give a connection
  Worker,       \* threads that execute tasks; without any, none is submitted
  Impatient,    \* TRUE: a client may leave while a task works for it
  MaxConns,     \* bound on connections
  MaxRequests,  \* bound on requests
  Listen, Notify  \* the listening socket and the eventfd, as events

ASSUME ReactorAssumption ==
  /\ IsFiniteSet(Fd) /\ IsFiniteSet(Worker)
  /\ Listen \notin Fd /\ Notify \notin Fd /\ Listen # Notify
  /\ Impatient \in BOOLEAN /\ MaxConns \in Nat /\ MaxRequests \in Nat

VARIABLES
  rpc,         \* where reactor_loop is
  events,      \* events returned and not handled yet
  conn,        \* connections_: number of the connection with the descriptor, or 0
  outbound,    \* ConnectionContext::outbound
  armed,       \* descriptors registered with EPOLLOUT
  responses,   \* async_responses_
  counter,     \* the eventfd's counter
  pool,        \* tasks submitted to the executor
  task,        \* per worker, the task it executes, or NoTask
  backlog,     \* connections to accept
  unread,      \* connections with a request in the socket
  awaiting,    \* connections whose client waits for a reply
  hup,         \* connections the client has shut down
  conns,       \* connections made so far
  requests     \* requests made so far

serverVars == <<conn, outbound, armed>>
replyVars  == <<responses, counter>>
taskVars   == <<pool, task>>
clientVars == <<backlog, unread, awaiting, hup, conns, requests>>
vars == <<rpc, events, serverVars, replyVars, taskVars, clientVars>>

Open == {fd \in Fd : conn[fd] # 0}

(* A reply to the connection that has fd, from a task or from the reactor. *)
ToClient(fd, by) == [fd |-> fd, conn |-> conn[fd], by |-> by]
Answers(r, fd) == r.fd = fd /\ r.conn = conn[fd]
NoTask == [fd |-> 0, conn |-> 0, by |-> "task"]

Init ==
  /\ rpc = "loop" /\ events = {}
  /\ conn = [fd \in Fd |-> 0] /\ outbound = [fd \in Fd |-> <<>>] /\ armed = {}
  /\ responses = <<>> /\ counter = 0
  /\ pool = <<>> /\ task = [w \in Worker |-> NoTask]
  /\ backlog = 0 /\ unread = {} /\ awaiting = {} /\ hup = {}
  /\ conns = 0 /\ requests = 0

-----------------------------------------------------------------------------
(* reactor_loop: the listening socket and the eventfd come first, then the *)
(* connections through ready_queue_.                                       *)

(* What epoll has to report, level-triggered.  EPOLLOUT is reported for an *)
(* armed descriptor as soon as there is room in the socket.                *)
Ready ==
  (IF backlog > 0 THEN {[of |-> Listen]} ELSE {})
  \cup (IF counter > 0 THEN {[of |-> Notify]} ELSE {})
  \cup {[of |-> fd, in |-> fd \in unread, hup |-> fd \in hup,
         out |-> fd \in armed] : fd \in Open \cap (unread \cup hup \cup armed)}

EpollWait ==
  /\ rpc = "loop" /\ events = {} /\ Ready # {}
  /\ events' = Ready
  /\ UNCHANGED <<rpc, serverVars, replyVars, taskVars, clientVars>>

(* handle_accept takes every waiting connection.  A descriptor is free     *)
(* again as soon as close_connection is done with it.                      *)
BeginAccept ==
  /\ rpc = "loop" /\ [of |-> Listen] \in events
  /\ events' = events \ {[of |-> Listen]}
  /\ rpc' = "accept"
  /\ UNCHANGED <<serverVars, replyVars, taskVars, clientVars>>

AcceptOne(fd) ==
  /\ rpc = "accept" /\ backlog > 0 /\ conn[fd] = 0
  /\ backlog' = backlog - 1
  /\ conns' = conns + 1
  /\ conn' = [conn EXCEPT ![fd] = conns + 1]
  /\ UNCHANGED <<rpc, events, outbound, armed, replyVars, taskVars, unread,
                 awaiting, hup, requests>>

EndAccept ==
  /\ rpc = "accept" /\ backlog = 0
  /\ rpc' = "loop"
  /\ UNCHANGED <<events, serverVars, replyVars, taskVars, clientVars>>

(* The replies queued for the connection that has descriptor fd now. *)
Addressed(fd) ==
  LET taken[i \in 0..Len(responses)] ==
        IF i = 0 THEN <<>>
        ELSE IF responses[i].fd = fd THEN Append(taken[i - 1], responses[i].conn)
        ELSE taken[i - 1]
  IN  taken[Len(responses)]

(* drain_async_queue: swap the queue, hand each reply to the connection    *)
(* that has its descriptor, if any, and arm EPOLLOUT.                      *)
DrainAsyncQueue ==
  /\ rpc = "loop" /\ [of |-> Notify] \in events
  /\ responses' = <<>>
  /\ outbound' = [fd \in Fd |-> IF conn[fd] # 0 THEN outbound[fd] \o Addressed(fd)
                                ELSE outbound[fd]]
  /\ armed' = armed \cup {fd \in Open : Addressed(fd) # <<>>}
  /\ rpc' = "read"
  /\ UNCHANGED <<events, conn, counter, taskVars, clientVars>>

(* ... then read() the eventfd, which resets its counter.                  *)
ReadEventfd ==
  /\ rpc = "read"
  /\ counter' = 0
  /\ events' = events \ {[of |-> Notify]}
  /\ rpc' = "loop"
  /\ UNCHANGED <<serverVars, responses, taskVars, clientVars>>

-----------------------------------------------------------------------------
(* handle_fd_event, once the batch has only connections left *)

NextOfQueue(e) ==
  /\ rpc = "loop" /\ e \in events
  /\ \A f \in events : f.of \in Fd
  /\ events' = events \ {e}

(* Mutation: the buffer is kept for the next user of the descriptor. *)
Without_KeepsBuffer(fd) ==
  /\ conn' = [conn EXCEPT ![fd] = 0]
  /\ armed' = armed \ {fd}
  /\ unread' = unread \ {fd} /\ awaiting' = awaiting \ {fd}
  /\ hup' = hup \ {fd}
  /\ UNCHANGED outbound

Without(fd) ==
  /\ conn' = [conn EXCEPT ![fd] = 0]
  /\ outbound' = [outbound EXCEPT ![fd] = <<>>]
  /\ armed' = armed \ {fd}
  /\ unread' = unread \ {fd} /\ awaiting' = awaiting \ {fd}
  /\ hup' = hup \ {fd}

(* close_connection: on EPOLLRDHUP, or when recv returns 0, whatever is    *)
(* left to read or to send.  Tasks and replies in flight are not touched.  *)
CloseConnection(e) ==
  /\ NextOfQueue(e)
  /\ e.hup \/ (e.in /\ e.of \in hup)
  /\ Without(e.of)
  /\ UNCHANGED <<rpc, replyVars, taskVars, backlog, conns, requests>>

(* Mutation: EPOLLOUT is never taken off. *)
Flush_StaysArmed(e) ==
  LET fd == e.of
  IN IF e.out
     THEN \E n \in 0..Len(outbound[fd]) :
            /\ outbound' = [outbound EXCEPT ![fd] = SubSeq(@, Len(@) - n + 1, Len(@))]
            /\ awaiting' = IF n < Len(outbound[fd]) THEN awaiting \ {fd}
                           ELSE awaiting
            /\ UNCHANGED armed
     ELSE UNCHANGED <<outbound, armed, awaiting>>

(* EPOLLOUT: send until the socket is full.  n replies do not fit.  With   *)
(* nothing left, EPOLLOUT is taken off.                                    *)
Flush(e) ==
  LET fd == e.of
  IN IF e.out
     THEN \E n \in 0..Len(outbound[fd]) :
            /\ outbound' = [outbound EXCEPT ![fd] = SubSeq(@, Len(@) - n + 1, Len(@))]
            /\ armed' = IF n = 0 THEN armed \ {fd} ELSE armed
            /\ awaiting' = IF n < Len(outbound[fd]) THEN awaiting \ {fd}
                           ELSE awaiting
     ELSE UNCHANGED <<outbound, armed, awaiting>>

(* Mutation: the reactor is not notified. *)
ScheduleResponse_Silent(reply) ==
  responses' = Append(responses, reply) /\ UNCHANGED counter

ScheduleResponse(reply) ==
  /\ responses' = Append(responses, reply)
  /\ counter' = counter + 1

(* A request the reactor answers itself. *)
AnswerRequest(e) ==
  /\ NextOfQueue(e)
  /\ ~e.hup /\ e.in /\ e.of \notin hup
  /\ unread' = unread \ {e.of}
  /\ ScheduleResponse(ToClient(e.of, "reactor"))
  /\ Flush(e)
  /\ UNCHANGED <<rpc, conn, taskVars, backlog, hup, conns, requests>>

(* Mutation: no "continue": the command is also answered as unknown. *)
SubmitTask_FallsThrough(e) ==
  /\ NextOfQueue(e)
  /\ ~e.hup /\ e.in /\ e.of \notin hup /\ Worker # {}
  /\ unread' = unread \ {e.of}
  /\ pool' = Append(pool, ToClient(e.of, "task"))
  /\ ScheduleResponse(ToClient(e.of, "reactor"))
  /\ Flush(e)
  /\ UNCHANGED <<rpc, conn, task, backlog, hup, conns, requests>>

(* A commit: the task carries the descriptor. *)
SubmitTask(e) ==
  /\ NextOfQueue(e)
  /\ ~e.hup /\ e.in /\ e.of \notin hup /\ Worker # {}
  /\ unread' = unread \ {e.of}
  /\ pool' = Append(pool, ToClient(e.of, "task"))
  /\ Flush(e)
  /\ UNCHANGED <<rpc, conn, replyVars, task, backlog, hup, conns, requests>>

WriteOnly(e) ==
  /\ NextOfQueue(e)
  /\ ~e.hup /\ ~e.in
  /\ Flush(e)
  /\ UNCHANGED <<rpc, conn, replyVars, taskVars, backlog, unread, hup, conns,
                 requests>>

-----------------------------------------------------------------------------
(* The workers *)

TakeTask(w) ==
  /\ task[w] = NoTask /\ pool # <<>>
  /\ task' = [task EXCEPT ![w] = Head(pool)]
  /\ pool' = Tail(pool)
  /\ UNCHANGED <<rpc, events, serverVars, replyVars, clientVars>>

(* schedule_response: the mutex is held over the push and the write.       *)
FinishTask(w) ==
  /\ task[w] # NoTask
  /\ ScheduleResponse(task[w])
  /\ task' = [task EXCEPT ![w] = NoTask]
  /\ UNCHANGED <<rpc, events, serverVars, pool, clientVars>>

-----------------------------------------------------------------------------
(* The clients *)

Connect ==
  /\ conns + backlog < MaxConns
  /\ Cardinality(Open) + backlog < Cardinality(Fd)
  /\ backlog' = backlog + 1
  /\ UNCHANGED <<rpc, events, serverVars, replyVars, taskVars, unread, awaiting,
                 hup, conns, requests>>

Request(fd) ==
  /\ fd \in Open \ (awaiting \cup hup) /\ requests < MaxRequests
  /\ requests' = requests + 1
  /\ unread' = unread \cup {fd} /\ awaiting' = awaiting \cup {fd}
  /\ UNCHANGED <<rpc, events, serverVars, replyVars, taskVars, backlog, hup,
                 conns>>

(* A task works for the connection, or its reply is in the queue. *)
Committing(fd) ==
  \/ \E r \in Range(pool) \cup Range(task) : Answers(r, fd)
  \/ \E r \in Range(responses) : r.by = "task" /\ Answers(r, fd)

HangUp(fd) ==
  /\ fd \in Open \ hup /\ (Impatient \/ ~Committing(fd))
  /\ hup' = hup \cup {fd}
  /\ UNCHANGED <<rpc, events, serverVars, replyVars, taskVars, backlog, unread,
                 awaiting, conns, requests>>

-----------------------------------------------------------------------------
ReactorStep ==
  \/ EpollWait \/ BeginAccept \/ EndAccept \/ DrainAsyncQueue \/ ReadEventfd
  \/ \E fd \in Fd : AcceptOne(fd)
  \/ \E e \in events :
       CloseConnection(e) \/ AnswerRequest(e) \/ SubmitTask(e) \/ WriteOnly(e)

WorkerStep(w) == TakeTask(w) \/ FinishTask(w)

ClientStep == Connect \/ \E fd \in Fd : Request(fd) \/ HangUp(fd)

Next == ReactorStep \/ (\E w \in Worker : WorkerStep(w)) \/ ClientStep

Spec == Init /\ [][Next]_vars

-----------------------------------------------------------------------------
(* Properties *)

(* Every variable has its type.                                            *)
TypeOK ==
  /\ rpc \in {"loop", "accept", "read"}
  /\ \A e \in events : e.of \in Fd \cup {Listen, Notify}
  /\ conn \in [Fd -> 0..MaxConns]
  /\ outbound \in [Fd -> Seq(1..MaxConns)]
  /\ armed \subseteq Fd
  /\ responses \in Seq([fd : Fd, conn : 1..MaxConns, by : {"task", "reactor"}])
  /\ counter \in 0..MaxRequests
  /\ backlog \in Nat
  /\ unread \subseteq Open /\ awaiting \subseteq Open /\ hup \subseteq Open

(* A reply waiting in a connection's buffer is the answer to a request of  *)
(* that connection, not of one that had its descriptor before.             *)
RightConnection ==
  \A fd \in Fd : \A i \in DOMAIN outbound[fd] : outbound[fd][i] = conn[fd]

(* A connection with something to send has EPOLLOUT, and the reverse, over *)
(* every order of drains, partial sends and closes: no reply is left in a  *)
(* buffer nobody will flush, and an idle connection does not spin.         *)
ArmedIffPending ==
  \A fd \in Fd : fd \in armed <=> outbound[fd] # <<>>

(* A connection has at most one reply on its way, which is what lets the   *)
(* client match replies to requests by their order.                        *)
OneReplyInFlight ==
  \A fd \in Open :
    LET OnTheWay(q) == Cardinality({i \in DOMAIN q : Answers(q[i], fd)})
    IN  OnTheWay(responses) + OnTheWay(pool) + OnTheWay(task)
        + Len(outbound[fd])
        + (IF fd \in unread THEN 1 ELSE 0)
        = (IF fd \in awaiting THEN 1 ELSE 0)

(* Fairness: the reactor and the workers run.                              *)
FairSpec ==
  /\ Spec
  /\ WF_vars(ReactorStep)
  /\ \A w \in Worker : WF_vars(WorkerStep(w))

(* A reply handed to schedule_response is taken out of the queue: the      *)
(* reactor never sleeps on a reply.                                        *)
RepliesDrained == responses # <<>> ~> responses = <<>>

(* The reactor never sleeps on a reply of its own, whatever notifications  *)
(* of the workers it resets.                                               *)
OwnRepliesDrained ==
  LET Own == \E r \in Range(responses) : r.by = "reactor"
  IN  Own ~> ~Own

=============================================================================
