------------------------------- MODULE Download -------------------------------
(***************************************************************************)
(* Downloads of the C drive: one transfer thread of a client (normal_func  *)
(* in src/client/child.c) and one download thread of the server (down_func *)
(* in src/src/factory.c), over TCP connections that the dispatcher hands   *)
(* to the server's thread.  The client opens a connection for its first    *)
(* download and adds up to TaskMax files to it; the server closes it after *)
(* the last.  Both sides test epoll events for equality, so an event that  *)
(* comes with EPOLLERR or EPOLLHUP is ignored by both, for ever.           *)
(*                                                                         *)
(* A slice of a file is one block, named by the file and its number, and a *)
(* local file is a sequence of blocks.  The dispatcher hands over at once  *)
(* while the thread has room; the thread's files exist.                    *)
(***************************************************************************)
EXTENDS Integers, Sequences, FiniteSets, FiniteSetsExt

CONSTANTS
  File,            \* files of the server
  Size,            \* slices of each
  Mapped,          \* files above the mmap threshold, on both sides
  TaskMax,         \* cdinfo[10], task[10]
  AVG_CLIENT_NUM,  \* slots of the thread
  Window,          \* trains in flight that fill a socket's buffer
  Conn,            \* 1..n: bound on connections, in the order of their use
  MaxGets,         \* bound on downloads asked for
  MaxExits,        \* bound on the client's exits of its own will
  Again,           \* TRUE: the user asks again for files it already has
  None

ASSUME DownloadAssumption ==
  /\ Size \in [File -> Nat] /\ Mapped \subseteq File
  /\ TaskMax \in Nat \ {0} /\ AVG_CLIENT_NUM \in Nat \ {0}
  /\ Window \in Nat \ {0} /\ Conn \subseteq Nat \ {0} /\ IsFiniteSet(Conn)
  /\ MaxGets \in Nat /\ MaxExits \in Nat /\ Again \in BOOLEAN
  /\ None \notin Conn \cup File \cup (File \X Nat)

VARIABLES
  task,      \* client: task[j], by slot
  task_num,  \* client: downloads it counts
  cfd,       \* client: its download connection, or None
  local,     \* client: the files of Cdisk, as blocks
  csock,     \* per connection, the client's socket
  ssock,     \* per connection, the server's socket
  requests,  \* DQ_bufs on the wire
  trains,    \* trains on the wire
  pipe,      \* connections on their way to the thread
  client,    \* server: client[s], the slots of the thread
  busy_num,  \* server: connections the dispatcher counts
  evs,       \* server: events returned by epoll_wait and not handled yet
  up,        \* the server process is alive
  gets, exits

clientVars == <<task, task_num, cfd, local>>
netVars    == <<csock, ssock, requests, trains>>
serverVars == <<pipe, client, busy_num, evs, up>>
vars == <<clientVars, netVars, serverVars, gets, exits>>

Block(f, i) == <<f, i>>
Hole == <<None, 0>>
Whole(f) == [i \in 1..Size[f] |-> Block(f, i)]

NoTask == [fd |-> 0, file |-> None, pos |-> 0]
FreeSlot == [download_fd |-> None, task_num |-> 0,
             cdinfo |-> [k \in 1..TaskMax |-> NoTask]]
Slot == 1..AVG_CLIENT_NUM

Init ==
  /\ task = [j \in 1..TaskMax |-> NoTask] /\ task_num = 0 /\ cfd = None
  /\ local = [f \in File |-> <<>>]
  /\ csock = [c \in Conn |-> "new"] /\ ssock = [c \in Conn |-> "new"]
  /\ requests = [c \in Conn |-> <<>>] /\ trains = [c \in Conn |-> <<>>]
  /\ pipe = <<>> /\ client = [s \in Slot |-> FreeSlot] /\ busy_num = 0
  /\ evs = {} /\ up = TRUE
  /\ gets = 0 /\ exits = 0

-----------------------------------------------------------------------------
(* TCP, as far as it shows: closing a socket sends FIN when everything was *)
(* read and RST otherwise; data that reaches a closed socket brings RST.   *)
(*   "open"; "fin": the peer has closed; "stale": and we have sent since;  *)
(*   "epipe": RST after FIN; "reset": RST; "closed": by this side          *)

Failed(sock) == sock \in {"epipe", "reset"}

(* What a close makes of the other side's socket. *)
PeerCloses(sock, unread) ==
  IF sock \in {"closed", "new"} THEN sock
  ELSE IF unread # <<>> THEN "reset" ELSE "fin"

SendOn(sock) == IF sock = "fin" THEN "stale" ELSE sock

(* The RST that answers data sent to a closed socket. *)
ResetArrives(c) ==
  /\ \/ /\ csock[c] = "stale"
        /\ csock' = [csock EXCEPT ![c] = "epipe"] /\ UNCHANGED ssock
     \/ /\ ssock[c] = "stale"
        /\ ssock' = [ssock EXCEPT ![c] = "epipe"] /\ UNCHANGED csock
  /\ UNCHANGED <<clientVars, requests, trains, serverVars, gets, exits>>

-----------------------------------------------------------------------------
(* The client: normal_func, downloads *)

Unused == {c \in Conn : csock[c] = "new"}

(* Mutation: a file of full size is taken for complete. *)
StartAt_NoMd5(f) == Len(local[f])

(* add_task: resume at the size of the local file, unless it is full size  *)
(* and its MD5 is wrong.                                                   *)
StartAt(f) ==
  IF Len(local[f]) = Size[f] /\ local[f] # Whole(f) THEN 0 ELSE Len(local[f])

(* A mapped file is extended to its full size at once. *)
Opened(f) ==
  IF f \in Mapped
  THEN [i \in 1..Size[f] |-> IF i <= Len(local[f]) THEN local[f][i] ELSE Hole]
  ELSE local[f]

(* A download reaches the transfer thread: the first one connects, with a  *)
(* token and DOWNLOAD_Q, which the dispatcher answers by handing the       *)
(* connection over.  d is the descriptor open() returns for the file.      *)
GetOn(c, f, d) ==
  LET j  == Min({i \in 1..TaskMax : task[i].fd = 0})
      dq == [fd |-> d, file |-> f, pos |-> StartAt(f)]
  IN  /\ task' = [task EXCEPT ![j] = dq]
      /\ task_num' = task_num + 1
      /\ local' = [local EXCEPT ![f] = Opened(f)]
      /\ cfd' = c
      /\ requests' = [requests EXCEPT ![c] =
                        IF ssock[c] \in {"open", "new"} THEN Append(@, dq)
                        ELSE @]

Wanted(f) == Again \/ local[f] # Whole(f)

GetFirst(f, d) ==
  /\ up /\ gets < MaxGets /\ Wanted(f)
  /\ task_num = 0 /\ Unused # {} /\ busy_num < AVG_CLIENT_NUM
  /\ GetOn(Min(Unused), f, d)
  /\ csock' = [csock EXCEPT ![cfd'] = "open"]
  /\ ssock' = [ssock EXCEPT ![cfd'] = "open"]
  /\ pipe' = Append(pipe, cfd') /\ busy_num' = busy_num + 1
  /\ gets' = gets + 1
  /\ UNCHANGED <<trains, client, evs, up, exits>>

GetMore(f, d) ==
  /\ gets < MaxGets /\ Wanted(f)
  /\ task_num \in 1..TaskMax - 1
  /\ \A i \in 1..TaskMax : task[i].fd # d
  /\ GetOn(cfd, f, d)
  /\ csock' = [csock EXCEPT ![cfd] = SendOn(@)]
  /\ gets' = gets + 1
  /\ UNCHANGED <<ssock, trains, serverVars, exits>>

(* Close the client's side of its connection, with rest unread. *)
CloseConn(rest) ==
  /\ csock' = [csock EXCEPT ![cfd] = "closed"]
  /\ ssock' = [ssock EXCEPT ![cfd] = PeerCloses(@, rest)]
  /\ trains' = [trains EXCEPT ![cfd] = <<>>]
  /\ cfd' = None /\ UNCHANGED requests

(* The train is for the task whose descriptor it carries; with Len = 0 the *)
(* file is complete.                                                       *)
Written(content, pos, block) ==
  [i \in 1..(IF Len(content) > pos THEN Len(content) ELSE pos + 1) |->
     IF i = pos + 1 THEN block ELSE IF i <= Len(content) THEN content[i]
                                    ELSE Hole]

Owner(k) == {j \in 1..TaskMax : task[j].fd = k}

Arrived(train) ==
  /\ local' = [f \in File |->
                 IF \E j \in Owner(train.ctl_code) : task[j].file = f
                 THEN LET j == CHOOSE i \in Owner(train.ctl_code) : TRUE
                      IN  Written(local[f], task[j].pos, train.block)
                 ELSE local[f]]
  /\ task' = [j \in 1..TaskMax |->
                IF j \in Owner(train.ctl_code)
                THEN [task[j] EXCEPT !.pos = @ + 1] ELSE task[j]]

ReadData ==
  /\ cfd # None /\ ~Failed(csock[cfd]) /\ trains[cfd] # <<>>
  /\ Head(trains[cfd]).block # None /\ Arrived(Head(trains[cfd]))
  /\ trains' = [trains EXCEPT ![cfd] = Tail(@)]
  /\ UNCHANGED <<task_num, cfd, csock, ssock, requests, serverVars, gets,
                 exits>>

ReadEnd ==
  /\ cfd # None /\ ~Failed(csock[cfd]) /\ trains[cfd] # <<>>
  /\ LET train == Head(trains[cfd])
     IN /\ train.block = None
        /\ task' = [j \in 1..TaskMax |->
                      IF j \in Owner(train.ctl_code) THEN NoTask ELSE task[j]]
  /\ task_num' = task_num - 1
  /\ IF task_num = 1
     THEN CloseConn(Tail(trains[cfd]))
     ELSE /\ trains' = [trains EXCEPT ![cfd] = Tail(@)]
          /\ UNCHANGED <<cfd, csock, ssock, requests>>
  /\ UNCHANGED <<local, serverVars, gets, exits>>

(* The process ends; what it has written stays in Cdisk. *)
Exit ==
  /\ task' = [j \in 1..TaskMax |-> NoTask] /\ task_num' = 0
  /\ CloseConn(trains[cfd])
  /\ UNCHANGED <<local, serverVars, gets>>

(* error_jude: the server has closed and nothing is left to read. *)
ReadEof ==
  /\ cfd # None /\ csock[cfd] \in {"fin", "stale"} /\ trains[cfd] = <<>>
  /\ Exit /\ UNCHANGED exits

Quit == cfd # None /\ exits < MaxExits /\ Exit /\ exits' = exits + 1

-----------------------------------------------------------------------------
(* The server: down_func *)

(* An event must be EPOLLIN or EPOLLOUT and nothing else, so a socket that *)
(* has received RST has none that counts.  Cin is the inner epoll of the   *)
(* connections with a request or at their end.                             *)
Pipe == 0
Cin == -1
Held(c) == {s \in Slot : client[s].download_fd = c}
Live == {s \in Slot : client[s].download_fd # None}
CinReady == {s \in Live : LET c == client[s].download_fd
                          IN /\ ~Failed(ssock[c])
                             /\ requests[c] # <<>> \/ ssock[c] # "open"}
Writable(c) == ~Failed(ssock[c]) /\ Len(trains[c]) < Window

(* Mutation: EPOLLOUT is asked for with the second task only. *)
Sending_Second ==
  {client[s].download_fd : s \in {t \in Live : client[t].task_num > 1}}

Sending == {client[s].download_fd : s \in {t \in Live : client[t].task_num > 0}}

EpollWait ==
  /\ up /\ evs = {}
  /\ evs' = {c \in Sending : Writable(c)}
            \cup (IF pipe # <<>> THEN {Pipe} ELSE {})
            \cup (IF CinReady # {} THEN {Cin} ELSE {})
  /\ evs' # {}
  /\ UNCHANGED <<clientVars, netVars, pipe, client, busy_num, up, gets, exits>>

(* A connection comes from the dispatcher and takes the first free slot. *)
TakeConnection ==
  /\ up /\ Pipe \in evs
  /\ evs' = evs \ {Pipe}
  /\ client' = [client EXCEPT ![Min(Slot \ Live)].download_fd = Head(pipe)]
  /\ pipe' = Tail(pipe)
  /\ UNCHANGED <<clientVars, netVars, busy_num, up, gets, exits>>

(* disconnect, for the slots in gone: close, clear, report.                *)
Disconnected(gone) == {client[s].download_fd : s \in gone}
CloseSockets(conns) ==
  /\ csock' = [c \in Conn |-> IF c \in conns
                              THEN PeerCloses(csock[c], requests[c])
                              ELSE csock[c]]
  /\ ssock' = [c \in Conn |-> IF c \in conns THEN "closed" ELSE ssock[c]]

(* add_task: the first free of the slot's tasks.                           *)
WithTask(slot, dq) ==
  [slot EXCEPT !.task_num = @ + 1,
               !.cdinfo[Min({k \in 1..TaskMax : slot.cdinfo[k].fd = 0})] = dq]

Reports(gone) == Cardinality(gone)

(* One pass over the ready connections: a request is added to its slot, a  *)
(* connection at its end is dropped.  At the limit the slot is cleared and *)
(* the request is added to it all the same.                                *)
ReadRequests ==
  LET atEnd == {s \in CinReady : requests[client[s].download_fd] = <<>>}
      full  == {s \in CinReady \ atEnd : client[s].task_num >= TaskMax}
      dq(s) == Head(requests[client[s].download_fd])
  IN  /\ up /\ Cin \in evs
      /\ evs' = evs \ {Cin}
      /\ client' = [s \in Slot |->
                      IF s \in atEnd THEN FreeSlot
                      ELSE IF s \in full THEN WithTask(FreeSlot, dq(s))
                      ELSE IF s \in CinReady THEN WithTask(client[s], dq(s))
                      ELSE client[s]]
      /\ requests' = [c \in Conn |-> IF c \in Disconnected(CinReady \ atEnd)
                                     THEN Tail(requests[c]) ELSE requests[c]]
      /\ busy_num' = busy_num - Reports(atEnd \cup full)
      /\ CloseSockets(Disconnected(atEnd \cup full))
      /\ UNCHANGED <<clientVars, trains, pipe, up, gets, exits>>

Train(t, block) == [ctl_code |-> t.fd, block |-> block]
Slice(t) == Train(t, Block(t.file, t.pos + 1))
End(t) == Train(t, None)

(* What one event sends for a task: a slice, or the end.  A mapped file's  *)
(* last slice, were it empty, goes out with the end.                       *)
Sends(t) ==
  IF t.fd = 0 THEN <<>>
  ELSE IF t.file \notin Mapped
  THEN IF t.pos < Size[t.file] THEN <<Slice(t)>> ELSE <<End(t)>>
  ELSE IF t.pos + 1 < Size[t.file] THEN <<Slice(t)>>
  ELSE IF t.pos < Size[t.file] THEN <<Slice(t), End(t)>>
  ELSE <<End(t), End(t)>>

Ends(t) == \/ t.fd # 0 /\ t.pos >= Size[t.file]
           \/ t.fd # 0 /\ t.file \in Mapped /\ t.pos + 1 >= Size[t.file]

(* Mutation: a finished task stays in the slot. *)
Advanced_Keeps(t) == IF t.fd # 0 /\ t.pos < Size[t.file]
                     THEN [t EXCEPT !.pos = @ + 1] ELSE t

Advanced(t) == IF Ends(t) THEN NoTask
               ELSE IF t.fd # 0 THEN [t EXCEPT !.pos = @ + 1] ELSE t

(* What one event sends, task by task. *)
Outgoing(tasks) ==
  LET upTo[k \in 0..TaskMax] ==
        IF k = 0 THEN <<>> ELSE upTo[k - 1] \o Sends(tasks[k])
  IN  upTo[TaskMax]

(* EPOLLOUT: a slice of every task of the connection; after the last task  *)
(* the connection is closed.                                               *)
SendSlices(c) ==
  /\ up /\ c \in evs /\ evs' = evs \ {c}
  /\ ~Failed(ssock[c])
  /\ \E s \in Held(c) :
       LET tasks == client[s].cdinfo
           left  == client[s].task_num
                    - Cardinality({k \in 1..TaskMax : Ends(tasks[k])})
       IN /\ trains' = [trains EXCEPT ![c] =
                          IF ssock[c] = "open" THEN @ \o Outgoing(tasks)
                          ELSE @]
          /\ IF left = 0
             THEN /\ client' = [client EXCEPT ![s] = FreeSlot]
                  /\ busy_num' = busy_num - 1
                  /\ CloseSockets({c})
             ELSE /\ client' = [client EXCEPT ![s] =
                                  [download_fd |-> c, task_num |-> left,
                                   cdinfo |-> [k \in 1..TaskMax |->
                                                 Advanced(tasks[k])]]]
                  /\ ssock' = [ssock EXCEPT ![c] = SendOn(@)]
                  /\ UNCHANGED <<busy_num, csock>>
  /\ UNCHANGED <<clientVars, requests, pipe, up, gets, exits>>

(* The RST has come after epoll_wait: send fails with ECONNRESET ...       *)
SendFails(c) ==
  /\ up /\ c \in evs /\ evs' = evs \ {c}
  /\ ssock[c] = "reset"
  /\ \E s \in Held(c) : client' = [client EXCEPT ![s] = FreeSlot]
  /\ busy_num' = busy_num - 1
  /\ CloseSockets({c})
  /\ UNCHANGED <<clientVars, requests, trains, pipe, up, gets, exits>>

(* ... or, after a FIN, with EPIPE: nobody handles SIGPIPE and the process *)
(* ends, with all its connections.                                         *)
SigPipe(c) ==
  /\ up /\ c \in evs /\ Held(c) # {}
  /\ ssock[c] = "epipe"
  /\ up' = FALSE
  /\ client' = [s \in Slot |-> FreeSlot] /\ pipe' = <<>> /\ evs' = {}
  /\ busy_num' = 0
  /\ CloseSockets({d \in Conn : ssock[d] # "new"})
  /\ UNCHANGED <<clientVars, requests, trains, gets, exits>>

(* The slot was cleared by an earlier event of the batch.                  *)
DropEvent(c) ==
  /\ up /\ c \in evs /\ Held(c) = {}
  /\ evs' = evs \ {c}
  /\ UNCHANGED <<clientVars, netVars, pipe, client, busy_num, up, gets, exits>>

-----------------------------------------------------------------------------
Get == \E f \in File, d \in 1..TaskMax : GetFirst(f, d) \/ GetMore(f, d)

ClientStep == ReadData \/ ReadEnd \/ ReadEof

ServerStep ==
  \/ EpollWait \/ TakeConnection \/ ReadRequests
  \/ \E c \in Conn : SendSlices(c) \/ SendFails(c) \/ SigPipe(c) \/ DropEvent(c)

Next == Get \/ ClientStep \/ Quit \/ ServerStep
        \/ \E c \in Conn : ResetArrives(c)

Spec == Init /\ [][Next]_vars

-----------------------------------------------------------------------------
(* Properties *)

SlotOk(s) ==
  /\ client[s].download_fd \in Conn \cup {None}
  /\ client[s].task_num \in 0..TaskMax
  /\ \A k \in 1..TaskMax : client[s].cdinfo[k].fd \in 0..TaskMax

(* Every variable has its type. *)
TypeOK ==
  /\ \A j \in 1..TaskMax : /\ task[j].fd \in 0..TaskMax
                           /\ task[j].pos \in 0..(IF task[j].fd = 0 THEN 0
                                                  ELSE Size[task[j].file])
  /\ task_num \in 0..TaskMax /\ cfd \in Conn \cup {None}
  /\ \A s \in Slot : SlotOk(s)
  /\ busy_num \in 0..AVG_CLIENT_NUM /\ up \in BOOLEAN
  /\ evs \subseteq Conn \cup {Pipe, Cin}

(* A train names the file it belongs to by a descriptor of the client, and *)
(* the client reuses numbers: each one finds the task it was sent for.     *)
RightFile ==
  cfd # None /\ ~Failed(csock[cfd]) =>
    \A i \in 1..Len(trains[cfd]) :
      LET train == trains[cfd][i]
      IN \E j \in Owner(train.ctl_code) :
           train.block # None => train.block[1] = task[j].file

(* What the client reports as complete is the file, and a file that is not *)
(* mapped can be resumed at its size whatever happened before.             *)
WholeAtEnd ==
  /\ \A f \in File \ Mapped : local[f] = SubSeq(Whole(f), 1, Len(local[f]))
  /\ cfd # None /\ ~Failed(csock[cfd]) /\ trains[cfd] # <<>>
       /\ Head(trains[cfd]).block = None
     => \A j \in Owner(Head(trains[cfd]).ctl_code) :
          local[task[j].file] = Whole(task[j].file)

(* The client's thread, the server's thread and the network go on.         *)
FairSpec ==
  /\ Spec
  /\ WF_vars(ClientStep) /\ WF_vars(ServerStep)
  /\ \A c \in Conn : WF_vars(ResetArrives(c))

(* The client asked for a file on a connection the server was closing.     *)
Crossed == cfd # None /\ csock[cfd] \in {"reset", "epipe"}

(* A download ends, by its last train or by the client's exit, unless its  *)
(* request crossed the end of the previous download.                       *)
GetEnds == \A j \in 1..TaskMax : task[j].fd # 0 ~> task[j].fd = 0 \/ Crossed

(* "Server disconnected, the program ends": the same without exception.    *)
GetAlwaysEnds == \A j \in 1..TaskMax : task[j].fd # 0 ~> task[j].fd = 0

(* "The peer has left, all its downloads are cancelled": a slot whose      *)
(* client has closed is cleared.                                           *)
SlotCleared ==
  \A c \in Conn : csock[c] = "closed" /\ Held(c) # {} ~> Held(c) = {}

=============================================================================
