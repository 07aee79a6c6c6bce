------------------------------ MODULE MultiPoint ------------------------------
(***************************************************************************)
(* Downloads of the C drive from several servers at once: the thread       *)
(* vip_func of a client (src/client/more.c) cuts a file in SECTION_NUM     *)
(* sections and has them sent by SPOT_NUM servers, each a process of its   *)
(* own (src/server/ser.c, of which server1 and server2 are copies).  The   *)
(* client keeps the sections in a .temp file beside the download and       *)
(* resumes from it.                                                        *)
(*                                                                         *)
(* Positions are counted in slices of BUFSIZE; a slice is named by its     *)
(* file and position, a local file is a function of positions.  A          *)
(* connection carries one section, so the two trains the client sends on   *)
(* it (its token, then the section) are a count.  Every name is one of an  *)
(* existing file, of one size, which all the servers have.  What a server  *)
(* does with a connection whose client is gone shows nowhere but in its    *)
(* table of SOCKET_NUM slots, which is not modelled.                       *)
(***************************************************************************)
EXTENDS Integers, Sequences, FiniteSets, FiniteSetsExt

CONSTANTS
  File,         \* files of the drive, told apart by their MD5
  NameOf,       \* the name each has, for the client's directory
  FileSize,     \* slices of a file
  SECTION_NUM,  \* sections of a file
  SPOT_NUM,     \* servers
  NM,           \* downloads of the thread
  Window,       \* trains in flight that fill a socket's buffer
  MaxGets,      \* bound on downloads asked for
  MaxExits,     \* bound on the client's exits
  None

ASSUME MultiPointAssumption ==
  /\ FileSize \in Nat \ {0} /\ SECTION_NUM \in Nat \ {0}
  /\ SPOT_NUM \in Nat \ {0} /\ NM \in Nat \ {0} /\ Window \in Nat \ {0}
  /\ MaxGets \in Nat /\ MaxExits \in Nat
  /\ None \notin File

Name    == {NameOf[f] : f \in File}
Section == 0..SECTION_NUM - 1
Spot    == 1..SPOT_NUM
Pk      == 1..NM
Pos     == 0..FileSize - 1

VARIABLES
  pk,     \* client: pk[j], the downloads
  last,   \* client: len and code, the locals the last train was read into
  temp,   \* client's disk: the sections in the .temp of a name, or None
  disk,   \* client's disk: the slices under a name
  conn,   \* conn[j][k]: pk[j].sfd[k], with what the server keeps for it
  alive,  \* section servers that run
  gets, exits

clientVars == <<pk, last, temp, disk>>
vars == <<clientVars, conn, alive, gets, exits>>

Slice(f, x) == <<f, x>>
Hole == <<None, 0>>

(* The section as init_task cuts it: the last one takes the remainder. *)
Begin(i) == i * (FileSize \div SECTION_NUM)
End(i) ==
  IF i = SECTION_NUM - 1 THEN FileSize ELSE Begin(i + 1)

(* state: 0 to do, 1 at a server, 2 done *)
Sections ==
  [i \in Section |-> [state |-> 0, start |-> Begin(i), end |-> End(i)]]

(* linked: the .temp file it has open still has its name. *)
NoPackage == [file |-> None, sec |-> Sections, linked |-> FALSE]

(* phase: "none" (sfd is 0), "failed" (sfd is -1); and, at the server,     *)
(* "backlog", "accepted" (state 1), "known" (state 2), "serving"           *)
(* (EPOLLOUT), "dropped" (its slot is cleared, the socket is not closed);  *)
(* unread: trains of the client; number, start, end: the section asked     *)
(* for; off: the offset of the server's file.                              *)
NoConn == [phase |-> "none", unread |-> 0, file |-> None, number |-> 0,
           start |-> 0, end |-> 0, off |-> 0, down |-> <<>>]
NoConns == [k \in Spot |-> NoConn]

Init ==
  /\ pk = [j \in Pk |-> NoPackage] /\ last = None
  /\ temp = [n \in Name |-> None] /\ disk = [n \in Name |-> [x \in Pos |-> Hole]]
  /\ conn = [j \in Pk |-> NoConns] /\ alive = Spot
  /\ gets = 0 /\ exits = 0

-----------------------------------------------------------------------------
(* The client: more.c *)

ToDo(sec) == {i \in Section : sec[i].state = 0}
AllDone(sec) == \A i \in Section : sec[i].state = 2

(* Mutation: the section is not marked. *)
Taken_Unmarked(sec, i) == sec

Taken(sec, i) == [sec EXCEPT ![i].state = 1]

(* A new connection to the server of spot k, with the token on its way. *)
MtokenIdent(k) ==
  IF k \in alive THEN [NoConn EXCEPT !.phase = "backlog", !.unread = 1]
  ELSE [NoConn EXCEPT !.phase = "failed"]

(* send_task, if find_can_work finds a section: a connection, and the      *)
(* section sent after the token.  d holds the sections and the connections *)
(* of a download of file f.                                                *)
SendTask(f, d, k) ==
  IF ToDo(d.sec) = {} THEN d
  ELSE LET i == Min(ToDo(d.sec))
       IN  [sec  |-> Taken(d.sec, i),
            sfd  |-> [d.sfd EXCEPT ![k] =
              [MtokenIdent(k) EXCEPT !.unread = @ + 1, !.file = f, !.number = i,
                 !.start = d.sec[i].start, !.end = d.sec[i].end]]]

(* One for each server, in turn. *)
SendTasks(f, d) ==
  LET after[k \in 0..SPOT_NUM] ==
        IF k = 0 THEN d ELSE SendTask(f, after[k - 1], k)
  IN  after[SPOT_NUM]

(* The record of an earlier run: what was at a server is to do again. *)
Resumed(sec) ==
  [i \in Section |-> [sec[i] EXCEPT !.state = IF @ = 1 THEN 0 ELSE @]]

(* init_task: the sections, then one for each server. *)
InitTask(j, f) ==
  LET n   == NameOf[f]
      sec == IF temp[n] = None THEN Sections ELSE Resumed(temp[n])
      d   == SendTasks(f, [sec |-> sec, sfd |-> NoConns])
  IN  /\ pk' = [pk EXCEPT ![j] = [file |-> f, sec |-> d.sec, linked |-> TRUE]]
      /\ temp' = [temp EXCEPT ![n] = IF @ = None THEN Sections ELSE @]
      /\ conn' = [conn EXCEPT ![j] = d.sfd]

(* DOWN_MORE_POK reaches the thread; it does nothing when it has NM. *)
Mgets(f) ==
  /\ gets < MaxGets /\ gets' = gets + 1
  /\ LET free == {j \in Pk : pk[j].file = None}
     IN  IF free = {} THEN UNCHANGED <<pk, temp, conn>>
         ELSE InitTask(Min(free), f)
  /\ UNCHANGED <<last, disk, alive, exits>>

(* wwrite: the sections go to the file download j has open. *)
Record(j, sec) ==
  IF pk[j].linked THEN [temp EXCEPT ![NameOf[pk[j].file]] = sec] ELSE temp

(* Mutation: the slice is written at the start of the section. *)
Place_Begin(sec, i) == Begin(i)

(* Where a slice of section i goes, in the mapped file. *)
Place(sec, i) == sec[i].start

Advanced(sec, i) == [sec EXCEPT ![i].start = @ + 1]

Arrived(j, k) == conn[j][k].down # <<>>
First(j, k) == Head(conn[j][k].down)

(* A train with data from spot k. *)
GetSlice(j, k) ==
  LET t   == First(j, k)
      sec == Advanced(pk[j].sec, t.code)
  IN  /\ Arrived(j, k) /\ t.len # 0
      /\ disk' = [disk EXCEPT
                    ![NameOf[pk[j].file]][Place(pk[j].sec, t.code)] = t.data]
      /\ pk' = [pk EXCEPT ![j].sec = sec]
      /\ temp' = Record(j, sec)
      /\ conn' = [conn EXCEPT ![j][k].down = Tail(@)]
      /\ last' = [len |-> t.len, code |-> t.code]
      /\ UNCHANGED <<alive, gets, exits>>

(* Mutation: the download is over when there is no section left to send. *)
Over_NothingToDo(sec) == ToDo(sec) = {}

Over(sec) == AllDone(sec)

(* The section code of download j ends at spot k: the connection is closed *)
(* and the spot takes another section.                                     *)
NextTask(j, k, code) ==
  SendTask(pk[j].file, [sec |-> [pk[j].sec EXCEPT ![code].state = 2],
                        sfd |-> [conn[j] EXCEPT ![k] = NoConn]], k)

(* The end of a section, and of the download with the last one: the .temp  *)
(* of that name is removed, whoever has it open.                           *)
EndSection(j, k, code) ==
  LET d == NextTask(j, k, code)
      n == NameOf[pk[j].file]
  IN  IF Over(d.sec)
      THEN /\ pk' = [i \in Pk |->
                 IF i = j THEN NoPackage
                 ELSE [pk[i] EXCEPT !.linked =
                         @ /\ (pk[i].file = None \/ NameOf[pk[i].file] # n)]]
           /\ temp' = [temp EXCEPT ![n] = None]
           /\ conn' = [conn EXCEPT ![j] = NoConns]
      ELSE /\ pk' = [pk EXCEPT ![j].sec = d.sec]
           /\ temp' = Record(j, d.sec)
           /\ conn' = [conn EXCEPT ![j] = d.sfd]

(* A train of length 0 from spot k. *)
GetEnd(j, k) ==
  /\ Arrived(j, k) /\ First(j, k).len = 0
  /\ EndSection(j, k, First(j, k).code)
  /\ last' = [len |-> 0, code |-> First(j, k).code]
  /\ UNCHANGED <<disk, alive, gets, exits>>

(* The client ends: its files are what is left. *)
Ends ==
  /\ exits < MaxExits /\ exits' = exits + 1
  /\ pk' = [j \in Pk |-> NoPackage] /\ last' = None
  /\ conn' = [j \in Pk |-> NoConns]
  /\ UNCHANGED <<disk, alive, gets>>

ClientExits ==
  /\ \E j \in Pk : pk[j].file # None
  /\ Ends /\ UNCHANGED temp

(* It ends between the last wwrite and the remove. *)
ExitsBeforeRemove(j, k) ==
  /\ Arrived(j, k) /\ First(j, k).len = 0
  /\ LET d == NextTask(j, k, First(j, k).code)
     IN  Over(d.sec) /\ temp' = Record(j, d.sec)
  /\ Ends

-----------------------------------------------------------------------------
(* A section server: ser.c.  Its events are handled one at a time. *)


Accept(j, k) ==
  /\ conn[j][k].phase = "backlog" /\ k \in alive
  /\ conn' = [conn EXCEPT ![j][k].phase = "accepted"]
  /\ UNCHANGED <<clientVars, alive, gets, exits>>

(* Whether math_token returns something else than -1: it has no return     *)
(* statement, so both happen, whatever the token.                          *)
MathToken == BOOLEAN

(* The token.  Refused, the connection stays as it is. *)
Token(j, k) ==
  /\ conn[j][k].phase = "accepted" /\ conn[j][k].unread = 2
  /\ \E known \in MathToken :
       conn' = [conn EXCEPT ![j][k].phase = IF known THEN "known" ELSE @,
                            ![j][k].unread = 1]
  /\ UNCHANGED <<clientVars, alive, gets, exits>>

(* add_task *)
AddTask(t) == [t EXCEPT !.phase = "serving", !.unread = 0, !.off = t.start]

(* disconnect: the slot is cleared; the socket is not closed, so nothing   *)
(* tells the client.                                                       *)
Disconnect(t) == [t EXCEPT !.phase = "dropped", !.unread = 0]

(* The section: a connection that is not known is dropped. *)
TaskTrain(j, k) ==
  /\ conn[j][k].unread = 1
  /\ \/ /\ conn[j][k].phase = "known"
        /\ conn' = [conn EXCEPT ![j][k] = AddTask(@)]
     \/ /\ conn[j][k].phase = "accepted"
        /\ conn' = [conn EXCEPT ![j][k] = Disconnect(@)]
  /\ UNCHANGED <<clientVars, alive, gets, exits>>

Train(t) ==
  IF t.start < t.end /\ t.off < FileSize
  THEN [code |-> t.number, len |-> 1, data |-> Slice(t.file, t.off)]
  ELSE [code |-> t.number, len |-> 0, data |-> Hole]

(* EPOLLOUT.  The test is on pos, which is the start for ever: a section   *)
(* that is not empty is sent to the end of the file, then trains of length *)
(* 0 follow until the client closes.  Only an empty section is forgotten.  *)
Serve(j, k) ==
  LET t    == conn[j][k]
      sent == [t EXCEPT !.down = Append(@, Train(t)), !.off = @ + Train(t).len]
  IN  /\ t.phase = "serving" /\ Len(t.down) < Window
      /\ conn' = [conn EXCEPT ![j][k] =
                    IF t.start < t.end THEN sent ELSE Disconnect(sent)]
      /\ UNCHANGED <<clientVars, alive, gets, exits>>

Next ==
  \/ \E f \in File : Mgets(f)
  \/ \E j \in Pk, k \in Spot :
       \/ GetSlice(j, k) \/ GetEnd(j, k) \/ ExitsBeforeRemove(j, k)
       \/ Accept(j, k) \/ Token(j, k) \/ TaskTrain(j, k) \/ Serve(j, k)
  \/ ClientExits

Spec == Init /\ [][Next]_vars

(* What no run takes, for it breaks what follows (see the README): a       *)
(* server ends, by SIGPIPE on a connection whose client is gone or by      *)
(* itself, ...                                                             *)
ServerDies(s) ==
  /\ s \in alive /\ alive' = alive \ {s}
  /\ conn' = [j \in Pk |-> [conn[j] EXCEPT ![s].phase =
                               IF @ \in {"none", "failed"} THEN @ ELSE "dropped"]]
  /\ UNCHANGED <<clientVars, gets, exits>>

(* ... and the client takes the end of the stream for one more train, with *)
(* the len and code of the last one, whatever section that was of.         *)
GarbledTrain(j, k) ==
  /\ conn[j][k].phase = "dropped" /\ k \notin alive
  /\ conn[j][k].unread = 0 /\ ~Arrived(j, k) /\ last # None
  /\ IF last.len = 0 THEN EndSection(j, k, last.code)
     ELSE LET sec == Advanced(pk[j].sec, last.code)
          IN  /\ pk[j].sec[last.code].start < FileSize
              /\ pk' = [pk EXCEPT ![j].sec = sec]
              /\ temp' = Record(j, sec) /\ UNCHANGED conn
  /\ UNCHANGED <<disk, last, alive, gets, exits>>

SpecDying ==
  Init /\ [][\/ Next
             \/ \E s \in Spot : ServerDies(s)
             \/ \E j \in Pk, k \in Spot : GarbledTrain(j, k)]_vars

-----------------------------------------------------------------------------
(* Properties *)

SectionRecord == [state : 0..2, start : 0..FileSize, end : 0..FileSize]
Trains == [code : Section, len : {0, 1}, data : {Hole} \cup (File \X Pos)]

(* The types: positions stay within the file, both in the client's records *)
(* and in what the servers read, and no socket holds more than its buffer. *)
TypeOK ==
  /\ pk \in [Pk -> [file : File \cup {None}, sec : [Section -> SectionRecord],
                    linked : BOOLEAN]]
  /\ last \in {None} \cup [len : {0, 1}, code : Section]
  /\ \A n \in Name : temp[n] = None \/ temp[n] \in [Section -> SectionRecord]
  /\ disk \in [Name -> [Pos -> {Hole} \cup (File \X Pos)]]
  /\ \A j \in Pk, k \in Spot :
       /\ conn[j][k].unread \in 0..2 /\ conn[j][k].off \in 0..FileSize
       /\ conn[j][k].down \in Seq(Trains) /\ Len(conn[j][k].down) <= Window
  /\ alive \subseteq Spot /\ gets \in 0..MaxGets /\ exits \in 0..MaxExits

Has(n, f, from, to) == \A x \in from..to - 1 : disk[n][x] = Slice(f, x)

(* The .temp record never claims what the file does not have, at its place *)
(* and of the right file: what a section has behind its start, and the     *)
(* whole of a section that is done (wwrite after every slice, the reset of *)
(* init_task), through exits and two downloads that share both files.      *)
RecordHonest ==
  \A n \in Name : temp[n] # None =>
    \E f \in File :
      /\ NameOf[f] = n
      /\ \A i \in Section :
           /\ Has(n, f, Begin(i), temp[n][i].start)
           /\ temp[n][i].state = 2 => Has(n, f, Begin(i), End(i))

ServedBy(j, i) ==
  {k \in Spot : conn[j][k].phase # "none" /\ conn[j][k].number = i}

(* A section is marked as being at a server exactly while one server, and  *)
(* only one, is asked for it, for the file of the download (send_task, and *)
(* the end of a section); while some section is not done there is such a   *)
(* server: a download never runs out of servers before its sections.       *)
SpotsExact ==
  \A j \in Pk : pk[j].file # None =>
    /\ \A i \in Section :
         /\ Cardinality(ServedBy(j, i)) = IF pk[j].sec[i].state = 1 THEN 1 ELSE 0
         /\ \A k \in ServedBy(j, i) : conn[j][k].file = pk[j].file
    /\ AllDone(pk[j].sec) \/ \E i \in Section : pk[j].sec[i].state = 1

(* A download that is over, and whose .temp is removed, is the whole file: *)
(* no slice is missing, however the client exited and resumed before.      *)
WholeWhenOver ==
  [][\A j \in Pk :
       (pk[j].file # None /\ pk'[j].file = None /\ exits' = exits) =>
         Has(NameOf[pk[j].file], pk[j].file, 0, FileSize)]_vars

(* Not in a run, for the code does not keep to it: a server sends a        *)
(* section up to its end ("end position", src/client/child.h:38).          *)
WithinSection ==
  \A j \in Pk, i \in Section : pk[j].file # None => pk[j].sec[i].start <= End(i)

(* Not in a run: a download has a section to wait for, unless it is over.  *)
NothingStuck ==
  \A j \in Pk : pk[j].file # None => ~AllDone(pk[j].sec)

=============================================================================
