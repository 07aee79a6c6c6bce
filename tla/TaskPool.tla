------------------------------- MODULE TaskPool -------------------------------
(***************************************************************************)
(* What the task executor promises to the reactor, without threads, mutex  *)
(* or condition variable: every task submitted is executed once, and the   *)
(* pool is shut down only after the last one.                              *)
(***************************************************************************)
CONSTANT Task

VARIABLES submitted, ran, closed

Init == submitted = {} /\ ran = {} /\ closed = FALSE

Submit(t) ==
  /\ ~closed /\ t \notin submitted
  /\ submitted' = submitted \cup {t}
  /\ UNCHANGED <<ran, closed>>

Execute(t) ==
  /\ ~closed /\ t \in submitted \ ran
  /\ ran' = ran \cup {t}
  /\ UNCHANGED <<submitted, closed>>

Close ==
  /\ ran = submitted
  /\ closed' = TRUE
  /\ UNCHANGED <<submitted, ran>>

Next == (\E t \in Task : Submit(t) \/ Execute(t)) \/ Close

Spec == Init /\ [][Next]_<<submitted, ran, closed>>

=============================================================================
