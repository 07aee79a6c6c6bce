---------------------------- MODULE MCTaskExecutor ----------------------------
(* TaskExecutor with a few workers and tasks. *)
EXTENDS TaskExecutor

CONSTANTS w1, w2, w3, t1, t2, t3

=============================================================================
