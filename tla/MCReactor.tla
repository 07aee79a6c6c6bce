------------------------------- MODULE MCReactor -------------------------------
(* Reactor with a few descriptors and workers. *)
EXTENDS Reactor

CONSTANTS w1, w2

=============================================================================
