----------------------------- MODULE MCDispatcher -----------------------------
(* Dispatcher with named descriptors; the threads are array indices. *)
EXTENDS Dispatcher, TLC

CONSTANTS f1, f2, f3, f4, f5

Numbers == {f1, f2, f3, f4, f5}
FewNumbers == {f1, f2, f3}

(* accept() may return any free number, so descriptors are interchangeable. *)
Symmetry == Permutations(Fd)

=============================================================================
