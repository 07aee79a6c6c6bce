-------------------------------- MODULE MCDrive --------------------------------
(* Drive with two users on two terminals: one of them has two contents to  *)
(* upload, one of which is also the other's.                               *)
EXTENDS Drive, TLC

CONSTANTS u1, u2, t1, t2, a, b, n1

Common == (u1 :> {a, b}) @@ (u2 :> {a})

Symmetry == Permutations({t1, t2})

=============================================================================
