----------------------------- MODULE MCMultiPoint -----------------------------
(* MultiPoint with two files of different names, or of the same name. *)
EXTENDS MultiPoint

CONSTANTS f1, f2, n1, n2

OneFile   == {f1}
TwoFiles  == {f1, f2}
OneName   == [f \in {f1, f2} |-> n1]
TwoNames  == [f \in {f1, f2} |-> IF f = f1 THEN n1 ELSE n2]
JustOne   == [f \in {f1} |-> n1]

=============================================================================
