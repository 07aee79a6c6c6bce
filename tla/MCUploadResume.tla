---------------------------- MODULE MCUploadResume ----------------------------
(* UploadResume with one terminal, or two that upload to different paths.  *)
(* Workers and numbers are interchangeable, terminals with their paths.    *)
EXTENDS UploadResume, TLC

CONSTANTS c1, c2, p1, p2, w1, w2, f1, f2, f3

OneClient == {c1}
TwoClients == {c1, c2}
OnePath == {p1}
TwoPaths == {p1, p2}
PathOfOne == [c \in OneClient |-> p1]
PathOfTwo == [c \in TwoClients |-> IF c = c1 THEN p1 ELSE p2]

Symmetry == Permutations({w1, w2}) \cup Permutations({f1, f2, f3})
            \cup {c1 :> c2 @@ c2 :> c1 @@ p1 :> p2 @@ p2 :> p1}

===============================================================================
