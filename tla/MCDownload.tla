------------------------------ MODULE MCDownload ------------------------------
(* Download with a file that is read and one that is mapped. *)
EXTENDS Download

CONSTANTS small, large

Sizes == [f \in {small, large} |-> 2]

=============================================================================
