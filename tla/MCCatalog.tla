------------------------------- MODULE MCCatalog -------------------------------
(* Catalog with a few terminals, names and contents. *)
EXTENDS Catalog, TLC

CONSTANTS t1, t2, x, y, m1, m2

=============================================================================
