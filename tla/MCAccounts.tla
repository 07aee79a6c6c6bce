------------------------------ MODULE MCAccounts ------------------------------
(* Two terminals that share a small number of connections.                 *)
EXTENDS Accounts

CONSTANTS t1, t2, u1, u2, p1, p2, s1
TwoConns == 1..2
ThreeConns == 1..3

=============================================================================
