------------------------------- MODULE MCFraming -------------------------------
(* Framing of messages without headers or body, with one or with both, of  *)
(* sizes that make a buffer's half fall inside and between messages.       *)
EXTENDS Framing

Shapes == {[head |-> 0, body |-> 0], [head |-> 2, body |-> 0],
           [head |-> 1, body |-> 3]}

=============================================================================
