------------------------------- MODULE UploadPut -------------------------------
(***************************************************************************)
(* What a resumable upload promises, without chunks, checkpoints, crashes  *)
(* or connections: at each path the whole file appears at once, its index  *)
(* row follows the file, and a client is told of success after the row.    *)
(***************************************************************************)
CONSTANTS Client, Path, PathOf

VARIABLES whole,  \* paths that hold exactly the file
          row,    \* paths the index says hold it
          told    \* clients that were told their upload is complete

Init == whole = {} /\ row = {} /\ told = {}

Store(p) == whole' = whole \cup {p} /\ UNCHANGED <<row, told>>

Record(p) == p \in whole /\ row' = row \cup {p} /\ UNCHANGED <<whole, told>>

Tell(c) == PathOf[c] \in row /\ told' = told \cup {c} /\ UNCHANGED <<whole, row>>

Next == \/ \E p \in Path : Store(p) \/ Record(p)
        \/ \E c \in Client : Tell(c)

Spec == Init /\ [][Next]_<<whole, row, told>>

=============================================================================
