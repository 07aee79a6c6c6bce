-------------------------------- MODULE MCFetch --------------------------------
(* Fetch of a path that holds one of three files: a streamed one of three  *)
(* blocks, a short one, and one that is large enough to be mapped.         *)
EXTENDS Fetch, TLC

CONSTANTS v1, v2, v3

Sizes == (v1 :> 3) @@ (v2 :> 1) @@ (v3 :> 4)

=============================================================================
