------------------------------ MODULE MCClient ------------------------------
(* Instances of Client for TLC. *)
EXTENDS Client, TLC

CONSTANTS a, b, root, docs

Sizes == a :> 3 @@ b :> 2
=============================================================================
