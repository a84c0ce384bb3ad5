---------------------------- MODULE MCNodesLock ----------------------------
(* Instances of NodesLock for TLC. *)
EXTENDS NodesLock

CONSTANTS n1, n2, p1, p2, p3
=============================================================================
