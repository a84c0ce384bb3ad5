-------------------------- MODULE MCMessageFraming --------------------------
(* Instances of MessageFraming for TLC. *)
EXTENDS MessageFraming

MCSizes     == 1 .. 7
MCDataSizes == 0 .. 2
=============================================================================
