--------------------------- MODULE MCConcurrentActor ---------------------------
(***************************************************************************)
(* ConcurrentActor for TLC: two services that may call each other.         *)
(***************************************************************************)
EXTENDS ConcurrentActor
================================================================================
