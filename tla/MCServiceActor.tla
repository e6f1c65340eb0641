---------------------------- MODULE MCServiceActor ----------------------------
(***************************************************************************)
(* ServiceActor for TLC.                                                   *)
(***************************************************************************)
EXTENDS ServiceActor
===============================================================================
