---------------------------- MODULE MCPatchDbStore ----------------------------
(***************************************************************************)
(* PatchDbStore for TLC.                                                   *)
(***************************************************************************)
EXTENDS PatchDbStore, TLC

\* Patches are opaque to the store, so any two of them are interchangeable.
PatchSymmetry == Permutations(Patch)
===============================================================================
