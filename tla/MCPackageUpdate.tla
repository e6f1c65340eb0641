---------------------------- MODULE MCPackageUpdate ----------------------------
(***************************************************************************)
(* PackageUpdate for TLC.                                                  *)
(***************************************************************************)
EXTENDS PackageUpdate
===============================================================================
