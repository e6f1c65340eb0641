-------------------------- MODULE MCEffectCallbacks --------------------------
(***************************************************************************)
(* Instance of EffectCallbacks: two registrations of two services, one     *)
(* of them by getServiceInterface, and a value that changes twice.         *)
(***************************************************************************)
EXTENDS EffectCallbacks

CONSTANTS r1, r2, sA, sB

MCReg == {r1, r2}
MCService == {sA, sB}
MCOwner == [r \in MCReg |-> IF r = r2 THEN sB ELSE sA]
MCRewatching == {r2}
=============================================================================
