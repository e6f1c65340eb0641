------------------------------ MODULE MCDbSync ------------------------------
(***************************************************************************)
(* Instance of DbSync: two calls, two revisions committed after the        *)
(* interface starts, one of which may be silent, one connection that       *)
(* breaks or is closed.                                                    *)
(***************************************************************************)
EXTENDS DbSync

CONSTANTS c1, c2

MCCall == {c1, c2}
MCOneCall == {c1}

=============================================================================
