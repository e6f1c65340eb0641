------------------------------ MODULE DurableLog ------------------------------
(***************************************************************************)
(* What a patch-db store promises its callers, without files: a document   *)
(* that is a sequence of patches, grown one acknowledged patch at a time.  *)
(* Stopping the process or losing power never takes an acknowledged patch  *)
(* back; what may survive beyond them is at most ONE patch, and only one   *)
(* that a caller submitted since the last acknowledgement and was told     *)
(* nothing, or an error, about.                                            *)
(***************************************************************************)
EXTENDS Sequences

CONSTANT Patch

VARIABLES
    log,        \* the acknowledged patches, oldest first
    up,         \* the store is open
    tried       \* patches submitted since the last acknowledgement or open

absVars == <<log, up, tried>>

Init ==
    /\ log = <<>>
    /\ up = FALSE
    /\ tried = {}

\* A caller hands in a patch.  Nothing is promised about it yet.
Submit(p) ==
    /\ up
    /\ tried' = tried \cup {p}
    /\ UNCHANGED <<log, up>>

\* The caller of a submitted patch is told it is applied.
Acknowledge(p) ==
    /\ up
    /\ p \in tried
    /\ log' = Append(log, p)
    /\ tried' = {}
    /\ UNCHANGED up

\* The store is closed, the process dies or the power fails.
Stop ==
    /\ up
    /\ up' = FALSE
    /\ UNCHANGED <<log, tried>>

\* The store is opened again on one of the documents a stop may leave.
Restart ==
    /\ ~up
    /\ up' = TRUE
    /\ log' \in {log} \cup {Append(log, p) : p \in tried}
    /\ tried' = {}

Next ==
    \/ \E p \in Patch : Submit(p) \/ Acknowledge(p)
    \/ Stop
    \/ Restart

Spec == Init /\ [][Next]_absVars
===============================================================================
