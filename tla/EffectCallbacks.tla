--------------------------- MODULE EffectCallbacks ---------------------------
(***************************************************************************)
(* Callbacks of service effects that are triggered by the database         *)
(* (start-core/src/service/effects/callbacks.rs): a service reads a value  *)
(* with an effect such as getStatus, leaves a callback, and is called once *)
(* when the value changes.  One key of one DbWatchedCallbacks is modelled: *)
(* its entry, which holds the handlers and the handle of the task that     *)
(* watches the value, and every task that was ever spawned for it.         *)
(*                                                                         *)
(* A registration is one call of such an effect, with its callback id; the *)
(* task it spawns, if its add finds no entry, has the same name.           *)
(***************************************************************************)
EXTENDS Integers, FiniteSets

CONSTANTS
    Reg,            \* registrations
    Service,        \* services that register
    Owner,          \* [Reg -> Service]
    Rewatching,     \* the registrations made by getServiceInterface
    MaxChanges,     \* bound on the changes of the value
    MaxCleared,     \* bound on the callbacks that are cleared
    NoTask          \* no watcher: the key has no entry

ASSUME OwnerAssumption == Owner \in [Reg -> Service]
ASSUME RewatchingAssumption == Rewatching \subseteq Reg
ASSUME MaxChangesAssumption == MaxChanges \in Nat
ASSUME NoTaskAssumption == NoTask \notin Reg

VARIABLES
    value,      \* the version of the value at the key's pointer
    phase,      \* [Reg -> how far the effect is]
    basis,      \* [Reg -> the version the service was given]
    seen,       \* [Reg -> the version its watch has seen]
    added,      \* [Reg -> the version when its handler was added]
    registered, \* callbacks of the containers' states (CallbackId::register)
    up,         \* services whose seed is alive
    entry,      \* the key's entry: its watcher, or NoTask, and its handlers
    task,       \* [Reg -> what the task spawned by that registration does]
    hands,      \* [Reg -> the handlers that task has taken and not finished]
    aborted,    \* tasks whose handle was dropped while they were running
    cleared,    \* callbacks a service has cleared
    sweep,      \* clear_callbacks has still to collect the garbage
    called,     \* callbacks whose notification went out
    lost,       \* callbacks that were taken and then dropped with their task
    failed      \* callbacks that were taken and whose notification failed

vars == <<value, phase, basis, seen, added, registered, up, entry, task, hands,
          aborted, cleared, sweep, called, lost, failed>>

effect == <<phase, basis, seen, added>>
outcome == <<called, lost, failed>>

\* The type invariant: handlers, watchers and callbacks are of registrations.
TypeOK ==
    /\ value \in 0..MaxChanges
    /\ phase \in [Reg -> {"idle", "read", "registered", "ready", "added"}]
    /\ basis \in [Reg -> 0..MaxChanges]
    /\ seen \in [Reg -> 0..MaxChanges]
    /\ added \in [Reg -> 0..MaxChanges]
    /\ registered \subseteq Reg
    /\ up \subseteq Service
    /\ entry \in [watcher : Reg \cup {NoTask}, handlers : SUBSET Reg]
    /\ task \in [Reg -> {"none", "waiting", "fired", "taken", "calling", "ended"}]
    /\ hands \in [Reg -> SUBSET Reg]
    /\ aborted \subseteq Reg
    /\ cleared \subseteq Reg
    /\ sweep \in BOOLEAN
    /\ called \subseteq Reg
    /\ lost \subseteq Reg
    /\ failed \subseteq Reg

NoEntry == [watcher |-> NoTask, handlers |-> {}]

Init ==
    /\ value = 0
    /\ phase = [r \in Reg |-> "idle"]
    /\ basis = [r \in Reg |-> 0]
    /\ seen = [r \in Reg |-> 0]
    /\ added = [r \in Reg |-> 0]
    /\ registered = {}
    /\ up = Service
    /\ entry = NoEntry
    /\ task = [r \in Reg |-> "none"]
    /\ hands = [r \in Reg |-> {}]
    /\ aborted = {}
    /\ cleared = {}
    /\ sweep = FALSE
    /\ called = {}
    /\ lost = {}
    /\ failed = {}

\* h.handle.is_active() && h.seed.strong_count() > 0
Active(r) == r \in registered /\ Owner[r] \in up

Change ==
    /\ value < MaxChanges
    /\ value' = value + 1
    /\ UNCHANGED <<effect, registered, up, entry, task, hands, aborted, cleared, sweep,
                   outcome>>

(***************************************************************************)
(* The effect: get_status and its like.                                    *)
(***************************************************************************)
\* The watch is made and read, in the state the service is given.
Read(r) ==
    /\ phase[r] = "idle"
    /\ Owner[r] \in up
    /\ phase' = [phase EXCEPT ![r] = "read"]
    /\ basis' = [basis EXCEPT ![r] = value]
    /\ seen' = [seen EXCEPT ![r] = value]
    /\ UNCHANGED <<value, added, registered, up, entry, task, hands, aborted,
                   cleared, sweep, outcome>>

\* CallbackId::register
Register(r) ==
    /\ phase[r] = "read"
    /\ phase' = [phase EXCEPT ![r] =
                    IF r \in Rewatching THEN "registered" ELSE "ready"]
    /\ registered' = registered \cup {r}
    /\ UNCHANGED <<value, basis, seen, added, up, entry, task, hands, aborted,
                   cleared, sweep, outcome>>

\* get_service_interface watches the node of the interface it has found, with
\* a new watch that is marked as seen.
Rewatch(r) ==
    /\ phase[r] = "registered"
    /\ phase' = [phase EXCEPT ![r] = "ready"]
    /\ seen' = [seen EXCEPT ![r] = value]
    /\ UNCHANGED <<value, basis, added, registered, up, entry, task, hands,
                   aborted, cleared, sweep, outcome>>

\* DbWatchedCallbacks::add: the first handler of an entry brings its watch,
\* the watch of a later one is dropped.
Add(r) ==
    /\ phase[r] = "ready"
    /\ phase' = [phase EXCEPT ![r] = "added"]
    /\ added' = [added EXCEPT ![r] = value]
    /\ IF entry.watcher = NoTask
       THEN /\ entry' = [watcher |-> r, handlers |-> {r}]
            /\ task' = [task EXCEPT ![r] = "waiting"]
       ELSE /\ entry' = [entry EXCEPT !.handlers = @ \cup {r}]
            /\ task' = task
    /\ UNCHANGED <<value, basis, seen, registered, up, hands, aborted, cleared, sweep,
                   outcome>>

(***************************************************************************)
(* The task of an entry.                                                   *)
(***************************************************************************)
\* watch.changed() returns.
Fire(t) ==
    /\ task[t] = "waiting"
    /\ value > seen[t]
    /\ task' = [task EXCEPT ![t] = "fired"]
    /\ UNCHANGED <<value, effect, registered, up, entry, hands, aborted, cleared, sweep,
                   outcome>>

\* Mutant of Take: what the task takes stays in the map.
TakeKeeps(t) ==
    /\ task[t] = "fired"
    /\ IF entry.watcher = NoTask
       THEN /\ task' = [task EXCEPT ![t] = "ended"]
            /\ UNCHANGED hands
       ELSE /\ task' = [task EXCEPT ![t] = "taken"]
            /\ hands' = [hands EXCEPT ![t] = entry.handlers]
    /\ UNCHANGED <<value, effect, registered, up, entry, aborted, cleared, sweep,
                   outcome>>

\* Under the mutex: whatever entry the key has is removed, and its watcher,
\* which need not be this task, is detached.
Take(t) ==
    /\ task[t] = "fired"
    /\ IF entry.watcher = NoTask
       THEN /\ task' = [task EXCEPT ![t] = "ended"]
            /\ UNCHANGED <<entry, hands>>
       ELSE /\ task' = [task EXCEPT ![t] = "taken"]
            /\ hands' = [hands EXCEPT ![t] = entry.handlers]
            /\ entry' = NoEntry
    /\ UNCHANGED <<value, effect, registered, up, aborted, cleared, sweep,
                   outcome>>

\* The task ends with its last handler.
After(left) == IF left = {} THEN "ended" ELSE "calling"

\* Mutant of CallAll: the notifications are prepared and never awaited.
CallAllNotAwaited(t) ==
    /\ task[t] = "taken"
    /\ task' = [task EXCEPT ![t] = "ended"]
    /\ hands' = [hands EXCEPT ![t] = {}]
    /\ registered' = registered \ {r \in hands[t] : Active(r)}
    /\ UNCHANGED <<value, effect, up, entry, aborted, cleared, sweep, outcome>>

\* CallbackHandlers::call, polled for the first time: every callback that is
\* still registered is taken from its container's state (params).
CallAll(t) ==
    /\ task[t] = "taken"
    /\ task' = [task EXCEPT ![t] = After({r \in hands[t] : Active(r)})]
    /\ hands' = [hands EXCEPT ![t] = {r \in @ : Active(r)}]
    /\ registered' = registered \ {r \in hands[t] : Active(r)}
    /\ UNCHANGED <<value, effect, up, entry, aborted, cleared, sweep, outcome>>

\* The notification of one callback has been written to the container.
Notify(t, r) ==
    /\ task[t] = "calling"
    /\ r \in hands[t]
    /\ hands' = [hands EXCEPT ![t] = @ \ {r}]
    /\ task' = [task EXCEPT ![t] = After(hands[t] \ {r})]
    /\ called' = called \cup {r}
    /\ UNCHANGED <<value, effect, registered, up, entry, aborted, cleared, sweep,
                   lost, failed>>

\* It cannot be written, on a new connection each time, and UnixRpcClient::
\* notify gives up; the error is logged and the callback is gone.
NotifyFails(t, r) ==
    /\ task[t] = "calling"
    /\ r \in hands[t]
    /\ hands' = [hands EXCEPT ![t] = @ \ {r}]
    /\ task' = [task EXCEPT ![t] = After(hands[t] \ {r})]
    /\ failed' = failed \cup {r}
    /\ UNCHANGED <<value, effect, registered, up, entry, aborted, cleared, sweep,
                   called, lost>>

\* A task whose handle was dropped ends when it has to wait, with what it has
\* not sent.
Cancel(t) ==
    /\ task[t] = "calling"
    /\ t \in aborted
    /\ task' = [task EXCEPT ![t] = "ended"]
    /\ lost' = lost \cup hands[t]
    /\ hands' = [hands EXCEPT ![t] = {}]
    /\ UNCHANGED <<value, effect, registered, up, entry, aborted, cleared, sweep,
                   called, failed>>

(***************************************************************************)
(* Clearing.                                                               *)
(***************************************************************************)
\* clear_callbacks, with only or with except: the ids are forgotten ...
ClearCallbacks(s, ids) ==
    /\ s \in up
    /\ ids # {} /\ ids \subseteq {r \in registered : Owner[r] = s}
    /\ Cardinality(cleared \cup ids) <= MaxCleared
    /\ registered' = registered \ ids
    /\ cleared' = cleared \cup ids
    /\ sweep' = TRUE
    /\ UNCHANGED <<value, effect, up, entry, task, hands, aborted, outcome>>

\* The service is gone: the handlers' weak references lead nowhere.
Stop(s) ==
    /\ s \in up
    /\ up' = up \ {s}
    /\ UNCHANGED <<value, effect, registered, entry, task, hands, aborted, cleared, sweep,
                   outcome>>

\* Mutant of Gc: an entry goes when one of its handlers is inactive.
GcEager ==
    /\ sweep
    /\ sweep' = FALSE
    /\ LET kept == {r \in entry.handlers : Active(r)}
       IN  IF kept = entry.handlers THEN UNCHANGED <<entry, task, aborted>>
           ELSE /\ entry' = NoEntry
                /\ task' = [task EXCEPT ![entry.watcher] =
                                IF @ = "waiting" THEN "ended" ELSE @]
                /\ aborted' = aborted \cup {entry.watcher}
    /\ UNCHANGED <<value, effect, registered, up, hands, cleared, outcome>>

\* ... then DbWatchedCallbacks::gc: inactive handlers go, and an entry without
\* handlers goes with its watcher.  A task that waits ends there; one that is
\* on its way to the mutex has no await left before it.
Gc ==
    /\ sweep
    /\ sweep' = FALSE
    /\ LET kept == {r \in entry.handlers : Active(r)}
       IN  IF entry.watcher = NoTask \/ kept # {}
           THEN /\ entry' = [entry EXCEPT !.handlers = kept]
                /\ UNCHANGED <<task, aborted>>
           ELSE /\ entry' = NoEntry
                /\ task' = [task EXCEPT ![entry.watcher] =
                                IF @ = "waiting" THEN "ended" ELSE @]
                /\ aborted' = aborted \cup {entry.watcher}
    /\ UNCHANGED <<value, effect, registered, up, hands, cleared, outcome>>

Next ==
    \/ Change
    \/ \E r \in Reg : Read(r)
    \/ \E r \in Reg : Register(r)
    \/ \E r \in Reg : Rewatch(r)
    \/ \E r \in Reg : Add(r)
    \/ \E t \in Reg : Fire(t)
    \/ \E t \in Reg : Take(t)
    \/ \E t \in Reg : CallAll(t)
    \/ \E t, r \in Reg : Notify(t, r)
    \/ \E t, r \in Reg : NotifyFails(t, r)
    \/ \E t \in Reg : Cancel(t)
    \/ \E s \in Service, ids \in SUBSET Reg : ClearCallbacks(s, ids)
    \/ \E s \in Service : Stop(s)
    \/ Gc

Spec == Init /\ [][Next]_vars

\* The runtime polls the tasks, effects and clear_callbacks run to their end,
\* and a write to a container succeeds or fails.
Fairness ==
    /\ \A r \in Reg : /\ WF_vars(Register(r))
                      /\ WF_vars(Rewatch(r))
                      /\ WF_vars(Add(r))
                      /\ WF_vars(Fire(r))
                      /\ WF_vars(Take(r))
                      /\ WF_vars(CallAll(r))
                      /\ \A t \in Reg : WF_vars(Notify(t, r) \/ NotifyFails(t, r))
    /\ WF_vars(Gc)

FairSpec == Spec /\ Fairness

(***************************************************************************)
(* Properties.                                                             *)
(***************************************************************************)
\* Where a handler can be: in the map, or with one of the tasks.
Places(r) == (IF r \in entry.handlers THEN {NoTask} ELSE {})
             \cup {t \in Reg : r \in hands[t]}

\* A callback is called at most once: no two tasks ever hold the same handler,
\* and one that was called, dropped or given up is held by none and never
\* called again, also when a task takes an entry that another one was spawned
\* for (add, detach_watcher, params).
CalledOnce ==
    \A r \in Reg : /\ \A p, q \in Places(r) : p = q
                   /\ r \in called \cup lost \cup failed => Places(r) = {}
                   /\ r \in called => r \notin lost \cup failed

\* As long as a callback that was added is registered, somebody will call it:
\* it is in an entry whose task still watches, or on its way to the mutex, and
\* will not be aborted, or a task has taken it (add, gc, detach_watcher).
SomebodyCalls ==
    /\ entry.watcher # NoTask =>
            /\ task[entry.watcher] \in {"waiting", "fired"}
            /\ entry.watcher \notin aborted
    /\ \A r \in Reg : phase[r] = "added" /\ Active(r) => Places(r) # {}

Withdrawn(r) == r \in cleared \/ Owner[r] \notin up

\* A change after a handler was added leads to its call, unless its service
\* clears it or stops, its container cannot be written to, or a task that was
\* aborted had taken it.
ChangeCalls ==
    \A r \in Reg :
        (phase[r] = "added" /\ value > added[r])
            ~> (r \in called \cup lost \cup failed \/ Withdrawn(r))

\* A change after the value was read leads to the call: "DB watches are
\* created atomically with each read to avoid race conditions" (info.rs), and
\* "When the subscription fires, all handlers are consumed and invoked".
NoChangeMissed ==
    \A r \in Reg :
        (phase[r] = "added" /\ value > basis[r])
            ~> (r \in called \cup failed \/ Withdrawn(r))
=============================================================================
