----------------------------- MODULE ServiceActor -----------------------------
(***************************************************************************)
(* One installed package: its status in the database, the actor that       *)
(* drives the container to that status, the container, and the backup and  *)
(* update operations that use the actor to stop it                         *)
(* (shared-libs/crates/start-core/src/service, src/status, src/control.rs; *)
(* projects/start-os/container-runtime/src/Adapters/Systems).              *)
(*                                                                         *)
(* The actor never acts on a request directly: requests rewrite `desired`  *)
(* in the database, and the actor's loop, woken by the change, starts the  *)
(* one transition that the entry calls for.  A transition is a call into   *)
(* the container followed by a database write, and every other actor may   *)
(* run between the two.                                                    *)
(***************************************************************************)
EXTENDS Naturals, PackageStatus

CONSTANTS
    Systems,        \* the package kinds considered: "startos", "embassy"
    Faults,         \* the failures considered
    MaxRequests,    \* bound on what users, other services and crashes do
    MaxLate         \* bound on undelivered setMainStatus(stopped) calls

ASSUME SystemsAssumption == Systems \subseteq {"startos", "embassy"}
ASSUME ActorFaultsAssumption == Faults \subseteq {"start", "stop", "status"}
ASSUME RequestsAssumption == MaxRequests \in Nat /\ MaxLate \in Nat

VARIABLES
    system,     \* which kind of package this is
    desired,    \* statusInfo.desired
    started,    \* statusInfo.started is set
    blocked,    \* the entry has an active critical task (has_blocking_task)
    phase,      \* "dead": no process; "booting": Service::new; "live"
    wake,       \* the actor's select has something to return for
    task,       \* the transition in flight, and how far it is
    cooldown,   \* the actor sleeps after a failed transition
    main,       \* the package's main in the container
    late,       \* setMainStatus(stopped) calls sent and not delivered
    backup,     \* the caller of Service::backup
    cell,       \* ServiceActorSeed.backup holds the backup's future
    update,     \* the caller of quiesce
    requests,   \* ghost: what the environment did, up to MaxRequests
    owed,       \* ghost: a restart was asked for and no start followed yet
    halfway     \* ghost: a transition failed after the container had acted

entry == <<desired, started, blocked>>
actor == <<phase, wake, task, cooldown>>
callers == <<backup, cell, update>>
vars == <<system, desired, started, blocked, phase, wake, task, cooldown,
          main, late, backup, cell, update, requests, owed, halfway>>

NoTask == [kind |-> "none", step |-> "none"]
Transition ==
    {NoTask}
        \cup [kind : {"starting"}, step : {"call", "rpc", "reported", "db"}]
        \cup [kind : {"stopping"}, step : {"call", "db"}]
        \cup [kind : {"backing-up"}, step : {"call", "work"}]
Task(kind) == [kind |-> kind, step |-> "call"]
AtStep(kind, step) == task = [kind |-> kind, step |-> step]

Init ==
    /\ system \in Systems
    /\ desired = Stopped
    /\ started = FALSE
    /\ blocked \in BOOLEAN
    /\ phase = "dead"
    /\ wake = FALSE
    /\ task = NoTask
    /\ cooldown = FALSE
    /\ main = "down"
    /\ late = 0
    /\ backup = "idle"
    /\ cell = FALSE
    /\ update = "idle"
    /\ requests = 0
    /\ owed = FALSE
    /\ halfway = FALSE

(***************************************************************************)
(* Requests.  Each is one database mutation; any change of the entry wakes *)
(* the actor's watch.                                                      *)
(***************************************************************************)
Requested == requests < MaxRequests /\ requests' = requests + 1

Status(d, s) ==
    /\ desired' = d
    /\ started' = s
    /\ wake' = TRUE

\* control::start.
StartRequest ==
    /\ Requested
    /\ Status(StartDesired(desired), started)
    /\ UNCHANGED <<system, blocked, phase, task, cooldown, main, late,
                   callers, owed, halfway>>

\* control::stop and effects::control::shutdown.
StopRequest ==
    /\ Requested
    /\ Status(StopDesired(desired), started)
    /\ owed' = FALSE
    /\ UNCHANGED <<system, blocked, phase, task, cooldown, main, late,
                   callers, halfway>>

\* control::restart and effects::control::restart.
RestartRequest ==
    /\ Requested
    /\ Status(RestartDesired(desired, started), started)
    /\ owed' = (owed \/ desired.main \in {"Running", "Restarting"})
    /\ UNCHANGED <<system, blocked, phase, task, cooldown, main, late,
                   callers, halfway>>

\* An action's result, or another service's, activates or clears a task.
TaskChange ==
    /\ Requested
    /\ blocked' = ~blocked
    /\ wake' = TRUE
    /\ UNCHANGED <<system, desired, started, phase, task, cooldown, main, late,
                   callers, owed, halfway>>

(***************************************************************************)
(* The actor's loop.                                                       *)
(***************************************************************************)

\* Mutants of RequiredTransition: a transition in flight is replaced when the
\* entry calls for another; a backup is not held back until the stop; an
\* update does not call for one.
RequiredTransitionPreempts(current) ==
    CASE desired.main \in {"Running", "Restarting"} /\ ~started /\ ~blocked ->
           "starting"
      [] desired.main # "Running" /\ started -> "stopping"
      [] desired.main = "BackingUp" /\ ~started -> "backing-up"
      [] OTHER -> current

RequiredTransitionEager(current) ==
    IF current # "none" THEN current ELSE
    CASE desired.main = "BackingUp" -> "backing-up"
      [] desired.main \in {"Running", "Restarting"} /\ ~started /\ ~blocked ->
           "starting"
      [] desired.main \notin {"Running", "BackingUp"} /\ started -> "stopping"
      [] OTHER -> "none"

RequiredTransitionNoUpdate(current) ==
    IF current # "none" THEN current ELSE
    CASE started /\ (blocked \/ desired.main \notin {"Running", "Updating"}) ->
           "stopping"
      [] desired.main \in {"Running", "Restarting"} /\ ~started /\ ~blocked ->
           "starting"
      [] desired.main = "BackingUp" /\ ~started -> "backing-up"
      [] OTHER -> "none"

\* required_transition: the one in flight is never replaced.
RequiredTransition(current) ==
    IF current # "none" THEN current ELSE
    CASE started /\ (blocked \/ desired.main # "Running") -> "stopping"
      [] desired.main \in {"Running", "Restarting"} /\ ~started /\ ~blocked ->
           "starting"
      [] desired.main = "BackingUp" /\ ~started -> "backing-up"
      [] OTHER -> "none"

\* Mutant of CooldownOver: a failed transition is not tried again.
CooldownOverIgnored ==
    /\ phase = "live" /\ cooldown
    /\ cooldown' = FALSE
    /\ UNCHANGED <<system, entry, phase, wake, task, main, late, callers,
                   requests, owed, halfway>>

\* One turn of the loop: marks the entry seen and keeps or creates the task.
\* Coming out of the select drops a cooldown that is not over.
Reconcile ==
    /\ phase = "live" /\ wake
    /\ wake' = FALSE
    /\ cooldown' = FALSE
    /\ LET kind == RequiredTransition(task.kind)
       IN task' = IF kind = task.kind THEN task ELSE Task(kind)
    /\ UNCHANGED <<system, entry, phase, main, late, callers, requests, owed,
                   halfway>>

\* finish_transition's sleep is over.
CooldownOver ==
    /\ phase = "live" /\ cooldown
    /\ wake' = TRUE
    /\ cooldown' = FALSE
    /\ UNCHANGED <<system, entry, phase, task, main, late, callers, requests,
                   owed, halfway>>

\* finish_transition takes a transition that ended; after an error it sleeps.
Finished(ok) ==
    /\ task' = NoTask
    /\ cooldown' = ~ok

(***************************************************************************)
(* The start transition: ServiceActorSeed::start and the container's       *)
(* start, which returns at once when main is already there.                *)
(***************************************************************************)
StartCall ==
    /\ AtStep("starting", "call")
    /\ IF main = "down"
       THEN /\ main' = "starting"
            /\ task' = [task EXCEPT !.step = "rpc"]
            /\ owed' = FALSE
       ELSE /\ task' = [task EXCEPT !.step = "db"]
            /\ UNCHANGED <<main, owed>>
    /\ UNCHANGED <<system, entry, phase, wake, cooldown, late, callers,
                   requests, halfway>>

\* effects::control::set_main_status.
SetMainStatus(running) ==
    Status(IF running /\ ~started THEN StartedDesired(desired) ELSE desired,
           running)

\* MainLoop of a package for the previous OS version reports main as running
\* while the start call is still going on.
ReportRunning ==
    /\ system = "embassy"
    /\ AtStep("starting", "rpc")
    /\ SetMainStatus(TRUE)
    /\ task' = [task EXCEPT !.step = "reported"]
    /\ UNCHANGED <<system, blocked, phase, cooldown, main, late, callers,
                   requests, owed, halfway>>

Launching ==
    AtStep("starting", IF system = "embassy" THEN "reported" ELSE "rpc")

StartReturns ==
    /\ Launching
    /\ main' = "up"
    /\ task' = [task EXCEPT !.step = "db"]
    /\ UNCHANGED <<system, entry, phase, wake, cooldown, late, callers,
                   requests, owed, halfway>>

\* The package's main throws: the container forgets it.
StartFails ==
    /\ "start" \in Faults
    /\ Launching
    /\ main' = "down"
    /\ Finished(FALSE)
    /\ halfway' = (halfway \/ system = "embassy")
    /\ UNCHANGED <<system, entry, phase, wake, late, callers, requests, owed>>

StartRecord ==
    /\ AtStep("starting", "db")
    /\ Status(StartedDesired(desired), TRUE)
    /\ Finished(TRUE)
    /\ UNCHANGED <<system, blocked, phase, main, late, callers, requests, owed,
                   halfway>>

\* The status write of a start or a stop fails: the container has acted and
\* the entry does not say so.
Unrecorded ==
    /\ "status" \in Faults
    /\ AtStep("starting", "db") \/ AtStep("stopping", "db")
    /\ Finished(FALSE)
    /\ halfway' = TRUE
    /\ UNCHANGED <<system, entry, phase, wake, main, late, callers, requests,
                   owed>>

(***************************************************************************)
(* The stop transition: ServiceActorSeed::stop and the container's stop.   *)
(***************************************************************************)

\* A package for the previous OS version also reports that it stopped, and
\* does not wait for the report to arrive.
StopReturns ==
    /\ AtStep("stopping", "call")
    /\ IF system = "embassy" /\ main = "up"
       THEN late < MaxLate /\ late' = late + 1
       ELSE UNCHANGED late
    /\ main' = "down"
    /\ task' = [task EXCEPT !.step = "db"]
    /\ UNCHANGED <<system, entry, phase, wake, cooldown, callers, requests,
                   owed, halfway>>

\* Either the call had no effect, or a daemon failed to terminate and the
\* container forgot it all the same.
StopFails ==
    /\ "stop" \in Faults
    /\ AtStep("stopping", "call")
    /\ \/ UNCHANGED <<main, halfway>>
       \/ system = "startos" /\ main' = "down" /\ halfway' = TRUE
    /\ Finished(FALSE)
    /\ UNCHANGED <<system, entry, phase, wake, late, callers, requests, owed>>

StopRecord ==
    /\ AtStep("stopping", "db")
    /\ Status(desired, FALSE)
    /\ Finished(TRUE)
    /\ UNCHANGED <<system, blocked, phase, main, late, callers, requests, owed,
                   halfway>>

LateStopped ==
    /\ phase = "live" /\ late > 0
    /\ late' = late - 1
    /\ SetMainStatus(FALSE)
    /\ UNCHANGED <<system, blocked, phase, task, cooldown, main, callers,
                   requests, owed, halfway>>

(***************************************************************************)
(* Service::backup and the backup transition.  The caller has the actor    *)
(* prepare the backup's future, marks the entry, and awaits a handle that  *)
(* does not drive the future: only the transition does.                    *)
(***************************************************************************)
\* Mutant: the handle is returned and the future is not stored.
BackupPrepareUnstored ==
    /\ Requested
    /\ phase = "live" /\ backup = "idle" /\ update = "idle"
    /\ backup' = "prepared"
    /\ UNCHANGED <<system, entry, actor, main, late, cell, update, owed,
                   halfway>>

BackupPrepare ==
    /\ Requested
    /\ phase = "live" /\ backup = "idle" /\ update = "idle"
    /\ cell' = TRUE
    /\ backup' = "prepared"
    /\ UNCHANGED <<system, entry, actor, main, late, update, owed, halfway>>

BackupMark ==
    /\ backup = "prepared"
    /\ backup' = "waiting"
    /\ Status(MarkBackingUp(desired), started)
    /\ UNCHANGED <<system, blocked, phase, task, cooldown, main, late, cell,
                   update, requests, owed, halfway>>

\* The caller gives up, and drops its handle, when the mark is not written.
BackupMarkFails ==
    /\ "status" \in Faults
    /\ backup = "prepared"
    /\ backup' = "idle"
    /\ UNCHANGED <<system, entry, actor, main, late, cell, update, requests,
                   owed, halfway>>

BackupTake ==
    /\ AtStep("backing-up", "call") /\ cell
    /\ cell' = FALSE
    /\ task' = [task EXCEPT !.step = "work"]
    /\ UNCHANGED <<system, entry, phase, wake, cooldown, main, late, backup,
                   update, requests, owed, halfway>>

\* There is nothing to resume: the state is recovered and reported.
BackupNothing ==
    /\ AtStep("backing-up", "call") /\ ~cell
    /\ Status(LeaveBackingUp(desired), started)
    /\ Finished(FALSE)
    /\ UNCHANGED <<system, blocked, phase, main, late, callers, requests, owed,
                   halfway>>

\* The procedure ended, well or not; the entry leaves BackingUp and the
\* handle resolves.
BackupFinish ==
    /\ AtStep("backing-up", "work")
    /\ Status(LeaveBackingUp(desired), started)
    /\ Finished(TRUE)
    /\ backup' = "idle"
    /\ UNCHANGED <<system, blocked, phase, main, late, cell, update, requests,
                   owed, halfway>>

\* The same when the entry cannot be written: the transition still succeeds.
BackupUnrecorded ==
    /\ "status" \in Faults
    /\ AtStep("backing-up", "work")
    /\ wake' = TRUE
    /\ Finished(TRUE)
    /\ backup' = "idle"
    /\ UNCHANGED <<system, entry, phase, main, late, cell, update, requests,
                   owed, halfway>>

(***************************************************************************)
(* quiesce, called by an update, and the end of this service's process.    *)
(***************************************************************************)
QuiesceMark ==
    /\ Requested
    /\ phase = "live" /\ backup = "idle" /\ update = "idle"
    /\ update' = "marked"
    /\ Status(MarkUpdating(desired), started)
    /\ UNCHANGED <<system, blocked, phase, task, cooldown, main, late, backup,
                   cell, owed, halfway>>

\* wait_for(started.is_none()) returns; the volumes are snapshotted next.
QuiesceReturn ==
    /\ update = "marked" /\ ~started
    /\ update' = "quiesced"
    /\ UNCHANGED <<system, entry, actor, main, late, backup, cell, requests,
                   owed, halfway>>

\* The container and the actor go away with everything they were doing.
Gone ==
    /\ phase' = "dead"
    /\ wake' = FALSE
    /\ task' = NoTask
    /\ cooldown' = FALSE
    /\ main' = "down"
    /\ late' = 0
    /\ backup' = "idle"
    /\ cell' = FALSE
    /\ update' = "idle"
    /\ owed' = FALSE
    /\ halfway' = FALSE
    /\ UNCHANGED <<system, entry>>

\* ServiceRef::shutdown of the version that an update replaces.
UpdateReplaces ==
    /\ update = "quiesced"
    /\ Gone
    /\ UNCHANGED requests

\* A crash, or a shutdown of the server or of the service (rebuild).
Crash ==
    /\ Requested
    /\ phase # "dead"
    /\ Gone

\* Service::new: the entry is initialised, then the container.
Boot ==
    /\ phase = "dead"
    /\ phase' = "booting"
    /\ desired' = InitDesired(desired)
    /\ started' = FALSE
    /\ UNCHANGED <<system, blocked, wake, task, cooldown, main, late, callers,
                   requests, owed, halfway>>

\* Mutant: the actor waits for a change before its first turn.
InitializedAsleep ==
    /\ phase = "booting"
    /\ phase' = "live"
    /\ wake' = FALSE
    /\ UNCHANGED <<system, entry, task, cooldown, main, late, callers,
                   requests, owed, halfway>>

\* rt_initialized: the actor opens its watch and runs its first turn.
Initialized ==
    /\ phase = "booting"
    /\ phase' = "live"
    /\ wake' = TRUE
    /\ UNCHANGED <<system, entry, task, cooldown, main, late, callers,
                   requests, owed, halfway>>

Next ==
    \/ StartRequest \/ StopRequest \/ RestartRequest \/ TaskChange
    \/ Reconcile \/ CooldownOver
    \/ StartCall \/ ReportRunning \/ StartReturns \/ StartFails
    \/ StartRecord \/ Unrecorded
    \/ StopReturns \/ StopFails \/ StopRecord \/ LateStopped
    \/ BackupPrepare \/ BackupMark \/ BackupMarkFails
    \/ BackupTake \/ BackupNothing \/ BackupFinish \/ BackupUnrecorded
    \/ QuiesceMark \/ QuiesceReturn \/ UpdateReplaces
    \/ Crash \/ Boot \/ Initialized

\* The runtime polls a woken task and a pending call returns (WF); a call or
\* a write that is retried for ever succeeds at some point (SF).
Fairness ==
    /\ WF_vars(Reconcile) /\ WF_vars(CooldownOver)
    /\ WF_vars(StartCall) /\ WF_vars(ReportRunning) /\ WF_vars(LateStopped)
    /\ WF_vars(BackupMark) /\ WF_vars(BackupTake) /\ WF_vars(BackupNothing)
    /\ WF_vars(BackupFinish)
    /\ WF_vars(QuiesceReturn) /\ WF_vars(UpdateReplaces)
    /\ WF_vars(Boot) /\ WF_vars(Initialized)
    /\ SF_vars(StartReturns) /\ SF_vars(StartRecord)
    /\ SF_vars(StopReturns) /\ SF_vars(StopRecord)

Safety == Init /\ [][Next]_vars
Spec == Safety /\ Fairness

(***************************************************************************)
(* Properties.                                                             *)
(***************************************************************************)

\* Every variable has a value the code can give it, and no transition is in
\* flight without its actor.
TypeOK ==
    /\ system \in Systems
    /\ desired \in DesiredStatus
    /\ started \in BOOLEAN
    /\ blocked \in BOOLEAN
    /\ phase \in {"dead", "booting", "live"}
    /\ wake \in BOOLEAN
    /\ task \in Transition
    /\ task # NoTask => phase = "live"
    /\ cooldown \in BOOLEAN
    /\ main \in {"down", "starting", "up"}
    /\ late \in Nat
    /\ backup \in {"idle", "prepared", "waiting"}
    /\ cell \in BOOLEAN
    /\ update \in {"idle", "marked", "quiesced"}
    /\ requests \in Nat
    /\ owed \in BOOLEAN
    /\ halfway \in BOOLEAN

\* The entry says "started" exactly when main is up, whenever no start or stop
\* is in flight: the actor decides on the entry alone, so anything it gets
\* wrong here it never puts right.  (Packages of the current OS version, until
\* a transition fails halfway.)
EntryMatchesMain ==
    (/\ system = "startos" /\ ~halfway /\ phase = "live"
     /\ task.kind \in {"none", "backing-up"})
        => (started <=> main = "up") /\ main # "starting"

\* The backup procedure never runs beside main, however the requests of users
\* and the backup interleave with a start or stop in flight (the comment at
\* service/mod.rs:829).
BackupOnlyWhenStopped ==
    (system = "startos" /\ ~halfway /\ task.kind = "backing-up")
        => main = "down"

\* A restart that was accepted is followed by a fresh start of main, also when
\* it comes in the middle of a start: as long as it is owed, the entry (or the
\* stopped main) still calls for one.
RestartRemembered ==
    (system = "startos" /\ ~halfway /\ owed)
        => \/ desired.main \in {"Restarting", "BackingUp", "Updating"}
           \/ desired = Running /\ main = "down"

\* Only the user's start and stop change what the user wants: a restart, a
\* backup, an update, a crash in the middle of one and the recovery from it
\* all lead back to the run state there was.
IntentKept ==
    [][RunState(desired') # RunState(desired) => StartRequest \/ StopRequest]_vars

\* A stopped or blocked service comes down.
StopHonoured ==
    (system = "startos" /\ (desired = Stopped \/ blocked)) ~>
        (main = "down" \/ ~(desired = Stopped \/ blocked) \/ halfway)

\* A service that should run and may run comes up, through the restarts,
\* backups, updates, failures and crashes that come in between.
StartHonoured ==
    (system = "startos" /\ RunState(desired) = "Start" /\ ~blocked) ~>
        (main = "up" \/ RunState(desired) = "Stop" \/ blocked \/ halfway)

\* The caller of Service::backup gets its answer.
BackupAnswered == backup = "waiting" ~> backup = "idle"

\* An update is not kept waiting for the old version to stop.
QuiesceReturns == update = "marked" ~> update # "marked"

\* The claim of service_map.rs:399 and mod.rs:166: the volumes are snapshotted
\* once the actor has stopped main.
SnapshotOfStopped == update = "quiesced" => main = "down"

\* The claim of the test at status/mod.rs:207: a restart requested during a
\* start survives the start's completion.
RestartSurvivesStart ==
    [][AtStep("starting", "db") /\ owed /\ task' = NoTask
          => desired'.main # "Running"]_vars
===============================================================================
