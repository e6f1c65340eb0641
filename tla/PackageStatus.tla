---------------------------- MODULE PackageStatus ----------------------------
(***************************************************************************)
(* The run intent kept in a package's database entry, and what each        *)
(* request and each report does to it                                      *)
(* (shared-libs/crates/start-core/src/status/mod.rs).                      *)
(*                                                                         *)
(* A DesiredStatus is a record whose main field names the variant.         *)
(***************************************************************************)

StartStop == {"Start", "Stop"}

Stopped == [main |-> "Stopped"]
Running == [main |-> "Running"]
Restarting(again) == [main |-> "Restarting", restartAgain |-> again]
BackingUp(onComplete) == [main |-> "BackingUp", onComplete |-> onComplete]
Updating(onComplete) == [main |-> "Updating", onComplete |-> onComplete]

DesiredStatus ==
    {Stopped, Running}
        \cup {Restarting(again) : again \in BOOLEAN}
        \cup {BackingUp(onComplete) : onComplete \in StartStop}
        \cup {Updating(onComplete) : onComplete \in StartStop}

\* DesiredStatus::run_state: what the user wants once nothing else is going on.
RunState(d) ==
    IF d \in {Running, Restarting(FALSE), Restarting(TRUE),
              BackingUp("Start"), Updating("Start")}
    THEN "Start"
    ELSE "Stop"

MarkBackingUp(d) == BackingUp(RunState(d))
MarkUpdating(d) == Updating(RunState(d))

\* DesiredStatus::stop and ::start, as the user's requests.  A backup or an
\* update in progress keeps going and only remembers what to do after it.
StopDesired(d) ==
    CASE d.main = "BackingUp" -> BackingUp("Stop")
      [] d.main = "Updating" -> Updating("Stop")
      [] OTHER -> Stopped

StartDesired(d) ==
    CASE d.main = "BackingUp" -> BackingUp("Start")
      [] d.main = "Updating" -> Updating("Start")
      [] d.main = "Stopped" -> Running
      [] OTHER -> d

\* Mutant: a restart requested while the service is starting is not queued.
RestartDesiredOnce(d, started) ==
    IF d.main = "Running" THEN Restarting(FALSE) ELSE d

\* DesiredStatus::restart.  A service that has not started yet needs another
\* stop and start after the start that is under way.
RestartDesired(d, started) ==
    CASE d.main = "Running" -> Restarting(~started)
      [] d.main = "Restarting" /\ ~started -> Restarting(TRUE)
      [] OTHER -> d

\* DesiredStatus::started: the intent once a start completes.
StartedDesired(d) ==
    CASE d = Restarting(TRUE) -> Restarting(FALSE)
      [] d = Restarting(FALSE) -> Running
      [] OTHER -> d

\* ServiceActorSeed::leave_backing_up: the intent once a backup is over.
LeaveBackingUp(d) ==
    CASE d = BackingUp("Start") -> Running
      [] d = BackingUp("Stop") -> Stopped
      [] OTHER -> d

\* Mutant: a service that was being backed up or updated comes back stopped.
InitDesiredForgets(d) ==
    IF d.main \in {"BackingUp", "Updating"} THEN Stopped ELSE d

\* StatusInfo::init: the intent when a service is loaded; whatever was going
\* on in the previous process is over.
InitDesired(d) ==
    CASE d \in {BackingUp("Start"), Updating("Start")} -> Running
      [] d \in {BackingUp("Stop"), Updating("Stop")} -> Stopped
      [] d.main = "Restarting" -> Running
      [] OTHER -> d
==============================================================================
