-------------------------- MODULE ServiceActorProofs --------------------------
(***************************************************************************)
(* The safety of the service actor, for any number of requests, crashes    *)
(* and failures.                                                           *)
(***************************************************************************)
EXTENDS ServiceActor, TLAPS

(***************************************************************************)
(* The inductive invariant.                                                *)
(***************************************************************************)

\* A service without its process has no task and no main, a service being
\* loaded is not started, and a current package sends no reports.
Process ==
    /\ phase # "live" => task = NoTask /\ main = "down"
    /\ phase = "booting" => ~started
    /\ system = "startos" => late = 0

\* What the entry and main are at each step of the transition in flight.
InStep ==
    (system = "startos" /\ ~halfway /\ phase = "live") =>
        /\ task = NoTask => main = IF started THEN "up" ELSE "down"
        /\ task.kind = "backing-up" => ~started /\ main = "down"
        /\ task.kind = "starting" =>
              /\ ~started
              /\ task.step = "call" => main = "down"
              /\ task.step = "rpc" => main = "starting"
              /\ task.step = "db" => main = "up"
              /\ task.step # "reported"
        /\ task.kind = "stopping" =>
              /\ started
              /\ task.step = "call" => main = "up"
              /\ task.step = "db" => main = "down"

\* While a restart is owed, the entry calls for a start that has not begun: it
\* is not one that the start in flight will take for its own.
Owed ==
    (system = "startos" /\ ~halfway /\ owed) =>
        /\ RunState(desired) = "Start"
        /\ desired = Running => main = "down"
        /\ (task.kind = "starting" /\ task.step # "call") =>
               desired # Restarting(FALSE)

IInv == TypeOK /\ Process /\ InStep /\ Owed
(***************************************************************************)
(* The status algebra.                                                     *)
(***************************************************************************)

\* The eight values of DesiredStatus.
LEMMA Variants ==
    ASSUME NEW d \in DesiredStatus
    PROVE  \/ d = Stopped \/ d = Running
           \/ d = Restarting(FALSE) \/ d = Restarting(TRUE)
           \/ d = BackingUp("Start") \/ d = BackingUp("Stop")
           \/ d = Updating("Start") \/ d = Updating("Stop")
  BY DEF DesiredStatus, StartStop

\* They are all different.
LEMMA VariantFields ==
    /\ Stopped.main = "Stopped" /\ Running.main = "Running"
    /\ \A b \in BOOLEAN : Restarting(b).main = "Restarting"
    /\ Restarting(TRUE) # Restarting(FALSE)
    /\ \A o : BackingUp(o).main = "BackingUp" /\ Updating(o).main = "Updating"
    /\ BackingUp("Start") # BackingUp("Stop")
    /\ Updating("Start") # Updating("Stop")
  <1>1. Restarting(TRUE).restartAgain # Restarting(FALSE).restartAgain
    BY DEF Restarting
  <1>2. /\ BackingUp("Start").onComplete # BackingUp("Stop").onComplete
        /\ Updating("Start").onComplete # Updating("Stop").onComplete
    BY DEF BackingUp, Updating
  <1> QED
    BY <1>1, <1>2 DEF Stopped, Running, Restarting, BackingUp, Updating

\* Every request, mark, report and recovery yields a status.
LEMMA StatusTypes ==
    ASSUME NEW d \in DesiredStatus, NEW s \in BOOLEAN
    PROVE  /\ StopDesired(d) \in DesiredStatus
           /\ StartDesired(d) \in DesiredStatus
           /\ RestartDesired(d, s) \in DesiredStatus
           /\ StartedDesired(d) \in DesiredStatus
           /\ LeaveBackingUp(d) \in DesiredStatus
           /\ InitDesired(d) \in DesiredStatus
           /\ MarkBackingUp(d) \in DesiredStatus
           /\ MarkUpdating(d) \in DesiredStatus
  <1>1. /\ Stopped \in DesiredStatus /\ Running \in DesiredStatus
        /\ \A b \in BOOLEAN : Restarting(b) \in DesiredStatus
        /\ \A o \in StartStop :
              BackingUp(o) \in DesiredStatus /\ Updating(o) \in DesiredStatus
    BY DEF DesiredStatus
  <1>2. RunState(d) \in StartStop
    BY DEF RunState, StartStop
  <1> QED
    BY <1>1, <1>2, Variants, VariantFields
    DEF StopDesired, StartDesired, RestartDesired, StartedDesired,
        LeaveBackingUp, InitDesired, MarkBackingUp, MarkUpdating, StartStop

\* Only start and stop change what the user wants.
LEMMA RunStateKept ==
    ASSUME NEW d \in DesiredStatus, NEW s \in BOOLEAN
    PROVE  /\ RunState(RestartDesired(d, s)) = RunState(d)
           /\ RunState(StartedDesired(d)) = RunState(d)
           /\ RunState(LeaveBackingUp(d)) = RunState(d)
           /\ RunState(InitDesired(d)) = RunState(d)
           /\ RunState(MarkBackingUp(d)) = RunState(d)
           /\ RunState(MarkUpdating(d)) = RunState(d)
           /\ RunState(StartDesired(d)) = "Start"
           /\ d.main \in {"Running", "Restarting"} => RunState(d) = "Start"
  <1>1. /\ RunState(Stopped) = "Stop" /\ RunState(Running) = "Start"
        /\ \A b \in BOOLEAN : RunState(Restarting(b)) = "Start"
        /\ \A o \in StartStop :
              RunState(BackingUp(o)) = o /\ RunState(Updating(o)) = o
    BY VariantFields DEF RunState, StartStop
  <1>2. RunState(d) \in StartStop
    BY DEF RunState, StartStop
  <1>3. /\ RunState(MarkBackingUp(d)) = RunState(d)
        /\ RunState(MarkUpdating(d)) = RunState(d)
    BY <1>1, <1>2 DEF MarkBackingUp, MarkUpdating
  <1>4. /\ RunState(RestartDesired(d, s)) = RunState(d)
        /\ d.main \in {"Running", "Restarting"} => RunState(d) = "Start"
    BY <1>1, Variants, VariantFields DEF RestartDesired, StartStop
  <1>5. /\ RunState(StartedDesired(d)) = RunState(d)
        /\ RunState(LeaveBackingUp(d)) = RunState(d)
    BY <1>1, Variants, VariantFields DEF StartedDesired, LeaveBackingUp,
       StartStop
  <1>6. RunState(InitDesired(d)) = RunState(d)
    BY <1>1, Variants, VariantFields DEF InitDesired, StartStop
  <1>7. RunState(StartDesired(d)) = "Start"
    BY <1>1, Variants, VariantFields DEF StartDesired, StartStop
  <1> QED
    BY <1>3, <1>4, <1>5, <1>6, <1>7

\* What may become Running, or a restart that the next start completes.
LEMMA WhatBecomes ==
    ASSUME NEW d \in DesiredStatus, NEW s \in BOOLEAN
    PROVE  /\ RestartDesired(d, s) # Running
           /\ ~s => RestartDesired(d, s) # Restarting(FALSE)
           /\ StartDesired(d) = Running => d \in {Running, Stopped}
           /\ StartDesired(d) = Restarting(FALSE) => d = Restarting(FALSE)
           /\ StartedDesired(d) = Running => d \in {Running, Restarting(FALSE)}
           /\ LeaveBackingUp(d) = Restarting(FALSE) => d = Restarting(FALSE)
           /\ InitDesired(d) # Restarting(FALSE)
           /\ MarkBackingUp(d) \notin {Running, Restarting(FALSE)}
           /\ MarkUpdating(d) \notin {Running, Restarting(FALSE)}
           /\ RunState(Stopped) = "Stop"
  BY Variants, VariantFields
  DEF RunState, RestartDesired, StartedDesired, LeaveBackingUp, InitDesired,
      MarkBackingUp, MarkUpdating, StartDesired
(***************************************************************************)
(* The invariant is inductive.                                             *)
(***************************************************************************)

\* A package that was never loaded satisfies it.
LEMMA IInvInit == Init => IInv
  <1> SUFFICES ASSUME Init PROVE IInv
    OBVIOUS
  <1>1. Stopped \in DesiredStatus /\ NoTask \in Transition
    BY DEF DesiredStatus, Transition
  <1>2. TypeOK
    BY <1>1 DEF Init, TypeOK
  <1>3. Process /\ InStep /\ Owed
    BY DEF Init, Process, InStep, Owed
  <1> QED
    BY <1>2, <1>3 DEF IInv

\* Every step preserves it.
LEMMA IInvStep == IInv /\ [Next]_vars => IInv'
  <1> SUFFICES ASSUME IInv, [Next]_vars PROVE IInv'
    OBVIOUS
  <1>0. /\ desired \in DesiredStatus /\ started \in BOOLEAN
        /\ task \in Transition
    BY DEF IInv, TypeOK
  <1>1. /\ StopDesired(desired) \in DesiredStatus
        /\ StartDesired(desired) \in DesiredStatus
        /\ RestartDesired(desired, started) \in DesiredStatus
        /\ StartedDesired(desired) \in DesiredStatus
        /\ LeaveBackingUp(desired) \in DesiredStatus
        /\ InitDesired(desired) \in DesiredStatus
        /\ MarkBackingUp(desired) \in DesiredStatus
        /\ MarkUpdating(desired) \in DesiredStatus
    BY <1>0, StatusTypes
  <1>2. /\ RunState(RestartDesired(desired, started)) = RunState(desired)
        /\ RunState(StartedDesired(desired)) = RunState(desired)
        /\ RunState(LeaveBackingUp(desired)) = RunState(desired)
        /\ RunState(InitDesired(desired)) = RunState(desired)
        /\ RunState(MarkBackingUp(desired)) = RunState(desired)
        /\ RunState(MarkUpdating(desired)) = RunState(desired)
        /\ RunState(StartDesired(desired)) = "Start"
        /\ desired.main \in {"Running", "Restarting"}
              => RunState(desired) = "Start"
    BY <1>0, RunStateKept
  <1>3. /\ RestartDesired(desired, started) # Running
        /\ ~started => RestartDesired(desired, started) # Restarting(FALSE)
        /\ StartDesired(desired) = Running => desired \in {Running, Stopped}
        /\ StartDesired(desired) = Restarting(FALSE)
              => desired = Restarting(FALSE)
        /\ StartedDesired(desired) = Running
              => desired \in {Running, Restarting(FALSE)}
        /\ LeaveBackingUp(desired) = Restarting(FALSE)
              => desired = Restarting(FALSE)
        /\ InitDesired(desired) # Restarting(FALSE)
        /\ MarkBackingUp(desired) \notin {Running, Restarting(FALSE)}
        /\ MarkUpdating(desired) \notin {Running, Restarting(FALSE)}
        /\ RunState(Stopped) = "Stop"
    BY <1>0, WhatBecomes
  <1> USE DEF IInv, entry, actor, callers
  <1>4. CASE StartRequest
    <2>1. TypeOK'
      BY <1>4, <1>1 DEF StartRequest, Requested, Status, TypeOK
    <2>2. Process' /\ InStep'
      BY <1>4
      DEF StartRequest, Requested, Status, TypeOK, Transition, NoTask, Process,
          InStep
    <2>3. Owed'
      BY <1>4, <1>0, <1>2, <1>3
      DEF StartRequest, Requested, Status, Process, InStep, Owed, NoTask
    <2> QED
      BY <2>1, <2>2, <2>3
  <1>5. CASE StopRequest
    <2>1. TypeOK'
      <3>1. requests' \in Nat
        BY <1>5 DEF StopRequest, Requested, TypeOK
      <3> QED
        BY <1>5, <1>1, <3>1 DEF StopRequest, Status, TypeOK
    <2>2. Process' /\ InStep'
      BY <1>5
      DEF StopRequest, Requested, Status, TypeOK, Transition, NoTask, Process,
          InStep
    <2>3. Owed'
      BY <1>5, <1>0, <1>2, <1>3
      DEF StopRequest, Requested, Status, Process, InStep, Owed, NoTask
    <2> QED
      BY <2>1, <2>2, <2>3
  <1>6. CASE RestartRequest
    <2>1. TypeOK'
      BY <1>6, <1>1 DEF RestartRequest, Requested, Status, TypeOK
    <2>2. Process' /\ InStep'
      BY <1>6
      DEF RestartRequest, Requested, Status, TypeOK, Transition, NoTask,
          Process, InStep
    <2>3. Owed'
      <3> SUFFICES ASSUME system = "startos", ~halfway, owed'
                   PROVE  /\ RunState(desired') = "Start"
                          /\ desired' # Running
                          /\ (task.kind = "starting" /\ task.step # "call") =>
                                 desired' # Restarting(FALSE)
        BY <1>6 DEF RestartRequest, Owed
      <3>1. owed \/ desired.main \in {"Running", "Restarting"}
        BY <1>6 DEF RestartRequest
      <3>2. RunState(desired) = "Start"
        BY <1>2, <3>1 DEF Owed
      <3>3. desired' = RestartDesired(desired, started)
        BY <1>6 DEF RestartRequest, Status
      <3>4. task.kind = "starting" => ~started
        BY DEF Process, InStep, NoTask
      <3> QED
        BY <1>2, <1>3, <3>2, <3>3, <3>4
    <2> QED
      BY <2>1, <2>2, <2>3
  <1>7. CASE TaskChange
    <2>1. TypeOK'
      BY <1>7, <1>1 DEF TaskChange, Requested, TypeOK
    <2>2. Process' /\ InStep'
      BY <1>7
      DEF TaskChange, Requested, TypeOK, Transition, NoTask, Process, InStep
    <2>3. Owed'
      BY <1>7, <1>0, <1>2, <1>3
      DEF TaskChange, Requested, Process, InStep, Owed, NoTask
    <2> QED
      BY <2>1, <2>2, <2>3
  <1>8. CASE Reconcile
    <2>0. task' \in Transition
      BY <1>8
      DEF Reconcile, RequiredTransition, Task, TypeOK, Transition, NoTask
    <2>1. TypeOK'
      BY <1>8, <1>1, <2>0
      DEF Reconcile, RequiredTransition, Task, TypeOK, NoTask
    <2>2. Process' /\ InStep'
      <3> DEFINE kind == RequiredTransition(task.kind)
      <3>1. Process'
        BY <1>8 DEF Reconcile, Process
      <3>2. CASE task # NoTask
        <4>1. task.kind # "none"
          BY <3>2, <1>0 DEF Transition, NoTask
        <4>2. task' = task
          BY <1>8, <4>1 DEF Reconcile, RequiredTransition
        <4> QED
          BY <1>8, <3>1, <4>2 DEF Reconcile, InStep
      <3>3. CASE task = NoTask
        <4>1. task.kind = "none"
          BY <3>3 DEF NoTask
        <4>2. /\ kind \in {"none", "starting", "stopping", "backing-up"}
              /\ kind = "stopping" => started
              /\ kind \in {"starting", "backing-up"} => ~started
          BY <4>1 DEF RequiredTransition
        <4>3. task' = IF kind = "none" THEN NoTask ELSE Task(kind)
          BY <1>8, <3>3, <4>1 DEF Reconcile
        <4>4. /\ main' = main /\ started' = started /\ halfway' = halfway
              /\ system' = system /\ phase' = phase
          BY <1>8 DEF Reconcile
        <4>5. kind # "none" => task'.kind = kind /\ task'.step = "call"
          BY <4>3 DEF Task
        <4>6. kind = "none" <=> task' = NoTask
          BY <4>2, <4>3 DEF Task, NoTask
        <4> QED
          BY <3>1, <3>3, <4>2, <4>4, <4>5, <4>6 DEF InStep, NoTask
      <3> QED
        BY <3>2, <3>3
    <2>3. Owed'
      BY <1>8, <1>0, <1>2, <1>3
      DEF Reconcile, RequiredTransition, Task, Process, InStep, Owed, NoTask
    <2> QED
      BY <2>1, <2>2, <2>3
  <1>9. CASE CooldownOver
    <2>1. TypeOK'
      BY <1>9, <1>1 DEF CooldownOver, TypeOK
    <2>2. Process' /\ InStep'
      BY <1>9 DEF CooldownOver, TypeOK, Transition, NoTask, Process, InStep
    <2>3. Owed'
      BY <1>9, <1>0, <1>2, <1>3 DEF CooldownOver, Process, InStep, Owed, NoTask
    <2> QED
      BY <2>1, <2>2, <2>3
  <1>10. CASE StartCall
    <2>0. task' \in Transition
      BY <1>10 DEF StartCall, AtStep, TypeOK, Transition, NoTask
    <2>1. TypeOK'
      BY <1>10, <1>1, <2>0 DEF StartCall, AtStep, TypeOK, NoTask
    <2>2. Process' /\ InStep'
      BY <1>10
      DEF StartCall, AtStep, TypeOK, Transition, NoTask, Process, InStep
    <2>3. Owed'
      BY <1>10, <1>0, <1>2, <1>3
      DEF StartCall, AtStep, Process, InStep, Owed, NoTask
    <2> QED
      BY <2>1, <2>2, <2>3
  <1>11. CASE ReportRunning
    <2>0. task' \in Transition
      BY <1>11
      DEF ReportRunning, AtStep, SetMainStatus, Status, TypeOK, Transition,
          NoTask
    <2>1. TypeOK'
      BY <1>11, <1>1, <2>0
      DEF ReportRunning, AtStep, SetMainStatus, Status, TypeOK, NoTask
    <2>2. Process' /\ InStep'
      BY <1>11
      DEF ReportRunning, AtStep, SetMainStatus, Status, TypeOK, Transition,
          NoTask, Process, InStep
    <2>3. Owed'
      BY <1>11, <1>0, <1>2, <1>3
      DEF ReportRunning, AtStep, SetMainStatus, Status, Process, InStep, Owed,
          NoTask
    <2> QED
      BY <2>1, <2>2, <2>3
  <1>12. CASE StartReturns
    <2>0. task' \in Transition
      BY <1>12 DEF StartReturns, Launching, AtStep, TypeOK, Transition, NoTask
    <2>1. TypeOK'
      BY <1>12, <1>1, <2>0 DEF StartReturns, Launching, AtStep, TypeOK, NoTask
    <2>2. Process' /\ InStep'
      BY <1>12
      DEF StartReturns, Launching, AtStep, TypeOK, Transition, NoTask, Process,
          InStep
    <2>3. Owed'
      BY <1>12, <1>0, <1>2, <1>3
      DEF StartReturns, Launching, AtStep, Process, InStep, Owed, NoTask
    <2> QED
      BY <2>1, <2>2, <2>3
  <1>13. CASE StartFails
    <2>0. task' \in Transition
      BY <1>13
      DEF StartFails, Launching, AtStep, Finished, TypeOK, Transition, NoTask
    <2>1. TypeOK'
      BY <1>13, <1>1, <2>0
      DEF StartFails, Launching, AtStep, Finished, TypeOK, NoTask
    <2>2. Process' /\ InStep'
      BY <1>13
      DEF StartFails, Launching, AtStep, Finished, TypeOK, Transition, NoTask,
          Process, InStep
    <2>3. Owed'
      BY <1>13, <1>0, <1>2, <1>3
      DEF StartFails, Launching, AtStep, Finished, Process, InStep, Owed,
          NoTask
    <2> QED
      BY <2>1, <2>2, <2>3
  <1>14. CASE StartRecord
    <2>0. task' \in Transition
      BY <1>14
      DEF StartRecord, AtStep, Status, Finished, TypeOK, Transition, NoTask
    <2>1. TypeOK'
      BY <1>14, <1>1, <2>0
      DEF StartRecord, AtStep, Status, Finished, TypeOK, NoTask
    <2>2. Process' /\ InStep'
      BY <1>14
      DEF StartRecord, AtStep, Status, Finished, TypeOK, Transition, NoTask,
          Process, InStep
    <2>3. Owed'
      BY <1>14, <1>0, <1>2, <1>3
      DEF StartRecord, AtStep, Status, Finished, Process, InStep, Owed, NoTask
    <2> QED
      BY <2>1, <2>2, <2>3
  <1>15. CASE Unrecorded
    <2>0. task' \in Transition
      BY <1>15 DEF Unrecorded, AtStep, Finished, TypeOK, Transition, NoTask
    <2>1. TypeOK'
      BY <1>15, <1>1, <2>0 DEF Unrecorded, AtStep, Finished, TypeOK, NoTask
    <2>2. Process' /\ InStep'
      BY <1>15
      DEF Unrecorded, AtStep, Finished, TypeOK, Transition, NoTask, Process,
          InStep
    <2>3. Owed'
      BY <1>15, <1>0, <1>2, <1>3
      DEF Unrecorded, AtStep, Finished, Process, InStep, Owed, NoTask
    <2> QED
      BY <2>1, <2>2, <2>3
  <1>16. CASE StopReturns
    <2>0. task' \in Transition
      BY <1>16 DEF StopReturns, AtStep, TypeOK, Transition, NoTask
    <2>1. TypeOK'
      BY <1>16, <1>1, <2>0 DEF StopReturns, AtStep, TypeOK, NoTask
    <2>2. Process' /\ InStep'
      BY <1>16
      DEF StopReturns, AtStep, TypeOK, Transition, NoTask, Process, InStep
    <2>3. Owed'
      BY <1>16, <1>0, <1>2, <1>3
      DEF StopReturns, AtStep, Process, InStep, Owed, NoTask
    <2> QED
      BY <2>1, <2>2, <2>3
  <1>17. CASE StopFails
    <2>0. task' \in Transition
      BY <1>17 DEF StopFails, AtStep, Finished, TypeOK, Transition, NoTask
    <2>1. TypeOK'
      BY <1>17, <1>1, <2>0 DEF StopFails, AtStep, Finished, TypeOK, NoTask
    <2>2. Process' /\ InStep'
      BY <1>17
      DEF StopFails, AtStep, Finished, TypeOK, Transition, NoTask, Process,
          InStep
    <2>3. Owed'
      BY <1>17, <1>0, <1>2, <1>3
      DEF StopFails, AtStep, Finished, Process, InStep, Owed, NoTask
    <2> QED
      BY <2>1, <2>2, <2>3
  <1>18. CASE StopRecord
    <2>0. task' \in Transition
      BY <1>18
      DEF StopRecord, AtStep, Status, Finished, TypeOK, Transition, NoTask
    <2>1. TypeOK'
      BY <1>18, <1>1, <2>0
      DEF StopRecord, AtStep, Status, Finished, TypeOK, NoTask
    <2>2. Process' /\ InStep'
      BY <1>18
      DEF StopRecord, AtStep, Status, Finished, TypeOK, Transition, NoTask,
          Process, InStep
    <2>3. Owed'
      BY <1>18, <1>0, <1>2, <1>3
      DEF StopRecord, AtStep, Status, Finished, Process, InStep, Owed, NoTask
    <2> QED
      BY <2>1, <2>2, <2>3
  <1>19. CASE LateStopped
    <2>1. TypeOK'
      <3>1. late' \in Nat
        BY <1>19 DEF LateStopped, TypeOK
      <3>2. desired' = desired /\ started' = FALSE /\ wake' = TRUE
        BY <1>19 DEF LateStopped, SetMainStatus, Status
      <3> QED
        BY <1>19, <3>1, <3>2 DEF LateStopped, TypeOK
    <2>2. Process' /\ InStep'
      BY <1>19
      DEF LateStopped, SetMainStatus, Status, TypeOK, Transition, NoTask,
          Process, InStep
    <2>3. Owed'
      BY <1>19, <1>0, <1>2, <1>3
      DEF LateStopped, SetMainStatus, Status, Process, InStep, Owed, NoTask
    <2> QED
      BY <2>1, <2>2, <2>3
  <1>20. CASE BackupPrepare
    <2>1. TypeOK'
      BY <1>20, <1>1 DEF BackupPrepare, Requested, TypeOK
    <2>2. Process' /\ InStep'
      BY <1>20
      DEF BackupPrepare, Requested, TypeOK, Transition, NoTask, Process, InStep
    <2>3. Owed'
      BY <1>20, <1>0, <1>2, <1>3
      DEF BackupPrepare, Requested, Process, InStep, Owed, NoTask
    <2> QED
      BY <2>1, <2>2, <2>3
  <1>21. CASE BackupMark
    <2>1. TypeOK'
      BY <1>21, <1>1 DEF BackupMark, Status, TypeOK
    <2>2. Process' /\ InStep'
      BY <1>21
      DEF BackupMark, Status, TypeOK, Transition, NoTask, Process, InStep
    <2>3. Owed'
      BY <1>21, <1>0, <1>2, <1>3
      DEF BackupMark, Status, Process, InStep, Owed, NoTask
    <2> QED
      BY <2>1, <2>2, <2>3
  <1>22. CASE BackupMarkFails
    <2>1. TypeOK'
      BY <1>22, <1>1 DEF BackupMarkFails, TypeOK
    <2>2. Process' /\ InStep'
      BY <1>22 DEF BackupMarkFails, TypeOK, Transition, NoTask, Process, InStep
    <2>3. Owed'
      BY <1>22, <1>0, <1>2, <1>3
      DEF BackupMarkFails, Process, InStep, Owed, NoTask
    <2> QED
      BY <2>1, <2>2, <2>3
  <1>23. CASE BackupTake
    <2>0. task' \in Transition
      BY <1>23 DEF BackupTake, AtStep, TypeOK, Transition, NoTask
    <2>1. TypeOK'
      BY <1>23, <1>1, <2>0 DEF BackupTake, AtStep, TypeOK, NoTask
    <2>2. Process' /\ InStep'
      BY <1>23
      DEF BackupTake, AtStep, TypeOK, Transition, NoTask, Process, InStep
    <2>3. Owed'
      BY <1>23, <1>0, <1>2, <1>3
      DEF BackupTake, AtStep, Process, InStep, Owed, NoTask
    <2> QED
      BY <2>1, <2>2, <2>3
  <1>24. CASE BackupNothing
    <2>0. task' \in Transition
      BY <1>24
      DEF BackupNothing, AtStep, Status, Finished, TypeOK, Transition, NoTask
    <2>1. TypeOK'
      BY <1>24, <1>1, <2>0
      DEF BackupNothing, AtStep, Status, Finished, TypeOK, NoTask
    <2>2. Process' /\ InStep'
      BY <1>24
      DEF BackupNothing, AtStep, Status, Finished, TypeOK, Transition, NoTask,
          Process, InStep
    <2>3. Owed'
      BY <1>24, <1>0, <1>2, <1>3
      DEF BackupNothing, AtStep, Status, Finished, Process, InStep, Owed,
          NoTask
    <2> QED
      BY <2>1, <2>2, <2>3
  <1>25. CASE BackupFinish
    <2>0. task' \in Transition
      BY <1>25
      DEF BackupFinish, AtStep, Status, Finished, TypeOK, Transition, NoTask
    <2>1. TypeOK'
      BY <1>25, <1>1, <2>0
      DEF BackupFinish, AtStep, Status, Finished, TypeOK, NoTask
    <2>2. Process' /\ InStep'
      BY <1>25
      DEF BackupFinish, AtStep, Status, Finished, TypeOK, Transition, NoTask,
          Process, InStep
    <2>3. Owed'
      BY <1>25, <1>0, <1>2, <1>3
      DEF BackupFinish, AtStep, Status, Finished, Process, InStep, Owed, NoTask
    <2> QED
      BY <2>1, <2>2, <2>3
  <1>26. CASE BackupUnrecorded
    <2>0. task' \in Transition
      BY <1>26
      DEF BackupUnrecorded, AtStep, Finished, TypeOK, Transition, NoTask
    <2>1. TypeOK'
      BY <1>26, <1>1, <2>0
      DEF BackupUnrecorded, AtStep, Finished, TypeOK, NoTask
    <2>2. Process' /\ InStep'
      BY <1>26
      DEF BackupUnrecorded, AtStep, Finished, TypeOK, Transition, NoTask,
          Process, InStep
    <2>3. Owed'
      BY <1>26, <1>0, <1>2, <1>3
      DEF BackupUnrecorded, AtStep, Finished, Process, InStep, Owed, NoTask
    <2> QED
      BY <2>1, <2>2, <2>3
  <1>27. CASE QuiesceMark
    <2>1. TypeOK'
      BY <1>27, <1>1 DEF QuiesceMark, Requested, Status, TypeOK
    <2>2. Process' /\ InStep'
      BY <1>27
      DEF QuiesceMark, Requested, Status, TypeOK, Transition, NoTask, Process,
          InStep
    <2>3. Owed'
      BY <1>27, <1>0, <1>2, <1>3
      DEF QuiesceMark, Requested, Status, Process, InStep, Owed, NoTask
    <2> QED
      BY <2>1, <2>2, <2>3
  <1>28. CASE QuiesceReturn
    <2>1. TypeOK'
      BY <1>28, <1>1 DEF QuiesceReturn, TypeOK
    <2>2. Process' /\ InStep'
      BY <1>28 DEF QuiesceReturn, TypeOK, Transition, NoTask, Process, InStep
    <2>3. Owed'
      BY <1>28, <1>0, <1>2, <1>3
      DEF QuiesceReturn, Process, InStep, Owed, NoTask
    <2> QED
      BY <2>1, <2>2, <2>3
  <1>29. CASE UpdateReplaces
    <2>0. task' \in Transition
      BY <1>29 DEF UpdateReplaces, Gone, TypeOK, Transition, NoTask
    <2>1. TypeOK'
      BY <1>29, <1>1, <2>0 DEF UpdateReplaces, Gone, TypeOK, NoTask
    <2>2. Process' /\ InStep'
      BY <1>29
      DEF UpdateReplaces, Gone, TypeOK, Transition, NoTask, Process, InStep
    <2>3. Owed'
      BY <1>29, <1>0, <1>2, <1>3
      DEF UpdateReplaces, Gone, Process, InStep, Owed, NoTask
    <2> QED
      BY <2>1, <2>2, <2>3
  <1>30. CASE Crash
    <2>0. task' \in Transition
      BY <1>30 DEF Crash, Gone, Requested, TypeOK, Transition, NoTask
    <2>1. TypeOK'
      <3>1. requests' \in Nat
        BY <1>30 DEF Crash, Requested, TypeOK
      <3> QED
        BY <1>30, <2>0, <3>1 DEF Crash, Gone, TypeOK
    <2>2. Process' /\ InStep'
      BY <1>30
      DEF Crash, Gone, Requested, TypeOK, Transition, NoTask, Process, InStep
    <2>3. Owed'
      BY <1>30, <1>0, <1>2, <1>3
      DEF Crash, Gone, Requested, Process, InStep, Owed, NoTask
    <2> QED
      BY <2>1, <2>2, <2>3
  <1>31. CASE Boot
    <2>1. TypeOK'
      BY <1>31, <1>1 DEF Boot, TypeOK
    <2>2. Process' /\ InStep'
      BY <1>31 DEF Boot, TypeOK, Transition, NoTask, Process, InStep
    <2>3. Owed'
      BY <1>31, <1>0, <1>2, <1>3 DEF Boot, Process, InStep, Owed, NoTask
    <2> QED
      BY <2>1, <2>2, <2>3
  <1>32. CASE Initialized
    <2>1. TypeOK'
      BY <1>32, <1>1 DEF Initialized, TypeOK
    <2>2. Process' /\ InStep'
      BY <1>32 DEF Initialized, TypeOK, Transition, NoTask, Process, InStep
    <2>3. Owed'
      BY <1>32, <1>0, <1>2, <1>3 DEF Initialized, Process, InStep, Owed, NoTask
    <2> QED
      BY <2>1, <2>2, <2>3
  <1>33. CASE UNCHANGED vars
    <2>1. TypeOK'
      BY <1>33 DEF vars, TypeOK
    <2>2. Process' /\ InStep'
      BY <1>33 DEF vars, Process, InStep
    <2>3. Owed'
      BY <1>33 DEF vars, Owed
    <2> QED
      BY <2>1, <2>2, <2>3
  <1> QED
    BY <1>4, <1>5, <1>6, <1>7, <1>8, <1>9, <1>10, <1>11, <1>12, <1>13, <1>14,
       <1>15, <1>16, <1>17, <1>18, <1>19, <1>20, <1>21, <1>22, <1>23, <1>24,
       <1>25, <1>26, <1>27, <1>28, <1>29, <1>30, <1>31, <1>32, <1>33
    DEF Next

\* Together: the invariant holds for ever.
LEMMA IInvAlways == Safety => []IInv
  BY IInvInit, IInvStep, PTL DEF Safety

(***************************************************************************)
(* What follows from it.                                                   *)
(***************************************************************************)

\* Every variable keeps its type, and no transition outlives its actor.
THEOREM ActorTypeCorrect == Safety => []TypeOK
  <1>1. IInv => TypeOK
    BY DEF IInv
  <1> QED
    BY <1>1, IInvAlways, PTL

\* Whenever no start or stop is in flight, the database entry of a current
\* package says started exactly when its main is up.
THEOREM EntryIsRight == Safety => []EntryMatchesMain
  <1>1. IInv => EntryMatchesMain
    <2> SUFFICES ASSUME IInv, system = "startos", ~halfway, phase = "live",
                        task.kind \in {"none", "backing-up"}
                 PROVE  (started <=> main = "up") /\ main # "starting"
      BY DEF EntryMatchesMain
    <2>1. task = NoTask \/ task.kind = "backing-up"
      BY DEF IInv, TypeOK, Transition, NoTask
    <2> QED
      BY <2>1 DEF IInv, TypeOK, InStep
  <1> QED
    BY <1>1, IInvAlways, PTL

\* A backup and main of a current package exclude one another.
THEOREM NothingBesideBackup == Safety => []BackupOnlyWhenStopped
  <1>1. IInv => BackupOnlyWhenStopped
    BY DEF IInv, TypeOK, Process, InStep, BackupOnlyWhenStopped, NoTask
  <1> QED
    BY <1>1, IInvAlways, PTL

\* An accepted restart is kept, through backups, updates and crashes, until a
\* fresh start of main begins.
THEOREM RestartIsKept == Safety => []RestartRemembered
  <1>1. ASSUME IInv, system = "startos", ~halfway, owed
        PROVE  \/ desired.main \in {"Restarting", "BackingUp", "Updating"}
               \/ desired = Running /\ main = "down"
    <2>1. desired # Stopped
      BY <1>1, WhatBecomes DEF IInv, TypeOK, Owed
    <2>2. desired = Running => main = "down"
      BY <1>1 DEF IInv, Owed
    <2>3. desired \in DesiredStatus
      BY <1>1 DEF IInv, TypeOK
    <2>4. desired = Running
             \/ desired.main \in {"Restarting", "BackingUp", "Updating"}
      BY <2>1, <2>3, Variants, VariantFields
    <2> QED
      BY <2>2, <2>4
  <1>2. IInv => RestartRemembered
    BY <1>1 DEF RestartRemembered
  <1> QED
    BY <1>2, IInvAlways, PTL

\* No step but the user's start and stop changes what the user wants, backups,
\* updates, crashes and recoveries included.
THEOREM IntentIsTheUsers == Safety => IntentKept
  <1>1. ASSUME TypeOK, [Next]_vars
        PROVE  [RunState(desired') # RunState(desired)
                   => StartRequest \/ StopRequest]_vars
    <2> SUFFICES ASSUME ~StartRequest, ~StopRequest
                 PROVE  RunState(desired') = RunState(desired)
      OBVIOUS
    <2>1. desired \in DesiredStatus /\ started \in BOOLEAN
      BY <1>1 DEF TypeOK
    <2>2. \/ desired' = desired
          \/ desired' \in {RestartDesired(desired, started),
                           StartedDesired(desired), LeaveBackingUp(desired),
                           InitDesired(desired), MarkBackingUp(desired),
                           MarkUpdating(desired)}
      BY <1>1
      DEF Next, RestartRequest, TaskChange, Reconcile, CooldownOver, StartCall,
          ReportRunning, StartReturns, StartFails, StartRecord, Unrecorded,
          StopReturns, StopFails, StopRecord, LateStopped, BackupPrepare,
          BackupMark, BackupMarkFails, BackupTake, BackupNothing, BackupFinish,
          BackupUnrecorded, QuiesceMark, QuiesceReturn, UpdateReplaces, Crash,
          Boot, Initialized, Gone, Status, SetMainStatus, entry, vars
    <2> QED
      BY <2>1, <2>2, RunStateKept
  <1> QED
    BY <1>1, ActorTypeCorrect, PTL DEF Safety, IntentKept
===============================================================================
