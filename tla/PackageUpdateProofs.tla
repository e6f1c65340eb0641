------------------------- MODULE PackageUpdateProofs -------------------------
(***************************************************************************)
(* The safety of updates and rollbacks, for any number of updates, rebuilds *)
(* and crashes and any set of failures.                                    *)
(***************************************************************************)
EXTENDS PackageUpdate, TLAPS

(***************************************************************************)
(* The inductive invariant.                                                *)
(***************************************************************************)

\* The steps of an update up to its commit, those after which its s9pk is
\* there, and those of a load or a boot.
UpdateSteps == {"downloading", "snapshot", "snapshot-rename", "uninit", "init",
                "commit"}
Downloaded == {"snapshot", "snapshot-rename", "uninit", "init", "commit"}
LoadSteps == {"load", "off", "sweep"}
Loading == {"resume", "restore", "restore-land", "restore-drop", "ensure",
            "failed"} \cup LoadSteps
Settled == {"idle", "begin", "marking", "cleanup", "remove", "restore",
            "restore-land", "restore-drop", "ensure", "failed"}

\* Every step is of one kind: the entry's state follows from it, and that no
\* service runs while one is loaded.
Steps ==
    /\ pc \in UpdateSteps \cup LoadSteps \cup Settled
                 \cup {"resume", "resume-commit"}
    /\ pc \in Settled => entry.state = "Installed"
    /\ pc \in UpdateSteps \cup {"resume", "resume-commit"} =>
           entry.state = "Updating"
    /\ pc \in Loading => running = "none"
    /\ pc = "begin" /\ prev => running # "none"
    /\ pc = "begin" /\ ~prev => running = "none"

\* The files are there when they are needed.
S9pks ==
    /\ entry.s9pk \in files
    /\ pc \in Downloaded => "s9pk2" \in files
    /\ pc = "cleanup" => entry.s9pk = "s9pk2"

\* The trees hold files.  A root is missing only in the middle of a restore,
\* beside the backup that is to land; a restore is pending only where it will
\* be resolved before anything starts.
Trees ==
    /\ "skel" \notin {live, bak, tmp, aside}
    /\ aside = "none" => live # "none"
    /\ aside # "none" =>
           /\ (live = "none") <=> (bak # "none")
           /\ entry.state = "Installed"
           /\ running = "none"
           /\ pc \in {"begin", "restore-land", "restore-drop", "ensure",
                      "failed"} \cup LoadSteps
    /\ pc = "restore-land" => live = "none"
    /\ pc = "restore-drop" => live # "none" /\ aside # "none"

\* Where the old version's data is, as long as the rollback is guaranteed: in
\* the live root before the new version's code may have run and after a
\* restore, in the backup in between.
Rollback ==
    (entry.manifest = "v1" /\ excused = {}) =>
        /\ entry.s9pk = "s9pk1"
        /\ bak \in {"none", "old"}
        /\ "old" \in {live, bak}
        /\ pc = "snapshot-rename" => tmp = "old"
        /\ pc \in {"idle", "marking", "downloading", "snapshot",
                   "snapshot-rename", "remove"} => live = "old"
        /\ pc \in {"uninit", "init", "commit", "resume", "resume-commit"} =>
               bak = "old"
        /\ (entry.state = "Installed" /\ pc # "restore") =>
               live = "old" \/ (live = "none" /\ bak = "old")

\* Until then the new version, once committed, runs on its own data.
Versions ==
    excused = {} =>
        /\ entry.manifest = "v2" =>
               /\ entry.s9pk = "s9pk2" /\ entry.state = "Installed"
               /\ live = "new" /\ aside = "none"
               /\ pc \in {"idle", "cleanup", "remove", "ensure", "failed"}
                            \cup LoadSteps
        /\ pc \in {"idle", "remove", "cleanup"} => running = entry.manifest
        /\ pc = "begin" => running \in {entry.manifest, "none"}
        /\ pc = "commit" => live = "new" /\ running = "v2"

IInv == TypeOK /\ Steps /\ S9pks /\ Trees /\ Rollback /\ Versions

\* A package that is installed and idle satisfies it.
LEMMA IInvInit == Init => IInv
  <1> SUFFICES ASSUME Init PROVE IInv
    OBVIOUS
  <1>1. TypeOK
    <2>1. entry \in Entry /\ files \subseteq {"s9pk1", "s9pk2"}
      BY DEF Init, Installed, Entry
    <2>2. /\ {live, bak, tmp, aside} \subseteq Tree
          /\ {live, bak, aside} # {"none"}
      BY DEF Init, Tree
    <2>3. /\ crashes \in 0..MaxCrashes /\ updates \in 0..MaxUpdates
          /\ rebuilds \in 0..MaxUpdates
      BY UpdateBoundsAssumption DEF Init
    <2> QED
      BY <2>1, <2>2, <2>3 DEF Init, TypeOK
  <1>2. Steps /\ S9pks
    BY DEF Init, Steps, S9pks, Installed, UpdateSteps, Downloaded, LoadSteps,
           Settled, Loading
  <1>3. Trees
    BY DEF Init, Trees
  <1>4. Rollback
    BY DEF Init, Rollback, Installed
  <1>5. Versions
    BY DEF Init, Versions, Installed
  <1> QED
    BY <1>1, <1>2, <1>3, <1>4, <1>5 DEF IInv

LEMMA IInvStep == IInv /\ [Next]_vars => IInv'
  <1> SUFFICES ASSUME IInv, [Next]_vars PROVE IInv'
    OBVIOUS
  <1> USE UpdateBoundsAssumption
      DEF IInv, TypeOK, Steps, S9pks, Trees, Rollback, Versions, Entry, Tree,
          UpdateSteps, Downloaded, LoadSteps, Settled, Loading, trees, bounds
  <1>1. CASE BeginClears
    BY <1>1 DEF BeginClears, Goto
  <1>2. CASE BeginFails
    BY <1>2 DEF BeginFails, Goto, ResolveConflict
  <1>3. CASE UpdateMark
    BY <1>3 DEF UpdateMark, Goto
  <1>4. CASE UpdateDownload
    BY <1>4 DEF UpdateDownload, Goto
  <1>5. CASE SnapshotStage
    BY <1>5 DEF SnapshotStage, Goto
  <1>6. CASE SnapshotRename
    BY <1>6 DEF SnapshotRename, Goto, Uninitialise
  <1>7. CASE SnapshotFails
    BY <1>7 DEF SnapshotFails, Uninitialise
  <1>8. CASE UpdateUninit
    BY <1>8 DEF UpdateUninit, Goto
  <1>9. CASE UpdateInit
    BY <1>9 DEF UpdateInit, Goto
  <1>10. CASE UpdateCommit
    BY <1>10 DEF UpdateCommit, Goto, Installed
  <1>11. CASE UpdateCleanup
    BY <1>11 DEF UpdateCleanup, Goto
  <1>12. CASE UpdateFails
    BY <1>12 DEF UpdateFails, Cancellable
  <1>13. CASE RemoveBackup
    BY <1>13 DEF RemoveBackup, Goto
  <1>14. CASE RemoveFails
    BY <1>14 DEF RemoveFails, Goto
  <1>15. CASE Resolve
    BY <1>15 DEF Resolve, Resolving, ResolveStep
  <1>16. CASE RestoreNothing
    BY <1>16 DEF RestoreNothing, Goto
  <1>17. CASE RestoreAside
    BY <1>17 DEF RestoreAside, Goto
  <1>18. CASE RestoreLand
    BY <1>18 DEF RestoreLand, Goto
  <1>19. CASE RestoreDrop
    BY <1>19 DEF RestoreDrop, Goto
  <1>20. CASE LoadInstalled
    BY <1>20 DEF LoadInstalled, Goto
  <1>21. CASE LoadResumes
    BY <1>21 DEF LoadResumes, Goto
  <1>22. CASE ResumeCommit
    BY <1>22 DEF ResumeCommit, Goto, Installed
  <1>23. CASE ResumeFails
    BY <1>23 DEF ResumeFails, Goto, ResolveConflict
  <1>24. CASE LoadUndoes
    BY <1>24 DEF LoadUndoes, Goto, Installed
  <1>25. CASE LoadStarts
    BY <1>25 DEF LoadStarts, CodeOf
  <1>26. CASE LoadFails
    BY <1>26 DEF LoadFails, ResolveConflict
  <1>27. CASE Boot
    BY <1>27 DEF Boot, Goto
  <1>28. CASE Sweep
    BY <1>28 DEF Sweep, Goto, ResolveConflict
  <1>29. CASE UpdateRequest
    <2>1. TypeOK'
      <3>1. updates' \in 0..MaxUpdates
        BY <1>29 DEF UpdateRequest
      <3> QED
        BY <1>29, <3>1 DEF UpdateRequest
    <2>2. Steps'
      BY <1>29 DEF UpdateRequest
    <2>3. S9pks' /\ Trees'
      BY <1>29 DEF UpdateRequest
    <2>4. Rollback'
      BY <1>29 DEF UpdateRequest
    <2>5. Versions'
      BY <1>29 DEF UpdateRequest, CodeOf
    <2> QED
      BY <2>1, <2>2, <2>3, <2>4, <2>5
  <1>30. CASE Rebuild
    <2>1. TypeOK'
      <3>1. rebuilds' \in 0..MaxUpdates
        BY <1>30 DEF Rebuild
      <3> QED
        BY <1>30, <3>1 DEF Rebuild
    <2>2. Steps' /\ S9pks' /\ Trees'
      BY <1>30 DEF Rebuild
    <2>3. Rollback'
      BY <1>30 DEF Rebuild
    <2>4. Versions'
      BY <1>30 DEF Rebuild
    <2> QED
      BY <2>1, <2>2, <2>3, <2>4
  <1>31. CASE Crash
    BY <1>31 DEF Crash
  <1>32. CASE UNCHANGED vars
    BY <1>32 DEF vars
  <1>33. CASE ResumeInit
    BY <1>33 DEF ResumeInit, Goto
  <1> QED
    BY <1>1, <1>2, <1>3, <1>4, <1>5, <1>6, <1>7, <1>8, <1>9, <1>10, <1>11,
       <1>12, <1>13, <1>14, <1>15, <1>16, <1>17, <1>18, <1>19, <1>20, <1>21,
       <1>22, <1>23, <1>24, <1>25, <1>26, <1>27, <1>28, <1>29, <1>30, <1>31,
       <1>32, <1>33
    DEF Next, Step

\* The invariant is preserved by every step, and holds for ever.
LEMMA IInvAlways == Spec => []IInv
  BY IInvInit, IInvStep, PTL DEF Spec

\* Every variable keeps the type that the code gives it, and the volumes are
\* never left without any tree.
THEOREM UpdateTypeCorrect == Spec => []TypeOK
  <1>1. IInv => TypeOK
    BY DEF IInv
  <1> QED
    BY <1>1, IInvAlways, PTL

\* At every step of an update, a rollback and the recovery from a crash, the
\* old version's data is in the live root or in the rollback point, as long as
\* the package is the old version and the rollback is guaranteed.
THEOREM RollbackPossible == Spec => []OldDataKept
  <1>1. IInv => OldDataKept
    BY DEF IInv, Rollback, OldDataKept
  <1> QED
    BY <1>1, IInvAlways, PTL

\* Whatever fails and wherever a crash comes, no service is started on an
\* empty root.
THEOREM Loadable == Spec => []NeverOnEmptyRoot
  <1>1. ASSUME IInv, running # "none" PROVE live \in {"old", "new"}
    <2>1. aside = "none"
      BY <1>1 DEF IInv, Trees
    <2> QED
      BY <1>1, <2>1 DEF IInv, Trees, TypeOK, Tree
  <1>2. IInv => NeverOnEmptyRoot
    BY <1>1 DEF IInv, NeverOnEmptyRoot
  <1> QED
    BY <1>2, IInvAlways, PTL

\* The s9pk that the package's entry names is on disk, so that Service::load
\* finds it after a crash anywhere in an update.
THEOREM S9pkIsThere == Spec => []EntryHasS9pk
  <1>1. IInv => EntryHasS9pk
    BY DEF IInv, S9pks, EntryHasS9pk
  <1> QED
    BY <1>1, IInvAlways, PTL

\* Between updates the entry, the s9pk, the running service and the data are
\* of one version, as long as the rollback is guaranteed.
THEOREM OneVersion == Spec => []Consistent
  <1>1. IInv => Consistent
    BY DEF IInv, TypeOK, Entry, Steps, Settled, Rollback, Versions, Consistent,
           CodeOf
  <1> QED
    BY <1>1, IInvAlways, PTL
==============================================================================
