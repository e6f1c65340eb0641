---------------------------- MODULE PackageUpdate ----------------------------
(***************************************************************************)
(* Updating an installed package from its old version to a new one, with   *)
(* the rollback that undoes an update that fails or is interrupted         *)
(* (shared-libs/crates/start-core/src/service/service_map.rs, service/     *)
(* mod.rs and volume.rs).                                                  *)
(*                                                                         *)
(* Three things must stay consistent with one another and can only be      *)
(* changed one at a time: the package's entry in the database, its s9pk    *)
(* files, and the trees of its volumes.  The machine may stop between any  *)
(* two changes.  Renames, subvolume snapshots and deletions and database   *)
(* commits are each atomic and durable.                                    *)
(*                                                                         *)
(* A tree is abstracted to whose data it holds: "old" is the data as the   *)
(* old version left it, "new" what the new version's code has touched,     *)
(* "skel" the empty root that the load path creates where there is none.   *)
(***************************************************************************)
EXTENDS Naturals

CONSTANTS
    Faults,         \* the operations that may fail
    MaxCrashes,     \* bound on crashes and power losses
    MaxUpdates      \* bound on update requests, and on rebuild requests

ASSUME UpdateFaultsAssumption ==
    Faults \subseteq {"download", "snapshot", "uninit", "init", "rename",
                      "cancel"}
ASSUME UpdateBoundsAssumption == MaxCrashes \in Nat /\ MaxUpdates \in Nat

VARIABLES
    entry,      \* the database entry: state, manifest, s9pk
    files,      \* the s9pk files there are
    live,       \* the volume root the service mounts
    bak,        \* .install-backup: the rollback point
    tmp,        \* .install-backup-tmp: the snapshot being made
    aside,      \* .restore-old: the root a restore moved away
    running,    \* the version whose service is loaded, or "none"
    pc,         \* the step the update, load or boot in progress is at
    undo,       \* LoadDisposition::Undo; FALSE is Retry
    prev,       \* whether the update found a service to take the place of
    crashes, updates, rebuilds,     \* ghost: bounds
    excused     \* ghost: the ways taken in which rollback is not guaranteed

trees == <<live, bak, tmp, aside>>
bounds == <<crashes, updates, rebuilds>>
vars == <<entry, files, live, bak, tmp, aside, running, pc, undo, prev,
          crashes, updates, rebuilds, excused>>

Tree == {"none", "skel", "old", "new"}
Entry == [state : {"Installed", "Updating"}, manifest : {"v1", "v2"},
          s9pk : {"s9pk1", "s9pk2"}]
Installed(v, path) == [state |-> "Installed", manifest |-> v, s9pk |-> path]

\* The version of the code in an s9pk file.
CodeOf(path) == IF path = "s9pk1" THEN "v1" ELSE "v2"

Init ==
    /\ entry = Installed("v1", "s9pk1")
    /\ files = {"s9pk1"}
    /\ live = "old" /\ bak = "none" /\ tmp = "none" /\ aside = "none"
    /\ running = "v1"
    /\ pc = "idle"
    /\ undo = FALSE /\ prev = FALSE
    /\ crashes = 0 /\ updates = 0 /\ rebuilds = 0
    /\ excused = {}

(***************************************************************************)
(* The update: ServiceMap::install for a package that is installed.        *)
(***************************************************************************)
Goto(from, to) == pc = from /\ pc' = to

\* The package may be one whose service failed to load.
UpdateRequest ==
    /\ pc \in {"idle", "failed"} /\ pc' = "begin"
    /\ CodeOf(entry.s9pk) = "v1"
    /\ prev' = (running # "none")
    /\ updates < MaxUpdates /\ updates' = updates + 1
    /\ UNCHANGED <<entry, files, trees, running, undo, crashes, rebuilds,
                   excused>>

\* InstallBackup::begin, after resolving a pending restore (Resolve): the
\* previous rollback point goes.
BeginClears ==
    /\ Goto("begin", "marking")
    /\ aside = "none"
    /\ bak' = "none"
    /\ UNCHANGED <<entry, files, live, tmp, aside, running, undo, prev, bounds,
                   excused>>

\* "cannot pick a winner": both the backup and the live root hold files.
ResolveConflict == aside # "none" /\ bak # "none" /\ live \in {"old", "new"}

\* The request is refused, before the previous rollback point went or after.
BeginFails ==
    /\ Goto("begin", IF prev THEN "idle" ELSE "failed")
    /\ "rename" \in Faults \/ ResolveConflict
    /\ bak' = bak \/ (aside = "none" /\ bak' = "none")
    /\ UNCHANGED <<entry, files, live, tmp, aside, running, undo, prev, bounds,
                   excused>>

UpdateMark ==
    /\ Goto("marking", "downloading")
    /\ entry' = [entry EXCEPT !.state = "Updating"]
    /\ UNCHANGED <<files, trees, running, undo, prev, bounds,
                   excused>>

\* Written to a temporary name, synced and renamed to its own.
UpdateDownload ==
    /\ Goto("downloading", "snapshot")
    /\ files' = files \cup {"s9pk2"}
    /\ UNCHANGED <<entry, trees, running, undo, prev, bounds,
                   excused>>

\* InstallBackup::snapshot, after quiesce (see ServiceActor).
SnapshotStage ==
    /\ Goto("snapshot", "snapshot-rename")
    /\ tmp' = live
    /\ UNCHANGED <<entry, files, live, bak, aside, running, undo, prev, bounds,
                   excused>>

\* The old version is uninitialised if it is loaded.
Uninitialise == IF prev THEN "uninit" ELSE "init"

SnapshotRename ==
    /\ Goto("snapshot-rename", Uninitialise)
    /\ bak' = tmp /\ tmp' = "none"
    /\ UNCHANGED <<entry, files, live, aside, running, undo, prev, bounds,
                   excused>>

\* Without a snapshot the update goes on and cannot be rolled back.
SnapshotFails ==
    /\ "snapshot" \in Faults
    /\ pc \in {"snapshot", "snapshot-rename"} /\ pc' = Uninitialise
    /\ tmp' = "none"
    /\ excused' = excused \cup {"no-snapshot"}
    /\ UNCHANGED <<entry, files, live, bak, aside, running, undo, prev,
                   bounds>>

\* ServiceRef::uninstall of the old version, whose uninit may migrate the data.
UpdateUninit ==
    /\ Goto("uninit", "init")
    /\ running' = "none"
    /\ live' \in {live, "new"}
    /\ UNCHANGED <<entry, files, bak, tmp, aside, undo, prev, bounds,
                   excused>>

\* Mutant: the rollback point goes before the commit.
UpdateInitDropsBackup ==
    /\ Goto("init", "commit")
    /\ running' = "v2"
    /\ live' = "new"
    /\ bak' = "none"
    /\ UNCHANGED <<entry, files, tmp, aside, undo, prev, bounds,
                   excused>>

\* Service::install up to its commit: the new version initialises the data.
UpdateInit ==
    /\ Goto("init", "commit")
    /\ running' = "v2"
    /\ live' = "new"
    /\ UNCHANGED <<entry, files, bak, tmp, aside, undo, prev, bounds,
                   excused>>

UpdateCommit ==
    /\ Goto("commit", "cleanup")
    /\ entry' = Installed("v2", "s9pk2")
    /\ UNCHANGED <<files, trees, running, undo, prev, bounds,
                   excused>>

\* The old s9pk goes only now, with the service that was loaded from it.
UpdateCleanup ==
    /\ Goto("cleanup", "remove")
    /\ files' = IF prev THEN files \ {"s9pk1"} ELSE files
    /\ UNCHANGED <<entry, trees, running, undo, prev, bounds,
                   excused>>

\* InstallBackup::remove, at the end of an update, a resumed one or a rollback.
RemoveBackup ==
    /\ Goto("remove", "idle")
    /\ aside = "none"
    /\ bak' = "none"
    /\ UNCHANGED <<entry, files, live, tmp, aside, running, undo, prev, bounds,
                   excused>>

\* Its errors are logged and the backup stays.
RemoveFails ==
    /\ Goto("remove", "idle")
    /\ "rename" \in Faults
    /\ UNCHANGED <<entry, files, trees, running, undo, prev, bounds,
                   excused>>

Cancellable == {"marking", "downloading", "snapshot", "snapshot-rename",
                "uninit", "init", "commit", "cleanup"}

\* A step of the update fails, or the user cancels it: the reload guard loads
\* the package again, undoing the update.
UpdateFails ==
    /\ \/ pc = "downloading" /\ "download" \in Faults
       \/ pc = "uninit" /\ "uninit" \in Faults
       \/ pc \in {"init", "commit"} /\ "init" \in Faults
       \/ pc \in Cancellable /\ "cancel" \in Faults
    /\ pc' = "load"
    /\ undo' = TRUE
    /\ running' = "none"
    /\ live' \in IF pc \in {"uninit", "init"} THEN {live, "new"} ELSE {live}
    /\ UNCHANGED <<entry, files, bak, tmp, aside, prev, bounds,
                   excused>>

(***************************************************************************)
(* InstallBackup::resolve_pending and ::restore.                           *)
(***************************************************************************)

\* One file operation of resolve_pending, which finishes a restore that left
\* its root aside.  Each is chosen by what the earlier ones left, so that the
\* sequence can be taken up again after a crash.
ResolveStep ==
    /\ aside # "none"
    /\ \/ /\ bak # "none" /\ live = "skel"
          /\ live' = "none"
          /\ UNCHANGED <<bak, aside>>
       \/ /\ bak # "none" /\ live = "none"
          /\ live' = bak /\ bak' = "none"
          /\ UNCHANGED aside
       \/ /\ bak = "none" /\ live = "none"
          /\ live' = aside /\ aside' = "none"
          /\ UNCHANGED bak
       \/ /\ bak = "none" /\ live # "none"
          /\ aside' = "none"
          /\ UNCHANGED <<live, bak>>
    /\ UNCHANGED tmp

Resolving == pc \in {"begin", "sweep", "ensure", "resume", "remove"}

Resolve ==
    /\ Resolving
    /\ ResolveStep
    /\ UNCHANGED <<entry, files, running, pc, undo, prev, bounds,
                   excused>>

\* restore, once the entry says Installed again.  Without a rollback point it
\* does nothing, and reports success.
RestoreNothing ==
    /\ Goto("restore", "ensure")
    /\ bak = "none"
    /\ UNCHANGED <<entry, files, trees, running, undo, prev, bounds,
                   excused>>

\* Mutant: the live root is deleted rather than kept until the backup lands.
RestoreAsideDeletes ==
    /\ Goto("restore", "restore-land")
    /\ bak # "none"
    /\ live' = "none"
    /\ aside' = "none"
    /\ UNCHANGED <<entry, files, bak, tmp, running, undo, prev, bounds,
                   excused>>

RestoreAside ==
    /\ Goto("restore", "restore-land")
    /\ bak # "none"
    /\ aside' = live
    /\ live' = "none"
    /\ UNCHANGED <<entry, files, bak, tmp, running, undo, prev, bounds,
                   excused>>

RestoreLand ==
    /\ Goto("restore-land", "restore-drop")
    /\ live' = bak
    /\ bak' = "none"
    /\ UNCHANGED <<entry, files, tmp, aside, running, undo, prev, bounds,
                   excused>>

\* Failing to drop the root set aside is not a failed restore.
RestoreDrop ==
    /\ Goto("restore-drop", "ensure")
    /\ \/ aside' = "none"
       \/ "rename" \in Faults /\ UNCHANGED aside
    /\ UNCHANGED <<entry, files, live, bak, tmp, running, undo, prev, bounds,
                   excused>>

(***************************************************************************)
(* Service::load, with what ServiceMap::load does around it.               *)
(***************************************************************************)
LoadInstalled ==
    /\ Goto("load", "ensure")
    /\ entry.state = "Installed" /\ entry.s9pk \in files
    /\ undo' = FALSE
    /\ UNCHANGED <<entry, files, trees, running, prev, bounds,
                   excused>>

\* An interrupted update is taken up again if its s9pk had arrived.  No
\* snapshot is taken here: there is a rollback point only if the interrupted
\* update had made it.
LoadResumes ==
    /\ Goto("load", "resume")
    /\ entry.state = "Updating" /\ ~undo /\ "s9pk2" \in files
    /\ excused' = IF bak = "none"
                  THEN excused \cup {"no-snapshot"} ELSE excused
    /\ UNCHANGED <<entry, files, trees, running, undo, prev, bounds>>

\* Service::install of the new version up to its commit, ...
ResumeInit ==
    /\ Goto("resume", "resume-commit")
    /\ aside = "none"
    /\ live' = "new"
    /\ running' = "v2"
    /\ UNCHANGED <<entry, files, bak, tmp, aside, undo, prev, bounds,
                   excused>>

\* ... and the commit; the path it records is the entry's.
ResumeCommit ==
    /\ Goto("resume-commit", "remove")
    /\ entry' = Installed("v2", entry.s9pk)
    /\ excused' = excused \cup {"resumed"}
    /\ UNCHANGED <<files, trees, running, undo, prev, bounds>>

\* Mutant: an update that fails when it is taken up again is tried once more.
ResumeFailsRetries ==
    /\ "init" \in Faults \/ ResolveConflict
    /\ pc \in {"resume", "resume-commit"} /\ pc' = "load"
    /\ running' = "none"
    /\ live' \in {live, "new"}
    /\ UNCHANGED <<entry, files, bak, tmp, aside, undo, prev, bounds,
                   excused>>

\* It fails again, and is undone.
ResumeFails ==
    /\ "init" \in Faults \/ ResolveConflict
    /\ pc \in {"resume", "resume-commit"} /\ pc' = "load"
    /\ running' = "none"
    /\ live' \in {live, "new"}
    /\ undo' = TRUE
    /\ UNCHANGED <<entry, files, bak, tmp, aside, prev, bounds,
                   excused>>

\* Mutant: the volumes are not rolled back.
LoadUndoesEntryOnly ==
    /\ Goto("load", "ensure")
    /\ entry.state = "Updating" /\ (undo \/ "s9pk2" \notin files)
    /\ entry.s9pk \in files
    /\ entry' = Installed(entry.manifest, entry.s9pk)
    /\ undo' = TRUE
    /\ UNCHANGED <<files, trees, running, prev, bounds,
                   excused>>

\* The update is given up: the entry first, then the volumes.
LoadUndoes ==
    /\ Goto("load", "restore")
    /\ entry.state = "Updating" /\ (undo \/ "s9pk2" \notin files)
    /\ entry.s9pk \in files
    /\ entry' = Installed(entry.manifest, entry.s9pk)
    /\ undo' = TRUE
    /\ UNCHANGED <<files, trees, running, prev, bounds,
                   excused>>

\* ensure_volume_root, with nothing pending: a root is made where there is
\* none.  Then Service::new of the entry's s9pk; a rollback then drops its
\* backup.
LoadStarts ==
    /\ pc = "ensure" /\ aside = "none"
    /\ live' = IF live = "none" THEN "skel" ELSE live
    /\ running' = CodeOf(entry.s9pk)
    /\ pc' = IF undo THEN "remove" ELSE "idle"
    /\ UNCHANGED <<entry, files, bak, tmp, aside, undo, prev, bounds,
                   excused>>

\* The load ends with an error and no service: the s9pk is not there, a rename
\* of the restore fails, or the pending restore cannot be resolved.
LoadFails ==
    /\ \/ pc = "load" /\ entry.s9pk \notin files
       \/ pc \in {"restore", "restore-land", "ensure"} /\ "rename" \in Faults
       \/ pc = "ensure" /\ ResolveConflict
    /\ pc' = "failed"
    /\ excused' = IF pc = "restore" /\ bak # "none"
                  THEN excused \cup {"unrestored"} ELSE excused
    /\ UNCHANGED <<entry, files, trees, running, undo, prev, bounds>>

(***************************************************************************)
(* Crashes, boots and rebuilds.                                            *)
(***************************************************************************)
Crash ==
    /\ pc # "off"
    /\ crashes < MaxCrashes /\ crashes' = crashes + 1
    /\ pc' = "off"
    /\ running' = "none"
    /\ excused' = IF pc = "restore" /\ bak # "none"
                  THEN excused \cup {"unrestored"} ELSE excused
    /\ UNCHANGED <<entry, files, trees, undo, prev, updates, rebuilds>>

\* recover_and_sweep: an unfinished snapshot goes, pending restores are
\* resolved (Resolve) or the error is logged, ...
Boot ==
    /\ Goto("off", "sweep")
    /\ tmp' = "none"
    /\ UNCHANGED <<entry, files, live, bak, aside, running, undo, prev, bounds,
                   excused>>

\* ... a backup beside an installed package without a root becomes the root,
\* or the error is logged, and ServiceMap::init loads the package.
Sweep ==
    /\ Goto("sweep", "load")
    /\ aside = "none" \/ ResolveConflict \/ "rename" \in Faults
    /\ \/ /\ entry.state = "Installed" /\ bak # "none" /\ live = "none"
          /\ live' = bak /\ bak' = "none"
       \/ /\ ~(entry.state = "Installed" /\ bak # "none" /\ live = "none")
             \/ "rename" \in Faults
          /\ UNCHANGED <<live, bak>>
    /\ undo' = FALSE
    /\ UNCHANGED <<entry, files, tmp, aside, running, prev, bounds,
                   excused>>

\* The user rebuilds a service: ServiceMap::load(Retry).
Rebuild ==
    /\ pc \in {"idle", "failed"} /\ pc' = "load"
    /\ rebuilds < MaxUpdates /\ rebuilds' = rebuilds + 1
    /\ running' = "none"
    /\ undo' = FALSE
    /\ UNCHANGED <<entry, files, trees, crashes, updates, excused, prev>>

Step ==
    \/ BeginClears \/ BeginFails \/ UpdateMark \/ UpdateDownload
    \/ SnapshotStage \/ SnapshotRename \/ SnapshotFails
    \/ UpdateUninit \/ UpdateInit \/ UpdateCommit \/ UpdateCleanup
    \/ UpdateFails \/ RemoveBackup \/ RemoveFails
    \/ Resolve \/ RestoreNothing \/ RestoreAside \/ RestoreLand \/ RestoreDrop
    \/ LoadInstalled \/ LoadResumes
    \/ ResumeInit \/ ResumeCommit \/ ResumeFails
    \/ LoadUndoes \/ LoadStarts \/ LoadFails
    \/ Boot \/ Sweep

Next == UpdateRequest \/ Rebuild \/ Crash \/ Step

\* Whatever is under way is polled to its end, and the machine boots again.
Spec == Init /\ [][Next]_vars /\ WF_vars(Step)

(***************************************************************************)
(* Properties.                                                             *)
(***************************************************************************)

\* Every variable has a value the code can give it, and the volumes are never
\* left without any tree.
TypeOK ==
    /\ entry \in Entry
    /\ files \subseteq {"s9pk1", "s9pk2"}
    /\ {live, bak, tmp, aside} \subseteq Tree
    /\ {live, bak, aside} # {"none"}
    /\ running \in {"none", "v1", "v2"}
    /\ undo \in BOOLEAN /\ prev \in BOOLEAN
    /\ crashes \in 0..MaxCrashes
    /\ updates \in 0..MaxUpdates
    /\ rebuilds \in 0..MaxUpdates
    /\ excused \subseteq {"no-snapshot", "resumed", "unrestored"}

\* As long as the package is the old version, the data as that version left
\* it is in the live root or in the rollback point: an update that crashes or
\* fails at any step, and a restore that crashes or fails at any step, can
\* still be undone.
OldDataKept ==
    (entry.manifest = "v1" /\ excused = {}) => "old" \in {live, bak}

\* A service is never started on the empty root that the load path creates
\* when it finds none: an interrupted restore is finished first.
NeverOnEmptyRoot == running # "none" => live \in {"old", "new"}

\* The s9pk that the entry names is there, so that the package can be loaded
\* after a crash at any point of the update.
EntryHasS9pk == entry.s9pk \in files

\* Once everything is quiet, the entry, the s9pk, the running service and the
\* data are all of one version.
Consistent ==
    (pc = "idle" /\ excused = {}) =>
        /\ entry.state = "Installed"
        /\ running = entry.manifest
        /\ CodeOf(entry.s9pk) = entry.manifest
        /\ live = IF entry.manifest = "v1" THEN "old" ELSE "new"

\* An update, a rollback and a recovery all come to an end, with a service
\* that is loaded or an error that is reported.
ComesToRest == pc # "idle" ~> pc \in {"idle", "failed"}

\* The claim of service/mod.rs:588: the old service must not start on
\* new-version data.
OldNeverOnNewData == running = "v1" => live # "new"
==============================================================================
