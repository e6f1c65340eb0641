----------------------------- MODULE PatchDbStore -----------------------------
(***************************************************************************)
(* The patch-db store: a JSON document in memory, an append-only log of    *)
(* patches on disk, and a compaction that rewrites the log as one snapshot *)
(* (shared-libs/crates/patch-db/core/src/store.rs).                        *)
(*                                                                         *)
(* A document is the sequence of the patches applied to it, so that        *)
(* applying a patch is Append and the revision should be its length.       *)
(* The store's write lock serialises writers, so there is one apply in     *)
(* flight at a time; every `.await` in it is a step, at which the file     *)
(* operation may fail, the caller may drop the future, the process may     *)
(* be killed, or the power may fail.                                       *)
(*                                                                         *)
(* Files.  `disk` is what the running system sees.  `images` is the set of *)
(* disks a power loss may leave: an operation that is not synced adds the  *)
(* disk it makes (and its torn variant), an fsync leaves only the current  *)
(* one.  As on a journalling file system, renames, truncations and         *)
(* removals reach the medium in the order they were made, no later than    *)
(* the next fsync.                                                         *)
(***************************************************************************)
EXTENDS Integers, Sequences

CONSTANTS
    Patch,          \* the patches callers submit
    CompactEvery,   \* compaction interval in revisions (4096 in the code)
    MaxRevision,    \* bound: no apply starts at this revision
    Faults          \* the places where a file operation may fail

FaultPlace == {"append", "precommit", "rewrite", "remove"}

ASSUME PatchAssumption == Patch # {}
ASSUME CompactAssumption == CompactEvery \in Nat \ {0}
ASSUME BoundAssumption == MaxRevision \in Nat
ASSUME FaultsAssumption == Faults \subseteq FaultPlace

VARIABLES
    persistent,     \* Store.persistent
    revision,       \* Store.revision
    undo,           \* TentativeUpdated.undo: the document to go back to
    cursor,         \* FileStorage.file_cursor
    disk,           \* the main file and the .bak file
    images,         \* the disks a power loss may leave
    pc,             \* the await the open or apply in progress is at
    opening,        \* the compaction in progress belongs to Store::open
    acked,          \* ghost: the document last returned as applied or opened
    tried           \* ghost: patches submitted since then

mem == <<persistent, revision, undo, cursor>>
ghost == <<acked, tried>>
vars == <<persistent, revision, undo, cursor, disk, images, pc, opening,
          acked, tried>>

(***************************************************************************)
(* Files.                                                                  *)
(*                                                                         *)
(* The main file is a snapshot (a revision and a document) and the patches *)
(* logged after it.  head tells what the snapshot reads as: "empty" for a  *)
(* file of length 0, which reads as revision 0 and null, "good", or "bad"  *)
(* for one that does not parse.  torn: bytes of an unfinished record       *)
(* follow the last whole one.                                              *)
(***************************************************************************)
Document == Seq(Patch)

MainFile == [head : {"empty", "good", "bad"}, rev : Nat, doc : Document,
             tail : Document, torn : BOOLEAN]
BakFile == [here : BOOLEAN, rev : Nat, doc : Document]
Disk == [main : MainFile, bak : BakFile]
Cursor == [snap : Nat, recs : Nat]

EmptyMain == [head |-> "empty", rev |-> 0, doc |-> <<>>, tail |-> <<>>,
              torn |-> FALSE]
TornMain == [head |-> "bad", rev |-> 0, doc |-> <<>>, tail |-> <<>>,
             torn |-> FALSE]
SnapshotMain(r, d) == [head |-> "good", rev |-> r, doc |-> d, tail |-> <<>>,
                       torn |-> FALSE]
NoBak == [here |-> FALSE, rev |-> 0, doc |-> <<>>]

\* Store::open's first act: a .bak file is renamed over the main file.
WithBakRenamed(d) ==
    IF d.bak.here
    THEN [main |-> SnapshotMain(d.bak.rev, d.bak.doc), bak |-> NoBak]
    ELSE d

\* The replay of the main file in Store::open: a snapshot that parses, then
\* every whole patch after it; a torn record at the end is where it stops.
Readable(m) == m.head # "bad"
Replayed(m) == m.doc \o m.tail
ReplayedRevision(m) == m.rev + Len(m.tail)

\* The document a store opened on disk d would hold.
Recovered(d) == Replayed(WithBakRenamed(d).main)

\* The position of the main file's end, as the cursor counts: in records
\* after a snapshot.  A file without a whole snapshot is at no such position.
AtCursor(m, c) ==
    m.head = "good" /\ ~m.torn /\ c = [snap |-> m.rev, recs |-> Len(m.tail)]

\* set_len(file_cursor): cuts what follows the cursor, or, on a file that is
\* not the one the cursor was taken on, leaves zeros or half a record: bytes
\* that never parse again, whatever is appended to them.
CutAtCursor(m, c) ==
    IF m.head = "good" /\ c.snap = m.rev /\ c.recs <= Len(m.tail)
    THEN [m EXCEPT !.tail = SubSeq(m.tail, 1, c.recs), !.torn = FALSE]
    ELSE TornMain

(***************************************************************************)
(* The specification.                                                      *)
(***************************************************************************)
Init ==
    /\ persistent = <<>>
    /\ revision = 0
    /\ undo = <<>>
    /\ cursor = [snap |-> 0, recs |-> 0]
    /\ disk = [main |-> EmptyMain, bak |-> NoBak]
    /\ images = {disk}
    /\ pc = "closed"
    /\ opening = FALSE
    /\ acked = <<>>
    /\ tried = {}

\* An unsynced file operation: the new disk, and the torn variants it may
\* leave, join the disks a power loss may bring back.
Unsynced(d, torn) ==
    /\ disk' = d
    /\ images' = images \cup {d} \cup torn

\* fsync: only this disk is left after a power loss.
Synced(d) ==
    /\ disk' = d
    /\ images' = {d}

\* apply returns Ok, after broadcasting the revision; or open returns Ok.
Return ==
    /\ pc' = "idle"
    /\ opening' = FALSE
    /\ acked' = persistent
    /\ tried' = {}

\* Mutant of RollBack: the revision is not restored.
RollBackKeepsRevision ==
    /\ persistent' = undo
    /\ UNCHANGED <<revision, undo, cursor>>

\* TentativeUpdated::drop: an armed undo restores document and revision.
RollBack ==
    /\ persistent' = undo
    /\ revision' = revision - 1
    /\ UNCHANGED <<undo, cursor>>

(***************************************************************************)
(* Store::open: lock, rename a leftover .bak over the main file, replay    *)
(* it, take the cursor, and go on to compress.                             *)
(***************************************************************************)
OpenReplay ==
    LET d == WithBakRenamed(disk)
    IN  /\ pc = "closed"
        /\ Readable(d.main)
        /\ persistent' = Replayed(d.main)
        /\ revision' = ReplayedRevision(d.main)
        /\ cursor' = [snap |-> d.main.rev, recs |-> Len(d.main.tail)]
        /\ Unsynced(d, {})
        /\ pc' = "tmp"
        /\ opening' = TRUE
        /\ UNCHANGED <<undo, ghost>>

(***************************************************************************)
(* Store::apply.                                                           *)
(***************************************************************************)
\* Mutant of Apply: the undo is not taken afresh for this patch.
ApplyStaleUndo(p) ==
    /\ pc = "idle"
    /\ revision < MaxRevision
    /\ persistent' = Append(persistent, p)
    /\ revision' = revision + 1
    /\ pc' = IF revision' % CompactEvery = 0 THEN "tmp" ELSE "seek"
    /\ tried' = tried \cup {p}
    /\ UNCHANGED <<undo, cursor, disk, images, opening, acked>>

\* The write lock is held, memory is updated tentatively, and the revision
\* decides between a compaction and an append.  (An empty patch returns at
\* once and changes nothing.)
Apply(p) ==
    /\ pc = "idle"
    /\ revision < MaxRevision
    /\ undo' = persistent
    /\ persistent' = Append(persistent, p)
    /\ revision' = revision + 1
    /\ pc' = IF revision' % CompactEvery = 0 THEN "tmp" ELSE "seek"
    /\ tried' = tried \cup {p}
    /\ UNCHANGED <<cursor, disk, images, opening, acked>>

\* Mutant of AppendSeek: the file is taken to end at the cursor.
AppendSeekSkipped ==
    /\ pc = "seek"
    /\ pc' = "write"
    /\ UNCHANGED <<mem, disk, images, opening, ghost>>

\* A file whose position is not the cursor, because an earlier append failed
\* or was dropped half way, is cut back to it.
AppendSeek ==
    /\ pc = "seek"
    /\ Unsynced(IF AtCursor(disk.main, cursor)
                THEN disk
                ELSE [disk EXCEPT !.main = CutAtCursor(@, cursor)], {})
    /\ pc' = "write"
    /\ UNCHANGED <<mem, opening, ghost>>

\* The record of the patch in flight, completed if it is still torn.
WithRecord(m) ==
    IF m.torn
    THEN [m EXCEPT !.tail = Append(@, persistent[Len(persistent)]), !.torn = FALSE]
    ELSE m

\* write_all of the record, complete or not yet when the step is observed.
AppendWrite(complete) ==
    LET torn == [disk EXCEPT !.main.torn = TRUE]
        done == [disk EXCEPT !.main = WithRecord(torn.main)]
    IN  /\ pc = "write"
        /\ Unsynced(IF complete THEN done ELSE torn, {torn, done})
        /\ pc' = "sync"
        /\ UNCHANGED <<mem, opening, ghost>>

\* Mutant of AppendSync: the caller is told before the record is synced.
AppendSyncSkipped ==
    /\ pc = "sync"
    /\ Unsynced([disk EXCEPT !.main = WithRecord(@)], {})
    /\ cursor' = [cursor EXCEPT !.recs = @ + 1]
    /\ Return
    /\ UNCHANGED <<persistent, revision, undo>>

\* The write completed, flush and fsync returned: the cursor moves past the
\* record, the undo is disarmed, the revision is broadcast and returned.
AppendSync ==
    /\ pc = "sync"
    /\ Synced([disk EXCEPT !.main = WithRecord(@)])
    /\ cursor' = [cursor EXCEPT !.recs = @ + 1]
    /\ Return
    /\ UNCHANGED <<persistent, revision, undo>>

(***************************************************************************)
(* Store::compress.                                                        *)
(***************************************************************************)
\* Mutant of CompressCommit: the main file is rewritten with no backup.
CompressCommitSkipped ==
    /\ pc = "tmp"
    /\ pc' = "truncate"
    /\ UNCHANGED <<mem, disk, images, opening, ghost>>

\* The snapshot is written to .bak.tmp, synced, and renamed to .bak.
CompressCommit ==
    /\ pc = "tmp"
    /\ Unsynced([disk EXCEPT !.bak = [here |-> TRUE, rev |-> revision,
                                      doc |-> persistent]], {})
    /\ pc' = "truncate"
    /\ UNCHANGED <<mem, opening, ghost>>

\* set_len(0) on the main file.
CompressTruncate ==
    /\ pc = "truncate"
    /\ Unsynced([disk EXCEPT !.main = EmptyMain], {})
    /\ pc' = "rewrite"
    /\ UNCHANGED <<mem, opening, ghost>>

\* The snapshot is written to the main file.
CompressRewrite(complete) ==
    LET torn == [disk EXCEPT !.main = TornMain]
        done == [disk EXCEPT !.main = SnapshotMain(revision, persistent)]
    IN  /\ pc = "rewrite"
        /\ Unsynced(IF complete THEN done ELSE torn, {torn, done})
        /\ pc' = "flush"
        /\ UNCHANGED <<mem, opening, ghost>>

\* flush and fsync of the main file; the cursor is its end.
CompressFlush ==
    /\ pc = "flush"
    /\ Synced([disk EXCEPT !.main = SnapshotMain(revision, persistent)])
    /\ cursor' = [snap |-> revision, recs |-> 0]
    /\ pc' = "remove"
    /\ UNCHANGED <<persistent, revision, undo, opening, ghost>>

\* The .bak file is removed, and the apply or the open returns.
CompressRemove ==
    /\ pc = "remove"
    /\ Unsynced([disk EXCEPT !.bak = NoBak], {})
    /\ Return
    /\ UNCHANGED mem

\* The removal fails, and the failure is ignored.
CompressRemoveFails ==
    /\ "remove" \in Faults
    /\ pc = "remove"
    /\ Return
    /\ UNCHANGED <<mem, disk, images>>

(***************************************************************************)
(* Errors, dropped futures, and the end of the process.                    *)
(***************************************************************************)
\* Mutant of FailBeforeCommit: the error returns with the undo disarmed.
FailBeforeCommitKeeps ==
    /\ \/ pc = "tmp" /\ "precommit" \in Faults
       \/ pc \in {"seek", "write", "sync"} /\ "append" \in Faults
    /\ pc' = IF opening THEN "closed" ELSE "idle"
    /\ opening' = FALSE
    /\ UNCHANGED <<mem, disk, images, ghost>>

\* An error before the commit of a compaction, or in an append: apply rolls
\* memory back and returns the error; open returns it and drops the store.
FailBeforeCommit ==
    /\ \/ pc = "tmp" /\ "precommit" \in Faults
       \/ pc \in {"seek", "write", "sync"} /\ "append" \in Faults
    /\ IF opening
       THEN pc' = "closed" /\ UNCHANGED mem
       ELSE pc' = "idle" /\ RollBack
    /\ opening' = FALSE
    /\ UNCHANGED <<disk, images, ghost>>

\* An error after the commit: apply keeps the new document and revision, and
\* returns the error without broadcasting.
FailAfterCommit ==
    /\ "rewrite" \in Faults
    /\ pc \in {"truncate", "rewrite", "flush"}
    /\ pc' = IF opening THEN "closed" ELSE "idle"
    /\ opening' = FALSE
    /\ UNCHANGED <<mem, disk, images, ghost>>

\* The future of an apply is dropped at an await.  The undo is still armed,
\* after a commit too: `committed` is only read when compress returns.  The
\* removal of the .bak file may have happened unseen.
Cancel ==
    /\ pc \notin {"closed", "idle"}
    /\ ~opening
    /\ RollBack
    /\ pc' = "idle"
    /\ \/ UNCHANGED <<disk, images>>
       \/ pc = "remove" /\ Unsynced([disk EXCEPT !.bak = NoBak], {})
    /\ UNCHANGED <<opening, ghost>>

\* The store is closed, or its process is killed; an open that is dropped
\* ends the same way.  Written data stays with the system.
Stop ==
    /\ pc # "closed"
    /\ pc' = "closed"
    /\ opening' = FALSE
    /\ UNCHANGED <<mem, disk, images, ghost>>

\* The power fails: the system comes back with one of the possible disks.
PowerLoss ==
    /\ \E d \in images : Synced(d)
    /\ pc' = "closed"
    /\ opening' = FALSE
    /\ UNCHANGED <<mem, ghost>>

Next ==
    \/ OpenReplay
    \/ \E p \in Patch : Apply(p)
    \/ AppendSeek
    \/ \E complete \in BOOLEAN : AppendWrite(complete)
    \/ AppendSync
    \/ CompressCommit
    \/ CompressTruncate
    \/ \E complete \in BOOLEAN : CompressRewrite(complete)
    \/ CompressFlush
    \/ CompressRemove
    \/ CompressRemoveFails
    \/ FailBeforeCommit
    \/ FailAfterCommit
    \/ Cancel
    \/ Stop
    \/ PowerLoss

Spec == Init /\ [][Next]_vars

(***************************************************************************)
(* Properties.                                                             *)
(***************************************************************************)
\* The type invariant.
TypeOK ==
    /\ persistent \in Document
    /\ revision \in Nat
    /\ undo \in Document
    /\ cursor \in Cursor
    /\ disk \in Disk
    /\ images \subseteq Disk
    /\ pc \in {"closed", "idle", "seek", "write", "sync", "tmp", "truncate",
               "rewrite", "flush", "remove"}
    /\ opening \in BOOLEAN
    /\ acked \in Document
    /\ tried \subseteq Patch

\* The documents a stop may leave: the acknowledged one, or that and one
\* patch whose caller was not told it was applied.
Outcome == {acked} \cup {Append(acked, p) : p \in tried}

\* Durability.  Whatever disk a crash leaves, at any await of apply, compress
\* and open, and after any failed or dropped apply, it holds every
\* acknowledged patch in order, and at most one more.
CrashSafe == \A d \in images : Recovered(d) \in Outcome

\* Whatever disk a crash leaves, Store::open can read it: while the main file
\* is empty or half rewritten, a whole .bak file stands beside it.
AlwaysOpens == \A d \in images : Readable(WithBakRenamed(d).main)

\* A crash never skips a revision number or uses one twice: the revision a
\* reopened store resumes from counts the patches in its document.
RevisionSurvives ==
    \A d \in images :
        ReplayedRevision(WithBakRenamed(d).main) = Len(Recovered(d))

\* Readers, who take the lock when no apply holds it, see the acknowledged
\* document: an apply that failed or was dropped has left no trace in memory.
ReadsAcknowledged == pc = "idle" => persistent = acked

\* Whatever fails, an open store never loses an acknowledged patch.
KeepsAcknowledged ==
    pc = "idle" =>
        /\ Len(acked) <= Len(persistent)
        /\ acked = SubSeq(persistent, 1, Len(acked))

\* A leftover .bak file never shadows a log that the next apply appends to:
\* when one is left with the store open, the next apply is a compaction.
NoStaleBak ==
    pc = "idle" /\ disk.bak.here => (revision + 1) % CompactEvery = 0

\* The store implements the durable log.
Log == INSTANCE DurableLog
           WITH log <- acked, up <- (pc # "closed" /\ ~opening)

LogSpec == Log!Spec

\* README.md:13, "crash-safe backup files", and AUDIT.md:93 of a backup whose
\* removal failed, "harmlessly replayed on restart since it matches the main
\* file content": every disk a crash leaves holds what was acknowledged.
AcknowledgedSurvives ==
    \A d \in images :
        /\ Len(acked) <= Len(Recovered(d))
        /\ acked = SubSeq(Recovered(d), 1, Len(acked))
===============================================================================
