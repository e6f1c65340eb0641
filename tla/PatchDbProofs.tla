---------------------------- MODULE PatchDbProofs ----------------------------
(***************************************************************************)
(* Proofs about the store of patch-db and about its documents.             *)
(*                                                                         *)
(* PatchDbStore, for any patches, compaction interval and revision bound:  *)
(* TypeCorrect, AcknowledgedAreKept, Openness and RevisionIsKept hold      *)
(* whatever fails; the others when the only file operations that fail are  *)
(* those of an append and those that come before the commit of a           *)
(* compaction.                                                             *)
(*                                                                         *)
(* JsonPatch, for any documents, pointers and sharing: the patch diff      *)
(* computes leads to the document it was computed for, can be undone, and  *)
(* keeps its meaning when it is scoped to a pointer.                       *)
(***************************************************************************)
EXTENDS PatchDbStore, JsonPatch, WellFoundedInduction, FiniteSetTheorems,
        SequenceTheorems, TLAPS

NoFaultAfterCommit == "rewrite" \notin Faults /\ "remove" \notin Faults

(***************************************************************************)
(* The inductive invariant.                                                *)
(***************************************************************************)
AppendPc == {"seek", "write", "sync"}
CommittedPc == {"truncate", "rewrite", "flush", "remove"}

\* An apply in flight has a patch to log and a revision to go back to.
TypeInv ==
    /\ TypeOK
    /\ pc \in {"closed", "idle"} \cup AppendPc => ~opening
    /\ pc \notin {"closed", "idle"} /\ ~opening => revision > 0 /\ persistent # <<>>

\* A disk that opens to one of the allowed outcomes, with a true revision.
GoodImage(d) ==
    /\ Readable(WithBakRenamed(d).main)
    /\ Recovered(d) \in Outcome
    /\ ReplayedRevision(WithBakRenamed(d).main) = Len(Recovered(d))

ImagesInv ==
    /\ disk \in images
    /\ \A d \in images : GoodImage(d)

\* What memory holds at each point of an open or an apply.
MemoryInv ==
    /\ pc # "closed" => revision = Len(persistent)
    /\ pc = "idle" => persistent = acked
    /\ opening => persistent \in Outcome
    /\ pc \notin {"closed", "idle"} /\ ~opening =>
         /\ undo = acked
         /\ \E p \in tried : persistent = Append(acked, p)

\* The log up to the cursor is the acknowledged document, and no .bak file
\* shadows it.
LogAtCursor ==
    /\ ~disk.bak.here
    /\ disk.main.head = "good"
    /\ cursor.snap = disk.main.rev
    /\ cursor.recs <= Len(disk.main.tail)
    /\ disk.main.rev + cursor.recs = Len(acked)
    /\ disk.main.doc \o SubSeq(disk.main.tail, 1, cursor.recs) = acked

LogInv ==
    /\ pc = "idle" /\ (revision + 1) % CompactEvery # 0 => LogAtCursor
    /\ pc \in AppendPc => revision % CompactEvery # 0 /\ LogAtCursor
    /\ pc = "write" => ~disk.main.torn /\ cursor.recs = Len(disk.main.tail)
    /\ pc = "sync" =>
         IF disk.main.torn
         THEN cursor.recs = Len(disk.main.tail)
         ELSE disk.main.tail = Append(SubSeq(disk.main.tail, 1, cursor.recs),
                                      persistent[Len(persistent)])

\* A compaction past its commit has the whole new document in the .bak file,
\* and one that belongs to an apply is at a multiple of the interval, where
\* the retry of a dropped apply compacts again.
CompactInv ==
    /\ pc \in {"tmp"} \cup CommittedPc /\ ~opening => revision % CompactEvery = 0
    /\ pc \in CommittedPc =>
         disk.bak = [here |-> TRUE, rev |-> revision, doc |-> persistent]
    /\ pc = "remove" =>
         /\ disk.main = SnapshotMain(revision, persistent)
         /\ cursor = [snap |-> revision, recs |-> 0]
         /\ images = {disk}

IInv == TypeInv /\ ImagesInv /\ MemoryInv /\ LogInv /\ CompactInv

(***************************************************************************)
(* Sequences.                                                              *)
(***************************************************************************)
\* What the proofs use of Append, concatenation and subsequences: logging a
\* patch appends it to the replayed document, and cutting at the record
\* boundary before it takes it back.
LEMMA AppendFacts ==
    ASSUME NEW d \in Document, NEW t \in Document, NEW p \in Patch
    PROVE  /\ Append(t, p) \in Document
           /\ Len(Append(t, p)) = Len(t) + 1
           /\ Append(t, p)[Len(Append(t, p))] = p
           /\ d \o Append(t, p) = Append(d \o t, p)
           /\ SubSeq(Append(t, p), 1, Len(t)) = t
           /\ SubSeq(Append(t, p), 1, Len(t) + 1) = Append(t, p)
<1> USE DEF Document
<1>1. Append(t, p) \in Document /\ Len(Append(t, p)) = Len(t) + 1
  OBVIOUS
<1>2. Append(t, p)[Len(Append(t, p))] = p
  OBVIOUS
<1>3. d \o Append(t, p) = Append(d \o t, p)
  OBVIOUS
<1>4. SubSeq(Append(t, p), 1, Len(t)) = t
  OBVIOUS
<1>5. SubSeq(Append(t, p), 1, Len(t) + 1) = Append(t, p)
  OBVIOUS
<1>6. QED
  BY <1>1, <1>2, <1>3, <1>4, <1>5

\* Cutting at the cursor keeps the records before it and drops the rest.
LEMMA CutFacts ==
    ASSUME NEW t \in Document, NEW k \in Nat, k <= Len(t)
    PROVE  /\ SubSeq(t, 1, k) \in Document
           /\ Len(SubSeq(t, 1, k)) = k
           /\ SubSeq(t, 1, Len(t)) = t
           /\ SubSeq(SubSeq(t, 1, k), 1, k) = SubSeq(t, 1, k)
  BY DEF Document

\* The same facts about documents, and that a document's length is a number.
LEMMA DocumentFacts ==
    /\ <<>> \in Document
    /\ Len(<<>>) = 0
    /\ \A d \in Document : Len(d) \in Nat
    /\ \A d \in Document : d # <<>> => d[Len(d)] \in Patch
    /\ \A d, e \in Document : d \o e \in Document
    /\ \A d \in Document, p \in Patch : Append(d, p) \in Document /\ Append(d, p) # <<>>
    /\ \A d \in Document, k \in Nat : k <= Len(d) => SubSeq(d, 1, k) \in Document
<1>1. <<>> \in Document /\ Len(<<>>) = 0
  BY DEF Document
<1>2. \A d \in Document : Len(d) \in Nat /\ (d # <<>> => d[Len(d)] \in Patch)
  BY DEF Document
<1>3. \A d, e \in Document : d \o e \in Document
  BY DEF Document
<1>4. \A d \in Document, p \in Patch : Append(d, p) \in Document /\ Append(d, p) # <<>>
  <2>1. TAKE d \in Document, p \in Patch
  <2>2. Append(d, p) \in Seq(Patch) /\ Len(Append(d, p)) = Len(d) + 1
    BY DEF Document
  <2>3. QED
    BY <1>1, <1>2, <2>2 DEF Document
<1>5. \A d \in Document, k \in Nat : k <= Len(d) => SubSeq(d, 1, k) \in Document
  BY DEF Document
<1>6. QED
  BY <1>1, <1>2, <1>3, <1>4, <1>5

\* A snapshot with no tail replays to itself.
LEMMA EmptyCut ==
    ASSUME NEW S, NEW s \in Seq(S)
    PROVE  s \o SubSeq(<<>>, 1, 0) = s
  OBVIOUS

(***************************************************************************)
(* Type correctness, whatever fails.                                       *)
(***************************************************************************)
\* The disks the steps make are disks.
LEMMA DiskTypes ==
    ASSUME TypeOK
    PROVE  /\ WithBakRenamed(disk) \in Disk
           /\ CutAtCursor(disk.main, cursor) \in MainFile
           /\ EmptyMain \in MainFile
           /\ TornMain \in MainFile
           /\ SnapshotMain(revision, persistent) \in MainFile
           /\ NoBak \in BakFile
           /\ disk.main \in MainFile
           /\ disk.bak \in BakFile
<1> USE DEF TypeOK, Disk, MainFile, BakFile, Cursor
<1>1. EmptyMain \in MainFile /\ TornMain \in MainFile /\ NoBak \in BakFile
  BY DocumentFacts DEF EmptyMain, TornMain, NoBak
<1>2. SnapshotMain(revision, persistent) \in MainFile
  BY DocumentFacts DEF SnapshotMain
<1>3. disk.main \in MainFile /\ disk.bak \in BakFile
  OBVIOUS
<1>4. WithBakRenamed(disk) \in Disk
  BY <1>1, <1>3, DocumentFacts DEF WithBakRenamed, SnapshotMain
<1>5. CutAtCursor(disk.main, cursor) \in MainFile
  <2>1. CASE cursor.recs <= Len(disk.main.tail)
    <3>1. SubSeq(disk.main.tail, 1, cursor.recs) \in Document
      BY <2>1, DocumentFacts
    <3>2. QED
      BY <1>1, <1>3, <3>1 DEF CutAtCursor
  <2>2. CASE ~(cursor.recs <= Len(disk.main.tail))
    BY <2>2, <1>1 DEF CutAtCursor
  <2>3. QED
    BY <2>1, <2>2
<1>6. QED
  BY <1>1, <1>2, <1>3, <1>4, <1>5

\* The types hold before the first open.
LEMMA TypeInvInit == Init => TypeInv
<1>1. EmptyMain \in MainFile /\ NoBak \in BakFile
  BY DocumentFacts DEF EmptyMain, NoBak, MainFile, BakFile
<1>2. QED
  <2> SUFFICES ASSUME Init PROVE TypeInv
    OBVIOUS
  <2>1. disk \in Disk /\ images \subseteq Disk
    BY <1>1 DEF Init, Disk
  <2>2. cursor \in Cursor
    BY DEF Init, Cursor
  <2>3. persistent \in Document /\ undo \in Document /\ acked \in Document
    BY DocumentFacts DEF Init
  <2>4. QED
    BY <2>1, <2>2, <2>3 DEF Init, TypeInv, TypeOK, AppendPc

\* Every step of open, apply and compress keeps the types.
LEMMA TypeInvStep == TypeInv /\ [Next]_vars => TypeInv'
<1> SUFFICES ASSUME TypeInv, [Next]_vars
             PROVE  TypeInv'
  OBVIOUS
<1> USE DEF TypeInv, TypeOK, AppendPc
<1>t. TypeOK
  OBVIOUS
<1>d. /\ WithBakRenamed(disk) \in Disk
      /\ CutAtCursor(disk.main, cursor) \in MainFile
      /\ EmptyMain \in MainFile
      /\ TornMain \in MainFile
      /\ SnapshotMain(revision, persistent) \in MainFile
      /\ NoBak \in BakFile
      /\ disk.main \in MainFile
      /\ disk.bak \in BakFile
  BY <1>t, DiskTypes
<1>r. ASSUME NEW m \in MainFile, pc \in AppendPc
      PROVE  WithRecord(m) \in MainFile
  <2>1. persistent[Len(persistent)] \in Patch
    BY <1>r, DocumentFacts
  <2>2. QED
    BY <2>1, DocumentFacts DEF WithRecord, MainFile
<1>1. CASE OpenReplay
  <2>1. ASSUME NEW m \in MainFile
        PROVE  /\ Replayed(m) \in Document
               /\ ReplayedRevision(m) \in Nat
               /\ [snap |-> m.rev, recs |-> Len(m.tail)] \in Cursor
    <3>1. m.doc \in Document /\ m.tail \in Document /\ m.rev \in Nat
      BY DEF MainFile
    <3>2. Len(m.tail) \in Nat /\ m.doc \o m.tail \in Document
      BY <3>1, DocumentFacts
    <3>3. QED
      BY <3>1, <3>2 DEF Replayed, ReplayedRevision, Cursor
  <2>2. WithBakRenamed(disk).main \in MainFile
    BY <1>d DEF Disk
  <2>3. QED
    BY <1>1, <1>d, <2>1, <2>2 DEF OpenReplay, Unsynced, ghost
<1>2. ASSUME NEW p \in Patch, Apply(p)
      PROVE  TypeInv'
  <2>1. persistent' \in Document /\ persistent' # <<>>
    BY <1>2, DocumentFacts DEF Apply
  <2>2. pc' \in {"tmp", "seek"} /\ opening' = opening /\ pc = "idle"
    BY <1>2 DEF Apply
  <2>3. revision' \in Nat /\ revision' > 0
    BY <1>2 DEF Apply
  <2>4. undo' \in Document
    BY <1>2 DEF Apply
  <2>5. UNCHANGED <<cursor, disk, images, opening, acked>> /\ tried' \subseteq Patch
    BY <1>2 DEF Apply
  <2>6. QED
    BY <2>1, <2>2, <2>3, <2>4, <2>5
<1>3. CASE AppendSeek
  BY <1>3, <1>d DEF AppendSeek, Unsynced, mem, ghost, Disk
<1>4. ASSUME NEW complete \in BOOLEAN, AppendWrite(complete)
      PROVE  TypeInv'
  <2> DEFINE torn == [disk EXCEPT !.main.torn = TRUE]
             done == [disk EXCEPT !.main = WithRecord(torn.main)]
  <2>1. torn \in Disk /\ torn.main \in MainFile
    BY <1>d DEF Disk, MainFile
  <2>2. done \in Disk
    BY <1>4, <1>r, <1>d, <2>1 DEF Disk, AppendWrite
  <2>3. QED
    BY <1>4, <2>1, <2>2 DEF AppendWrite, Unsynced, mem, ghost
<1>5. CASE AppendSync
  <2>1. [disk EXCEPT !.main = WithRecord(@)] \in Disk
    BY <1>5, <1>r, <1>d DEF Disk, AppendSync
  <2>2. cursor' \in Cursor
    BY <1>5 DEF AppendSync, Cursor
  <2>3. QED
    BY <1>5, <2>1, <2>2 DEF AppendSync, Synced, Return
<1>6. CASE CompressCommit
  <2>1. [disk EXCEPT !.bak = [here |-> TRUE, rev |-> revision,
                              doc |-> persistent]] \in Disk
    BY <1>d DEF Disk, BakFile
  <2>2. QED
    BY <1>6, <2>1 DEF CompressCommit, Unsynced, mem, ghost
<1>7. CASE CompressTruncate
  BY <1>7, <1>d DEF CompressTruncate, Unsynced, mem, ghost, Disk
<1>8. ASSUME NEW complete \in BOOLEAN, CompressRewrite(complete)
      PROVE  TypeInv'
  <2>1. /\ [disk EXCEPT !.main = TornMain] \in Disk
        /\ [disk EXCEPT !.main = SnapshotMain(revision, persistent)] \in Disk
    BY <1>d DEF Disk
  <2>2. QED
    BY <1>8, <2>1 DEF CompressRewrite, Unsynced, mem, ghost
<1>9. CASE CompressFlush
  <2>1. [disk EXCEPT !.main = SnapshotMain(revision, persistent)] \in Disk
    BY <1>d DEF Disk
  <2>2. QED
    BY <1>9, <2>1 DEF CompressFlush, Synced, ghost, Cursor
<1>10. CASE CompressRemove
  BY <1>10, <1>d DEF CompressRemove, Unsynced, Return, mem, Disk
<1>11. CASE CompressRemoveFails
  BY <1>11 DEF CompressRemoveFails, Return, mem
<1>12. CASE FailBeforeCommit
  <2>1. CASE opening
    BY <1>12, <2>1 DEF FailBeforeCommit, mem, ghost
  <2>2. CASE ~opening
    <3>1. revision > 0
      BY <1>12, <2>2 DEF FailBeforeCommit
    <3>2. pc' = "idle" /\ RollBack /\ UNCHANGED <<disk, images, acked, tried>>
      BY <1>12, <2>2 DEF FailBeforeCommit, ghost
    <3>3. opening' = FALSE
      BY <1>12 DEF FailBeforeCommit
    <3>4. revision' \in Nat /\ persistent' \in Document
      BY <3>1, <3>2 DEF RollBack
    <3>5. undo' \in Document /\ cursor' \in Cursor
      BY <3>2 DEF RollBack
    <3>6. QED
      BY <3>2, <3>3, <3>4, <3>5
  <2>3. QED
    BY <2>1, <2>2
<1>13. CASE FailAfterCommit
  BY <1>13 DEF FailAfterCommit, mem, ghost
<1>14. CASE Cancel
  <2>1. [disk EXCEPT !.bak = NoBak] \in Disk
    BY <1>d DEF Disk
  <2>2. QED
    BY <1>14, <2>1 DEF Cancel, RollBack, Unsynced, ghost
<1>15. CASE Stop
  BY <1>15 DEF Stop, mem, ghost
<1>16. CASE PowerLoss
  BY <1>16 DEF PowerLoss, Synced, mem, ghost
<1>17. CASE UNCHANGED vars
  BY <1>17 DEF vars
<1>18. QED
  BY <1>1, <1>2, <1>3, <1>4, <1>5, <1>6, <1>7, <1>8, <1>9, <1>10, <1>11,
     <1>12, <1>13, <1>14, <1>15, <1>16, <1>17 DEF Next

\* Store::open, apply and compress keep memory and files in their types,
\* whichever operations fail and wherever they are interrupted.
THEOREM TypeCorrect == Spec => []TypeOK
<1>1. TypeInv => TypeOK
  BY DEF TypeInv
<1>2. QED
  BY TypeInvInit, TypeInvStep, <1>1, PTL DEF Spec

(***************************************************************************)
(* What a disk recovers to.                                                *)
(***************************************************************************)
\* A .bak file hides whatever is in the main file.
LEMMA BakImage ==
    ASSUME NEW d \in Disk, d.bak.here
    PROVE  /\ Readable(WithBakRenamed(d).main)
           /\ Recovered(d) = d.bak.doc
           /\ ReplayedRevision(WithBakRenamed(d).main) = d.bak.rev
<1>1. d.bak.doc \in Document /\ d.bak.rev \in Nat
  BY DEF Disk, BakFile
<1>2. WithBakRenamed(d).main = SnapshotMain(d.bak.rev, d.bak.doc)
  BY DEF WithBakRenamed
<1>3. d.bak.doc \o <<>> = d.bak.doc
  BY <1>1 DEF Document
<1>4. QED
  BY <1>1, <1>2, <1>3, DocumentFacts
     DEF Recovered, Replayed, ReplayedRevision, SnapshotMain, Readable

\* Without one, the main file is replayed.
LEMMA MainImage ==
    ASSUME NEW d \in Disk, ~d.bak.here
    PROVE  /\ Readable(WithBakRenamed(d).main) <=> d.main.head # "bad"
           /\ Recovered(d) = d.main.doc \o d.main.tail
           /\ ReplayedRevision(WithBakRenamed(d).main)
                = d.main.rev + Len(d.main.tail)
  BY DEF WithBakRenamed, Recovered, Replayed, ReplayedRevision, Readable

\* An image stays good while acked stands and tried only grows.
LEMMA ImageStaysGood ==
    ASSUME acked' = acked, tried \subseteq tried', NEW CONSTANT d, GoodImage(d)
    PROVE  GoodImage(d)'
  BY DEF GoodImage, Outcome, Readable, Recovered, Replayed, ReplayedRevision,
     WithBakRenamed, SnapshotMain, NoBak

\* After an acknowledgement an image is good if it holds the new document.
LEMMA ImageIsGood ==
    ASSUME NEW CONSTANT d, d \in Disk, Recovered(d) = acked',
           Readable(WithBakRenamed(d).main),
           ReplayedRevision(WithBakRenamed(d).main) = Len(Recovered(d))
    PROVE  GoodImage(d)'
  BY DEF GoodImage, Outcome, Readable, Recovered, Replayed, ReplayedRevision,
     WithBakRenamed, SnapshotMain, NoBak

(***************************************************************************)
(* The invariant holds initially and every step preserves it.              *)
(***************************************************************************)
\* The invariant holds before the first open.
LEMMA IInvInit == Init => IInv
<1> SUFFICES ASSUME Init PROVE IInv
  OBVIOUS
<1>1. TypeInv
  BY TypeInvInit
<1>2. ImagesInv
  <2>1. disk \in Disk /\ ~disk.bak.here /\ images = {disk}
    BY <1>1 DEF Init, NoBak, TypeInv, TypeOK
  <2>2. /\ disk.main.head # "bad"
        /\ disk.main.doc \o disk.main.tail = acked
        /\ disk.main.rev + Len(disk.main.tail) = Len(acked)
    BY DEF Init, EmptyMain
  <2>3. QED
    BY <2>1, <2>2, MainImage DEF ImagesInv, GoodImage, Outcome
<1>3. MemoryInv /\ LogInv /\ CompactInv
  BY DEF Init, MemoryInv, LogInv, CompactInv, AppendPc, CommittedPc
<1>4. QED
  BY <1>1, <1>2, <1>3 DEF IInv

\* Every step keeps it, as long as nothing fails after a commit.
LEMMA IInvStep ==
    ASSUME NoFaultAfterCommit
    PROVE  IInv /\ [Next]_vars => IInv'
<1> SUFFICES ASSUME IInv, [Next]_vars
             PROVE  IInv'
  OBVIOUS
<1>i. TypeInv /\ TypeOK /\ ImagesInv /\ MemoryInv /\ LogInv /\ CompactInv
  BY DEF IInv, TypeInv
<1>t. TypeInv' /\ TypeOK'
  BY <1>i, TypeInvStep DEF TypeInv
<1>k. /\ acked' = acked /\ tried \subseteq tried' /\ disk' \in images'
      /\ \A x \in images' : x \in images \/ GoodImage(x)
      => ImagesInv'
  <2>1. SUFFICES ASSUME acked' = acked, tried \subseteq tried', disk' \in images',
                        \A x \in images' : x \in images \/ GoodImage(x)
                 PROVE  ImagesInv'
    OBVIOUS
  <2>2. ASSUME NEW CONSTANT x, x \in images'
        PROVE  GoodImage(x)'
    <3>1. GoodImage(x)
      BY <1>i, <2>1, <2>2 DEF ImagesInv
    <3>2. QED
      BY <2>1, <3>1, ImageStaysGood
  <2>3. QED
    BY <2>1, <2>2 DEF ImagesInv
<1>1. CASE OpenReplay
  <2> DEFINE d == WithBakRenamed(disk)
  <2>1. d \in Disk /\ disk \in Disk
    BY <1>i, DiskTypes DEF TypeOK
  <2>2. WithBakRenamed(d) = d
    BY DEF WithBakRenamed, NoBak
  <2>3. GoodImage(disk)
    BY <1>i DEF ImagesInv
  <2>4. GoodImage(d)
    BY <2>2, <2>3 DEF GoodImage, Recovered
  <2>5. acked' = acked /\ tried' = tried /\ disk' = d /\ images' = images \cup {d}
    BY <1>1 DEF OpenReplay, Unsynced, ghost
  <2>6. ImagesInv'
    BY <2>4, <2>5, <1>k
  <2>7. pc' = "tmp" /\ opening' = TRUE
    BY <1>1 DEF OpenReplay
  <2>8. /\ persistent' = Recovered(d)
        /\ revision' = ReplayedRevision(WithBakRenamed(d).main)
    BY <1>1, <2>2 DEF OpenReplay, Recovered
  <2>9. MemoryInv'
    BY <2>4, <2>5, <2>7, <2>8 DEF MemoryInv, GoodImage, Outcome
  <2>10. LogInv' /\ CompactInv'
    BY <2>7 DEF LogInv, CompactInv, AppendPc, CommittedPc
  <2>11. QED
    BY <1>t, <2>6, <2>9, <2>10 DEF IInv
<1>2. ASSUME NEW p \in Patch, Apply(p)
      PROVE  IInv'
  <2>1. /\ pc = "idle" /\ ~opening /\ opening' = opening
        /\ acked' = acked /\ tried' = tried \cup {p}
        /\ disk' = disk /\ images' = images /\ cursor' = cursor
        /\ undo' = persistent /\ persistent' = Append(persistent, p)
        /\ revision' = revision + 1
        /\ pc' = IF revision' % CompactEvery = 0 THEN "tmp" ELSE "seek"
    BY <1>2, <1>i DEF Apply, TypeInv, AppendPc
  <2>2. ImagesInv'
    BY <1>i, <1>k, <2>1 DEF ImagesInv
  <2>3. persistent = acked /\ revision = Len(persistent)
    BY <1>i, <2>1 DEF MemoryInv
  <2>4. Len(persistent') = Len(persistent) + 1
    BY <1>i, <2>1, AppendFacts DEF TypeOK
  <2>5. MemoryInv'
    BY <2>1, <2>3, <2>4 DEF MemoryInv
  <2>6. LogInv'
    <3>1. CASE revision' % CompactEvery = 0
      BY <2>1, <3>1 DEF LogInv, AppendPc
    <3>2. CASE revision' % CompactEvery # 0
      <4>1. LogAtCursor
        BY <1>i, <2>1, <3>2 DEF LogInv
      <4>2. LogAtCursor'
        BY <4>1, <2>1 DEF LogAtCursor
      <4>3. pc' = "seek"
        BY <2>1, <3>2
      <4>4. QED
        BY <3>2, <4>2, <4>3 DEF LogInv, AppendPc
    <3>3. QED
      BY <3>1, <3>2
  <2>7. CompactInv'
    BY <2>1 DEF CompactInv, CommittedPc
  <2>8. QED
    BY <1>t, <2>2, <2>5, <2>6, <2>7 DEF IInv
<1>3. CASE AppendSeek
  <2>1. /\ pc = "seek" /\ pc' = "write"
        /\ disk' = IF AtCursor(disk.main, cursor)
                   THEN disk
                   ELSE [disk EXCEPT !.main = CutAtCursor(@, cursor)]
        /\ images' = images \cup {disk'}
        /\ UNCHANGED <<persistent, revision, undo, cursor, opening, acked, tried>>
    BY <1>3 DEF AppendSeek, Unsynced, mem, ghost
  <2>2. LogAtCursor /\ revision % CompactEvery # 0 /\ ~opening
    BY <1>i, <2>1 DEF LogInv, AppendPc, TypeInv
  <2> DEFINE cut == SubSeq(disk.main.tail, 1, cursor.recs)
  <2>3. cut \in Document /\ Len(cut) = cursor.recs /\ SubSeq(cut, 1, cursor.recs) = cut
    <3>1. disk.main.tail \in Document /\ cursor.recs \in Nat
      BY <1>i DEF TypeOK, Disk, MainFile, Cursor
    <3>2. QED
      BY <3>1, <2>2, CutFacts DEF LogAtCursor
  <2>4. /\ disk'.main.tail = cut /\ ~disk'.main.torn
        /\ disk'.main.head = "good" /\ disk'.main.rev = disk.main.rev
        /\ disk'.main.doc = disk.main.doc /\ disk'.bak = disk.bak
    <3>1. CASE AtCursor(disk.main, cursor)
      <4>1. disk' = disk /\ ~disk.main.torn /\ cursor.recs = Len(disk.main.tail)
        BY <2>1, <3>1 DEF AtCursor
      <4>2. cut = disk.main.tail
        BY <4>1, <1>i, CutFacts DEF TypeOK, Disk, MainFile, Cursor
      <4>3. QED
        BY <4>1, <4>2, <2>2 DEF LogAtCursor
    <3>2. CASE ~AtCursor(disk.main, cursor)
      <4>1. disk' = [disk EXCEPT !.main = [disk.main EXCEPT !.tail = cut, !.torn = FALSE]]
        BY <2>1, <2>2, <3>2 DEF LogAtCursor, CutAtCursor
      <4>2. QED
        BY <4>1, <2>2, <1>i DEF LogAtCursor, TypeOK, Disk, MainFile
    <3>3. QED
      BY <3>1, <3>2
  <2>5. disk'.main.doc \o disk'.main.tail = acked
    BY <2>2, <2>4 DEF LogAtCursor
  <2>6. GoodImage(disk')
    <3>1. disk' \in Disk /\ ~disk'.bak.here /\ disk'.main.rev + Len(disk'.main.tail) = Len(acked)
      BY <1>t, <2>2, <2>3, <2>4 DEF TypeOK, LogAtCursor
    <3>2. QED
      BY <3>1, <2>4, <2>5, MainImage DEF GoodImage, Outcome
  <2>7. ImagesInv'
    BY <1>k, <2>1, <2>6
  <2>8. MemoryInv'
    BY <1>i, <2>1 DEF MemoryInv, Outcome
  <2>9. LogAtCursor'
    <3>1. cursor' = cursor /\ acked' = acked /\ cursor.recs \in Nat
      BY <1>i, <2>1 DEF TypeOK, Cursor
    <3>2. cursor.recs <= Len(disk'.main.tail)
      BY <3>1, <2>3, <2>4
    <3>3. SubSeq(disk'.main.tail, 1, cursor.recs) = disk'.main.tail
      BY <2>3, <2>4
    <3>4. QED
      BY <3>1, <3>2, <3>3, <2>2, <2>4, <2>5 DEF LogAtCursor
  <2>10. LogInv'
    BY <2>1, <2>2, <2>3, <2>4, <2>9 DEF LogInv, AppendPc
  <2>11. CompactInv'
    BY <2>1 DEF CompactInv, CommittedPc
  <2>12. QED
    BY <1>t, <2>7, <2>8, <2>10, <2>11 DEF IInv
<1>4. ASSUME NEW complete \in BOOLEAN, AppendWrite(complete)
      PROVE  IInv'
  <2> DEFINE p == persistent[Len(persistent)]
             torn == [disk EXCEPT !.main.torn = TRUE]
             done == [disk EXCEPT !.main = WithRecord(torn.main)]
  <2>1. /\ pc = "write" /\ pc' = "sync"
        /\ disk' = (IF complete THEN done ELSE torn)
        /\ images' = images \cup {disk'} \cup {torn, done}
        /\ UNCHANGED <<persistent, revision, undo, cursor, opening, acked, tried>>
    BY <1>4 DEF AppendWrite, Unsynced, mem, ghost
  <2>2. /\ LogAtCursor /\ revision % CompactEvery # 0 /\ ~opening
        /\ ~disk.main.torn /\ cursor.recs = Len(disk.main.tail)
    BY <1>i, <2>1 DEF LogInv, AppendPc, TypeInv
  <2>3. PICK q \in tried : persistent = Append(acked, q)
    BY <1>i, <2>1, <2>2 DEF MemoryInv
  <2>4. /\ acked \in Document /\ q \in Patch /\ p = q
        /\ disk.main.doc \in Document /\ disk.main.tail \in Document
    <3>1. acked \in Document /\ q \in Patch
      BY <1>i DEF TypeOK
    <3>2. p = q
      BY <2>3, <3>1, AppendFacts
    <3>3. QED
      BY <1>i, <3>1, <3>2 DEF TypeOK, Disk, MainFile
  <2>5. /\ torn = [disk EXCEPT !.main = [disk.main EXCEPT !.torn = TRUE]]
        /\ done.bak = disk.bak /\ done.main.head = disk.main.head
        /\ done.main.rev = disk.main.rev /\ done.main.doc = disk.main.doc
        /\ done.main.tail = Append(disk.main.tail, p) /\ ~done.main.torn
        /\ torn.bak = disk.bak /\ torn.main.head = disk.main.head
        /\ torn.main.rev = disk.main.rev /\ torn.main.doc = disk.main.doc
        /\ torn.main.tail = disk.main.tail /\ torn.main.torn
    BY <1>i, <2>2 DEF WithRecord, TypeOK, Disk, MainFile
  <2>6. /\ disk.main.doc \o disk.main.tail = acked
        /\ SubSeq(disk.main.tail, 1, cursor.recs) = disk.main.tail
    <3>1. cursor.recs \in Nat
      BY <1>i DEF TypeOK, Cursor
    <3>2. SubSeq(disk.main.tail, 1, cursor.recs) = disk.main.tail
      BY <2>2, <2>4, <3>1, CutFacts
    <3>3. QED
      BY <2>2, <3>2 DEF LogAtCursor
  <2>7. GoodImage(torn)
    <3>1. torn \in Disk
      BY <1>i, <2>5 DEF TypeOK, Disk, MainFile
    <3>2. ~torn.bak.here /\ torn.main.head # "bad"
      BY <2>2, <2>5 DEF LogAtCursor
    <3>3. /\ torn.main.doc \o torn.main.tail = acked
          /\ torn.main.rev + Len(torn.main.tail) = Len(acked)
      BY <2>2, <2>5, <2>6 DEF LogAtCursor
    <3>4. QED
      BY <3>1, <3>2, <3>3, MainImage DEF GoodImage, Outcome
  <2>8. GoodImage(done)
    <3>1. done \in Disk
      BY <1>i, <2>1, <2>4, <2>5, DocumentFacts DEF TypeOK, Disk, MainFile, WithRecord
    <3>2. /\ done.main.doc \o done.main.tail = persistent
          /\ Len(done.main.tail) = Len(disk.main.tail) + 1
          /\ Len(persistent) = Len(acked) + 1
      <4> HIDE DEF p, done
      <4>1. Len(Append(acked, q)) = Len(acked) + 1
        BY <2>4, AppendFacts
      <4>2. /\ disk.main.doc \o Append(disk.main.tail, q) = Append(disk.main.doc \o disk.main.tail, q)
            /\ Len(Append(disk.main.tail, q)) = Len(disk.main.tail) + 1
        BY <2>4, AppendFacts, ZenonT(40)
      <4>3. QED
        BY <2>3, <2>4, <2>5, <2>6, <4>1, <4>2
    <3>3. persistent \in Outcome
      BY <2>3 DEF Outcome
    <3>4. done.main.rev + Len(done.main.tail) = Len(persistent)
      <4> HIDE DEF p, done
      <4>1. disk.main.rev \in Nat /\ Len(disk.main.tail) \in Nat /\ Len(acked) \in Nat
        BY <1>i, <2>4, DocumentFacts DEF TypeOK, Disk, MainFile
      <4>2. disk.main.rev + Len(disk.main.tail) = Len(acked)
        BY <2>2 DEF LogAtCursor
      <4>3. done.main.rev = disk.main.rev
        BY <2>5
      <4>4. QED
        BY <4>1, <4>2, <4>3, <3>2, SMTT(40)
    <3>5. QED
      <4> HIDE DEF p, done
      <4>1. ~done.bak.here /\ done.main.head # "bad"
        BY <2>2, <2>5 DEF LogAtCursor
      <4>2. QED
        BY <3>1, <3>2, <3>3, <3>4, <4>1, MainImage DEF GoodImage
  <2>9. ImagesInv'
    <3> HIDE DEF torn, done
    <3>1. disk' \in {torn, done} /\ images' = images \cup {torn, done}
      BY <2>1
    <3>2. QED
      BY <1>k, <2>1, <2>7, <2>8, <3>1
  <2>10. MemoryInv'
    BY <1>i, <2>1 DEF MemoryInv, Outcome
  <2>11. /\ cursor.recs <= Len(disk'.main.tail)
         /\ SubSeq(disk'.main.tail, 1, cursor.recs) = disk.main.tail
    <3> HIDE DEF p, torn, done
    <3>1. /\ Len(Append(disk.main.tail, p)) = Len(disk.main.tail) + 1
          /\ SubSeq(Append(disk.main.tail, p), 1, Len(disk.main.tail)) = disk.main.tail
          /\ Len(disk.main.tail) \in Nat
      BY <2>4, AppendFacts, DocumentFacts
    <3>2. disk'.main.tail \in {disk.main.tail, Append(disk.main.tail, p)}
      BY <2>1, <2>5
    <3>3. QED
      BY <2>2, <2>6, <3>1, <3>2, SMTT(40)
  <2>12. LogAtCursor'
    <3> HIDE DEF p, torn, done
    <3>1. /\ disk'.bak = disk.bak /\ disk'.main.head = disk.main.head
          /\ disk'.main.rev = disk.main.rev /\ disk'.main.doc = disk.main.doc
      BY <2>1, <2>5
    <3>2. QED
      BY <2>1, <2>2, <2>6, <2>11, <3>1 DEF LogAtCursor
  <2>13. LogInv'
    BY <2>1, <2>2, <2>5, <2>11, <2>12 DEF LogInv, AppendPc
  <2>14. CompactInv'
    BY <2>1 DEF CompactInv, CommittedPc
  <2>15. QED
    BY <1>t, <2>9, <2>10, <2>13, <2>14 DEF IInv
<1>5. CASE AppendSync
  <2> DEFINE p == persistent[Len(persistent)]
             cut == SubSeq(disk.main.tail, 1, cursor.recs)
  <2>1. /\ pc = "sync" /\ pc' = "idle" /\ opening' = FALSE
        /\ disk' = [disk EXCEPT !.main = WithRecord(disk.main)]
        /\ images' = {disk'}
        /\ cursor' = [cursor EXCEPT !.recs = @ + 1]
        /\ acked' = persistent /\ tried' = {}
        /\ UNCHANGED <<persistent, revision, undo>>
    BY <1>5 DEF AppendSync, Synced, Return
  <2>2. /\ LogAtCursor /\ revision % CompactEvery # 0 /\ ~opening
        /\ IF disk.main.torn
           THEN cursor.recs = Len(disk.main.tail)
           ELSE disk.main.tail = Append(cut, p)
    BY <1>i, <2>1 DEF LogInv, AppendPc, TypeInv
  <2>3. PICK q \in tried : persistent = Append(acked, q)
    BY <1>i, <2>1, <2>2 DEF MemoryInv
  <2>4. /\ acked \in Document /\ q \in Patch /\ p = q
        /\ disk.main.doc \in Document /\ disk.main.tail \in Document
        /\ cut \in Document /\ Len(cut) = cursor.recs
    <3>1. acked \in Document /\ q \in Patch
      BY <1>i DEF TypeOK
    <3>2. p = q
      BY <2>3, <3>1, AppendFacts
    <3>3. disk.main.doc \in Document /\ disk.main.tail \in Document /\ cursor.recs \in Nat
      BY <1>i DEF TypeOK, Disk, MainFile, Cursor
    <3>4. QED
      BY <3>1, <3>2, <3>3, <2>2, CutFacts DEF LogAtCursor
  <2>5. /\ disk'.bak = disk.bak /\ disk'.main.head = "good"
        /\ disk'.main.rev = disk.main.rev /\ disk'.main.doc = disk.main.doc
        /\ disk'.main.tail = Append(cut, p)
    <3>1. CASE disk.main.torn
      <4>1. cut = disk.main.tail
        BY <2>2, <2>4, <3>1, CutFacts
      <4>2. QED
        BY <4>1, <2>1, <2>2, <3>1, <1>i DEF WithRecord, LogAtCursor, TypeOK, Disk, MainFile
    <3>2. CASE ~disk.main.torn
      BY <2>1, <2>2, <3>2, <1>i DEF WithRecord, LogAtCursor, TypeOK, Disk, MainFile
    <3>3. QED
      BY <3>1, <3>2
  <2>c. disk.main.doc \o cut = acked /\ disk.main.rev + cursor.recs = Len(acked)
    BY <2>2 DEF LogAtCursor
  <2> HIDE DEF cut, p
  <2>6. /\ disk'.main.doc \o disk'.main.tail = persistent
        /\ Len(disk'.main.tail) = cursor.recs + 1
        /\ Len(persistent) = Len(acked) + 1
        /\ SubSeq(disk'.main.tail, 1, cursor.recs + 1) = disk'.main.tail
    <3>1. Append(cut, p) \in Document /\ Len(Append(cut, p)) = cursor.recs + 1
      BY <2>4, AppendFacts
    <3>2. disk'.main.doc \o disk'.main.tail = Append(disk.main.doc \o cut, p)
      <4>1. disk.main.doc \o Append(cut, q) = Append(disk.main.doc \o cut, q)
        BY <2>4, AppendFacts, ZenonT(40)
      <4>2. QED
        BY <4>1, <2>4, <2>5
    <3>3. disk.main.doc \o cut = acked
      BY <2>c
    <3>4. SubSeq(Append(cut, p), 1, Len(Append(cut, p))) = Append(cut, p)
      <4>1. Len(Append(cut, p)) \in Nat
        BY <3>1, DocumentFacts
      <4>2. QED
        BY <3>1, <4>1, CutFacts
    <3>5. Len(persistent) = Len(acked) + 1
      BY <2>3, <2>4, AppendFacts
    <3>6. QED
      BY <2>3, <2>4, <2>5, <3>1, <3>2, <3>3, <3>4, <3>5
  <2>7. cursor'.snap = cursor.snap /\ cursor'.recs = cursor.recs + 1
    BY <2>1, <1>i DEF TypeOK, Cursor
  <2>8. disk'.main.rev + cursor'.recs = Len(persistent)
    <3>1. disk.main.rev \in Nat /\ cursor.recs \in Nat /\ Len(acked) \in Nat
      BY <1>i, <2>4, DocumentFacts DEF TypeOK, Disk, MainFile, Cursor
    <3>2. disk.main.rev + cursor.recs = Len(acked) /\ disk'.main.rev = disk.main.rev
      BY <2>2, <2>5 DEF LogAtCursor
    <3>3. QED
      BY <3>1, <3>2, <2>6, <2>7
  <2>9. ImagesInv'
    <3>1. ASSUME NEW CONSTANT x, x = disk'
          PROVE  GoodImage(x)'
      <4>1. x \in Disk /\ ~x.bak.here
        BY <1>t, <3>1, <2>2, <2>5 DEF TypeOK, LogAtCursor
      <4>2. /\ Recovered(x) = acked'
            /\ Readable(WithBakRenamed(x).main)
            /\ ReplayedRevision(WithBakRenamed(x).main) = Len(Recovered(x))
        BY <3>1, <4>1, <2>1, <2>5, <2>6, <2>7, <2>8, MainImage
      <4>3. QED
        BY <4>1, <4>2, ImageIsGood
    <3>2. QED
      BY <3>1, <2>1 DEF ImagesInv
  <2>10. MemoryInv'
    BY <1>i, <2>1 DEF MemoryInv, Outcome
  <2>11. LogAtCursor'
    <3>1. ~disk'.bak.here /\ disk'.main.head = "good" /\ cursor'.snap = disk'.main.rev
      BY <2>2, <2>5, <2>7 DEF LogAtCursor
    <3>2. cursor'.recs \in Nat /\ cursor'.recs = Len(disk'.main.tail)
      BY <1>t, <2>6, <2>7 DEF TypeOK, Cursor
    <3>3. QED
      <4>1. cursor'.recs <= Len(disk'.main.tail)
        BY <3>2
      <4>2. disk'.main.doc \o SubSeq(disk'.main.tail, 1, cursor'.recs) = acked'
        BY <2>1, <2>6, <2>7
      <4>3. disk'.main.rev + cursor'.recs = Len(acked')
        BY <2>1, <2>8
      <4>4. QED
        BY <3>1, <4>1, <4>2, <4>3 DEF LogAtCursor
  <2>12. LogInv'
    BY <2>1, <2>11 DEF LogInv, AppendPc
  <2>13. CompactInv'
    BY <2>1 DEF CompactInv, CommittedPc
  <2>14. QED
    BY <1>t, <2>9, <2>10, <2>12, <2>13 DEF IInv
<1>6. CASE CompressCommit
  <2> DEFINE b == [here |-> TRUE, rev |-> revision, doc |-> persistent]
  <2>1. /\ pc = "tmp" /\ pc' = "truncate"
        /\ disk' = [disk EXCEPT !.bak = b]
        /\ images' = images \cup {disk'}
        /\ UNCHANGED <<persistent, revision, undo, cursor, opening, acked, tried>>
    BY <1>6 DEF CompressCommit, Unsynced, mem, ghost
  <2>2. disk'.bak = b
    BY <1>i, <2>1 DEF TypeOK, Disk
  <2>3. persistent \in Outcome /\ revision = Len(persistent)
    BY <1>i, <2>1 DEF MemoryInv, Outcome
  <2>4. GoodImage(disk')
    BY <1>t, <2>2, <2>3, BakImage DEF TypeOK, GoodImage
  <2>5. ImagesInv'
    BY <1>k, <2>1, <2>4
  <2>6. MemoryInv'
    BY <1>i, <2>1 DEF MemoryInv, Outcome
  <2>7. LogInv'
    BY <2>1 DEF LogInv, AppendPc
  <2>8. CompactInv'
    BY <1>i, <2>1, <2>2 DEF CompactInv, CommittedPc
  <2>9. QED
    BY <1>t, <2>5, <2>6, <2>7, <2>8 DEF IInv
<1>7. CASE CompressTruncate
  <2>1. /\ pc = "truncate" /\ pc' = "rewrite"
        /\ disk' = [disk EXCEPT !.main = EmptyMain]
        /\ images' = images \cup {disk'}
        /\ UNCHANGED <<persistent, revision, undo, cursor, opening, acked, tried>>
    BY <1>7 DEF CompressTruncate, Unsynced, mem, ghost
  <2>2. disk'.bak = [here |-> TRUE, rev |-> revision, doc |-> persistent]
    BY <1>i, <2>1 DEF CompactInv, CommittedPc, TypeOK, Disk
  <2>3. persistent \in Outcome /\ revision = Len(persistent)
    BY <1>i, <2>1 DEF MemoryInv, Outcome
  <2>4. GoodImage(disk')
    BY <1>t, <2>2, <2>3, BakImage DEF TypeOK, GoodImage
  <2>5. ImagesInv'
    BY <1>k, <2>1, <2>4
  <2>6. MemoryInv'
    BY <1>i, <2>1 DEF MemoryInv, Outcome
  <2>7. LogInv'
    BY <2>1 DEF LogInv, AppendPc
  <2>8. CompactInv'
    BY <1>i, <2>1, <2>2 DEF CompactInv, CommittedPc
  <2>9. QED
    BY <1>t, <2>5, <2>6, <2>7, <2>8 DEF IInv
<1>8. ASSUME NEW complete \in BOOLEAN, CompressRewrite(complete)
      PROVE  IInv'
  <2> DEFINE torn == [disk EXCEPT !.main = TornMain]
             done == [disk EXCEPT !.main = SnapshotMain(revision, persistent)]
  <2>1. /\ pc = "rewrite" /\ pc' = "flush"
        /\ disk' \in {torn, done} /\ images' = images \cup {torn, done}
        /\ UNCHANGED <<persistent, revision, undo, cursor, opening, acked, tried>>
    BY <1>8 DEF CompressRewrite, Unsynced, mem, ghost
  <2>2. /\ torn \in Disk /\ done \in Disk
        /\ torn.bak = [here |-> TRUE, rev |-> revision, doc |-> persistent]
        /\ done.bak = [here |-> TRUE, rev |-> revision, doc |-> persistent]
    <3>1. TornMain \in MainFile /\ SnapshotMain(revision, persistent) \in MainFile
      BY <1>i, DiskTypes
    <3>2. disk.bak = [here |-> TRUE, rev |-> revision, doc |-> persistent] /\ disk \in Disk
      BY <1>i, <2>1 DEF CompactInv, CommittedPc, TypeOK
    <3>3. QED
      BY <3>1, <3>2 DEF Disk
  <2>3. persistent \in Outcome /\ revision = Len(persistent)
    BY <1>i, <2>1 DEF MemoryInv, Outcome
  <2> HIDE DEF torn, done
  <2>4. GoodImage(torn) /\ GoodImage(done)
    BY <2>2, <2>3, BakImage DEF GoodImage
  <2>5. ImagesInv'
    BY <1>k, <2>1, <2>4
  <2>6. MemoryInv'
    BY <1>i, <2>1 DEF MemoryInv, Outcome
  <2>7. LogInv'
    BY <2>1 DEF LogInv, AppendPc
  <2>8. CompactInv'
    BY <1>i, <2>1, <2>2 DEF CompactInv, CommittedPc
  <2>9. QED
    BY <1>t, <2>5, <2>6, <2>7, <2>8 DEF IInv
<1>9. CASE CompressFlush
  <2>1. /\ pc = "flush" /\ pc' = "remove"
        /\ disk' = [disk EXCEPT !.main = SnapshotMain(revision, persistent)]
        /\ images' = {disk'} /\ cursor' = [snap |-> revision, recs |-> 0]
        /\ UNCHANGED <<persistent, revision, undo, opening, acked, tried>>
    BY <1>9 DEF CompressFlush, Synced, ghost
  <2>2. /\ disk'.bak = [here |-> TRUE, rev |-> revision, doc |-> persistent]
        /\ disk'.main = SnapshotMain(revision, persistent)
    BY <1>i, <2>1 DEF CompactInv, CommittedPc, TypeOK, Disk
  <2>3. persistent \in Outcome /\ revision = Len(persistent)
    BY <1>i, <2>1 DEF MemoryInv, Outcome
  <2>4. GoodImage(disk')
    BY <1>t, <2>2, <2>3, BakImage DEF TypeOK, GoodImage
  <2>5. ImagesInv'
    BY <1>k, <2>1, <2>4
  <2>6. MemoryInv'
    BY <1>i, <2>1 DEF MemoryInv, Outcome
  <2>7. LogInv'
    BY <2>1 DEF LogInv, AppendPc
  <2>8. CompactInv'
    <3>1. SnapshotMain(revision, persistent) = SnapshotMain(revision', persistent')
      BY <2>1
    <3>2. QED
      BY <1>i, <2>1, <2>2, <3>1 DEF CompactInv, CommittedPc, SnapshotMain
  <2>9. QED
    BY <1>t, <2>5, <2>6, <2>7, <2>8 DEF IInv
<1>10. CASE CompressRemove
  <2>1. /\ pc = "remove" /\ pc' = "idle" /\ opening' = FALSE
        /\ disk' = [disk EXCEPT !.bak = NoBak]
        /\ images' = images \cup {disk'}
        /\ acked' = persistent /\ tried' = {}
        /\ UNCHANGED <<persistent, revision, undo, cursor>>
    BY <1>10 DEF CompressRemove, Unsynced, Return, mem
  <2>2. /\ disk.bak = [here |-> TRUE, rev |-> revision, doc |-> persistent]
        /\ disk.main = SnapshotMain(revision, persistent)
        /\ cursor = [snap |-> revision, recs |-> 0]
        /\ images = {disk} /\ disk \in Disk /\ disk' \in Disk
        /\ revision = Len(persistent) /\ persistent \in Document
    BY <1>i, <1>t, <2>1 DEF CompactInv, CommittedPc, MemoryInv, TypeOK
  <2>3. /\ ~disk'.bak.here /\ disk'.main.head = "good" /\ disk'.main.rev = revision
        /\ disk'.main.doc = persistent /\ disk'.main.tail = <<>>
    BY <2>1, <2>2 DEF Disk, NoBak, SnapshotMain
  <2>4. persistent \o <<>> = persistent /\ persistent \o SubSeq(<<>>, 1, 0) = persistent
    BY <2>2, EmptyCut DEF Document
  <2>5. ASSUME NEW CONSTANT x, x \in images'
        PROVE  GoodImage(x)'
    <3>1. CASE x = disk
      BY <3>1, <2>1, <2>2, BakImage, ImageIsGood
    <3>2. CASE x = disk'
      <4>1. /\ Recovered(x) = acked' /\ Readable(WithBakRenamed(x).main)
            /\ ReplayedRevision(WithBakRenamed(x).main) = revision + Len(<<>>)
        BY <3>2, <2>1, <2>2, <2>3, <2>4, MainImage
      <4>2. revision + Len(<<>>) = revision
        BY <1>i, DocumentFacts DEF TypeOK
      <4>3. QED
        BY <3>2, <4>1, <4>2, <2>1, <2>2, ImageIsGood
    <3>3. QED
      BY <2>5, <3>1, <3>2, <2>1, <2>2
  <2>6. ImagesInv'
    BY <2>1, <2>5 DEF ImagesInv
  <2>7. MemoryInv'
    BY <1>i, <2>1, <2>2 DEF MemoryInv
  <2>8. LogAtCursor'
    <3>1. cursor'.snap = revision /\ cursor'.recs = 0
      BY <2>1, <2>2
    <3>2. QED
      BY <3>1, <2>1, <2>2, <2>3, <2>4, DocumentFacts DEF LogAtCursor
  <2>9. LogInv' /\ CompactInv'
    BY <2>1, <2>8 DEF LogInv, CompactInv, AppendPc, CommittedPc
  <2>10. QED
    BY <1>t, <2>6, <2>7, <2>9 DEF IInv
<1>11. CASE CompressRemoveFails
  BY <1>11 DEF CompressRemoveFails, NoFaultAfterCommit
<1>u. ASSUME acked' = acked, tried' = tried, disk' = disk, images' = images
      PROVE  ImagesInv'
  BY <1>i, <1>k, <1>u DEF ImagesInv
<1>c. ASSUME pc' = "closed", opening' = FALSE
      PROVE  MemoryInv' /\ LogInv' /\ CompactInv'
  BY <1>c DEF MemoryInv, LogInv, CompactInv, AppendPc, CommittedPc
<1>r. ASSUME RollBack, pc \notin {"closed", "idle"}, ~opening, pc' = "idle",
             opening' = FALSE, acked' = acked,
             pc \in AppendPc => disk' = disk
      PROVE  MemoryInv' /\ LogInv' /\ CompactInv'
  <2>1. /\ undo = acked /\ persistent' = undo /\ revision' = revision - 1
        /\ cursor' = cursor /\ revision = Len(persistent)
        /\ \E p \in tried : persistent = Append(acked, p)
    BY <1>i, <1>r DEF RollBack, MemoryInv
  <2>2. revision = Len(acked) + 1 /\ acked \in Document
    BY <1>i, <2>1, AppendFacts DEF TypeOK
  <2>3. revision' = Len(persistent') /\ revision' + 1 = revision
    BY <2>1, <2>2, DocumentFacts
  <2>4. MemoryInv'
    BY <1>r, <2>1, <2>3 DEF MemoryInv
  <2>5. LogInv'
    <3>1. CASE pc \in AppendPc
      <4>1. LogAtCursor
        BY <1>i, <3>1 DEF LogInv
      <4>2. LogAtCursor'
        BY <4>1, <1>r, <3>1, <2>1 DEF LogAtCursor
      <4>3. QED
        BY <4>2, <1>r DEF LogInv, AppendPc
    <3>2. CASE pc \notin AppendPc
      <4>1. revision % CompactEvery = 0
        BY <1>i, <1>r, <3>2 DEF CompactInv, AppendPc, CommittedPc, TypeOK
      <4>2. QED
        BY <4>1, <2>3, <1>r DEF LogInv, AppendPc
    <3>3. QED
      BY <3>1, <3>2
  <2>6. CompactInv'
    BY <1>r DEF CompactInv, CommittedPc
  <2>7. QED
    BY <2>4, <2>5, <2>6
<1>12. CASE FailBeforeCommit
  <2>1. /\ opening' = FALSE /\ UNCHANGED <<disk, images, acked, tried>>
        /\ pc \notin {"closed", "idle"}
    BY <1>12 DEF FailBeforeCommit, ghost
  <2>2. CASE opening
    BY <1>12, <1>t, <1>u, <1>c, <2>1, <2>2 DEF FailBeforeCommit, IInv
  <2>3. CASE ~opening
    <3>1. RollBack /\ pc' = "idle"
      BY <1>12, <2>3 DEF FailBeforeCommit
    <3>2. QED
      BY <1>t, <1>u, <1>r, <2>1, <2>3, <3>1 DEF IInv
  <2>4. QED
    BY <2>2, <2>3
<1>13. CASE FailAfterCommit
  BY <1>13 DEF FailAfterCommit, NoFaultAfterCommit
<1>14. CASE Cancel
  <2>1. /\ pc \notin {"closed", "idle"} /\ ~opening /\ RollBack /\ pc' = "idle"
        /\ opening' = FALSE /\ acked' = acked /\ tried' = tried
    BY <1>14, <1>i DEF Cancel, ghost, TypeOK
  <2>2. CASE UNCHANGED <<disk, images>>
    BY <1>t, <1>u, <1>r, <2>1, <2>2 DEF IInv
  <2>3. CASE pc = "remove" /\ Unsynced([disk EXCEPT !.bak = NoBak], {})
    <3>1. disk' = [disk EXCEPT !.bak = NoBak] /\ images' = images \cup {disk'}
      BY <2>3 DEF Unsynced
    <3>2. /\ disk.main = SnapshotMain(revision, persistent)
          /\ disk \in Disk /\ disk' \in Disk
          /\ revision = Len(persistent) /\ persistent \in Document /\ revision \in Nat
      BY <1>i, <1>t, <2>3 DEF CompactInv, CommittedPc, MemoryInv, TypeOK
    <3>3. /\ ~disk'.bak.here /\ disk'.main.head = "good" /\ disk'.main.rev = revision
          /\ disk'.main.doc = persistent /\ disk'.main.tail = <<>>
      BY <3>1, <3>2 DEF Disk, NoBak, SnapshotMain
    <3>4. persistent \o <<>> = persistent
      BY <3>2 DEF Document
    <3>5. persistent \in Outcome
      BY <1>i, <2>1, <2>3 DEF MemoryInv, Outcome
    <3>6. GoodImage(disk')
      <4>1. /\ Recovered(disk') = persistent /\ Readable(WithBakRenamed(disk').main)
            /\ ReplayedRevision(WithBakRenamed(disk').main) = revision + Len(<<>>)
        BY <3>2, <3>3, <3>4, MainImage
      <4>2. revision + Len(<<>>) = revision
        BY <3>2, DocumentFacts
      <4>3. QED
        BY <3>2, <3>5, <4>1, <4>2 DEF GoodImage
    <3>7. ImagesInv'
      BY <1>k, <2>1, <3>1, <3>6
    <3>8. pc \notin AppendPc
      BY <2>3 DEF AppendPc
    <3>9. QED
      BY <1>t, <1>r, <2>1, <3>7, <3>8 DEF IInv
  <2>4. QED
    BY <1>14, <2>2, <2>3 DEF Cancel
<1>15. CASE Stop
  <2>1. /\ pc' = "closed" /\ opening' = FALSE
        /\ UNCHANGED <<disk, images, acked, tried>>
    BY <1>15 DEF Stop, ghost
  <2>2. QED
    BY <1>t, <1>u, <1>c, <2>1 DEF IInv
<1>16. CASE PowerLoss
  <2>1. /\ pc' = "closed" /\ opening' = FALSE
        /\ disk' \in images /\ images' = {disk'}
        /\ UNCHANGED <<acked, tried>>
    BY <1>16 DEF PowerLoss, Synced, ghost
  <2>2. ImagesInv'
    BY <1>k, <2>1
  <2>3. QED
    BY <1>t, <1>c, <2>1, <2>2 DEF IInv
<1>17. CASE UNCHANGED vars
  <2>1. ImagesInv'
    BY <1>17, <1>u DEF vars
  <2>2. MemoryInv'
    BY <1>17, <1>i DEF vars, MemoryInv, Outcome
  <2>3. LogAtCursor => LogAtCursor'
    BY <1>17 DEF vars, LogAtCursor
  <2>4. LogInv'
    BY <1>17, <1>i, <2>3 DEF vars, LogInv
  <2>5. CompactInv'
    BY <1>17, <1>i DEF vars, CompactInv, SnapshotMain
  <2>6. QED
    BY <1>t, <2>1, <2>2, <2>4, <2>5 DEF IInv
<1>18. QED
  BY <1>1, <1>2, <1>3, <1>4, <1>5, <1>6, <1>7, <1>8, <1>9, <1>10, <1>11,
     <1>12, <1>13, <1>14, <1>15, <1>16, <1>17 DEF Next

(***************************************************************************)
(* The theorems.                                                           *)
(***************************************************************************)
\* So it holds throughout.
LEMMA Invariance ==
    ASSUME NoFaultAfterCommit
    PROVE  Spec => []IInv
<1>1. Init => IInv
  BY IInvInit
<1>2. IInv /\ [Next]_vars => IInv'
  BY IInvStep
<1>3. QED
  BY <1>1, <1>2, PTL DEF Spec

\* Every disk a crash can leave, at any await of open, apply or compress and
\* after any failed or dropped apply, holds what was acknowledged and at most
\* one submitted patch more.
THEOREM Durability ==
    ASSUME NoFaultAfterCommit
    PROVE  Spec => []CrashSafe
<1>1. IInv => CrashSafe
  BY DEF IInv, ImagesInv, GoodImage, CrashSafe
<1>2. QED
  BY Invariance, <1>1, PTL

\* Readers of an open store see the acknowledged document: the undo of a
\* failed or dropped apply leaves nothing behind.
THEOREM CleanMemory ==
    ASSUME NoFaultAfterCommit
    PROVE  Spec => []ReadsAcknowledged
<1>1. IInv => ReadsAcknowledged
  BY DEF IInv, MemoryInv, LogInv, LogAtCursor, ReadsAcknowledged
<1>2. QED
  BY Invariance, <1>1, PTL

\* A .bak file that a failed compress left is only there when the next apply
\* compresses again and so replaces it.
THEOREM NoShadowedLog ==
    ASSUME NoFaultAfterCommit
    PROVE  Spec => []NoStaleBak
<1>1. IInv => NoStaleBak
  BY DEF IInv, MemoryInv, LogInv, LogAtCursor, NoStaleBak
<1>2. QED
  BY Invariance, <1>1, PTL

(***************************************************************************)
(* What holds whatever fails.                                              *)
(***************************************************************************)
Prefix(a, d) == Len(a) <= Len(d) /\ a = SubSeq(d, 1, Len(a))

\* The acknowledged document is a prefix of what memory holds, and of what a
\* failing apply goes back to.
KeepInv ==
    /\ pc = "idle" => Prefix(acked, persistent)
    /\ pc \notin {"closed", "idle"} /\ ~opening =>
            Prefix(acked, persistent) /\ Prefix(acked, undo)

\* A document is a prefix of itself and of what extends it.
LEMMA PrefixFacts ==
    ASSUME NEW d \in Document
    PROVE  /\ Prefix(d, d)
           /\ \A a \in Document, p \in Patch : Prefix(a, d) => Prefix(a, Append(d, p))
  BY DEF Document, Prefix

\* Every step keeps it, also those that fail after a commit.
LEMMA KeepInvStep == TypeInv /\ KeepInv /\ [Next]_vars => KeepInv'
<1> SUFFICES ASSUME TypeInv, KeepInv, [Next]_vars
             PROVE  KeepInv'
  OBVIOUS
<1>t. persistent \in Document /\ undo \in Document /\ acked \in Document
  BY DEF TypeInv, TypeOK
<1>r. ASSUME Return, persistent' = persistent PROVE KeepInv'
  BY <1>t, <1>r, PrefixFacts DEF Return, KeepInv
<1>s. ASSUME pc \notin {"closed", "idle"}, pc' \notin {"closed", "idle"},
             UNCHANGED <<persistent, undo, opening, acked>>
      PROVE  KeepInv'
  BY <1>s DEF KeepInv
<1>c. ASSUME pc' = "closed" PROVE KeepInv'
  BY <1>c DEF KeepInv
<1>1. CASE OpenReplay
  BY <1>1 DEF OpenReplay, KeepInv
<1>2. ASSUME NEW p \in Patch, Apply(p) PROVE KeepInv'
  <2>1. /\ pc = "idle" /\ acked' = acked /\ undo' = persistent
        /\ persistent' = Append(persistent, p) /\ pc' \in {"tmp", "seek"}
    BY <1>2 DEF Apply
  <2>2. QED
    BY <1>t, <2>1, PrefixFacts DEF KeepInv
<1>3. CASE AppendSeek
  BY <1>3, <1>s DEF AppendSeek, mem, ghost
<1>4. ASSUME NEW b \in BOOLEAN, AppendWrite(b) PROVE KeepInv'
  BY <1>4, <1>s DEF AppendWrite, mem, ghost
<1>5. CASE AppendSync
  BY <1>5, <1>r DEF AppendSync
<1>6. CASE CompressCommit
  BY <1>6, <1>s DEF CompressCommit, mem, ghost
<1>7. CASE CompressTruncate
  BY <1>7, <1>s DEF CompressTruncate, mem, ghost
<1>8. ASSUME NEW b \in BOOLEAN, CompressRewrite(b) PROVE KeepInv'
  BY <1>8, <1>s DEF CompressRewrite, mem, ghost
<1>9. CASE CompressFlush
  BY <1>9, <1>s DEF CompressFlush, ghost
<1>10. CASE CompressRemove \/ CompressRemoveFails
  BY <1>10, <1>r DEF CompressRemove, CompressRemoveFails, mem
<1>11. CASE FailBeforeCommit
  <2>1. acked' = acked
    BY <1>11 DEF FailBeforeCommit, ghost
  <2>2. CASE opening
    BY <1>11, <1>c, <2>2 DEF FailBeforeCommit
  <2>3. CASE ~opening
    BY <1>11, <2>1, <2>3 DEF FailBeforeCommit, RollBack, KeepInv
  <2>4. QED
    BY <2>2, <2>3
<1>12. CASE FailAfterCommit
  <2>1. CASE opening
    BY <1>12, <1>c, <2>1 DEF FailAfterCommit
  <2>2. CASE ~opening
    BY <1>12, <2>2 DEF FailAfterCommit, mem, ghost, KeepInv
  <2>3. QED
    BY <2>1, <2>2
<1>13. CASE Cancel
  BY <1>13 DEF Cancel, RollBack, ghost, KeepInv
<1>14. CASE Stop \/ PowerLoss
  BY <1>14, <1>c DEF Stop, PowerLoss
<1>15. CASE UNCHANGED vars
  BY <1>15 DEF vars, KeepInv
<1>16. QED
  BY <1>1, <1>2, <1>3, <1>4, <1>5, <1>6, <1>7, <1>8, <1>9, <1>10, <1>11, <1>12,
     <1>13, <1>14, <1>15 DEF Next

\* Whatever fails, in a compaction after its commit too, and wherever an apply
\* is dropped, an open store holds every acknowledged patch.
THEOREM AcknowledgedAreKept == Spec => []KeepsAcknowledged
<1>1. Init => KeepInv
  BY DEF Init, KeepInv
<1>2. KeepInv => KeepsAcknowledged
  BY DEF KeepInv, KeepsAcknowledged, Prefix
<1>3. QED
  BY TypeInvInit, TypeInvStep, KeepInvStep, <1>1, <1>2, PTL DEF Spec

\* A file of which a store can be opened, with a true revision.
SoundImage(d) ==
    /\ Readable(d.main) \/ d.bak.here
    /\ d.main.rev = Len(d.main.doc) /\ d.bak.rev = Len(d.bak.doc)

\* The cursor is at the end of a record of the main file, so that cutting the
\* file at the cursor leaves a file that parses.
CursorInLog ==
    /\ disk.main.head = "good"
    /\ cursor.snap = disk.main.rev
    /\ cursor.recs <= Len(disk.main.tail)

\* What is left of IInv when operations after a commit may fail too: the main
\* file is spoilt only while a .bak file stands beside it, also when a failed
\* compaction has left the cursor pointing into a file that is gone.
FaultInv ==
    /\ disk \in images
    /\ \A d \in images : SoundImage(d)
    /\ pc # "closed" => revision = Len(persistent)
    /\ pc \notin {"closed", "idle"} /\ ~opening => Len(undo) = revision - 1
    /\ pc \in {"truncate", "rewrite", "flush"} => disk.bak.here
    /\ pc = "remove" \/ (pc # "closed" /\ ~opening /\ ~disk.bak.here) => CursorInLog
    /\ pc = "sync" /\ ~disk.bak.here /\ ~disk.main.torn =>
          cursor.recs + 1 <= Len(disk.main.tail)

\* The files that the steps write are sound.
LEMMA FaultFiles ==
    ASSUME TypeInv, FaultInv
    PROVE  /\ SoundImage(disk) /\ SoundImage(WithBakRenamed(disk))
           /\ WithBakRenamed(disk).main.rev = Len(WithBakRenamed(disk).main.doc)
           /\ \A m \in MainFile : [disk EXCEPT !.main = m].main = m
                                  /\ [disk EXCEPT !.main = m].bak = disk.bak
           /\ \A b \in BakFile : [disk EXCEPT !.bak = b].main = disk.main
                                 /\ [disk EXCEPT !.bak = b].bak = b
           /\ EmptyMain.rev = Len(EmptyMain.doc) /\ EmptyMain.head = "empty"
           /\ TornMain.rev = Len(TornMain.doc)
           /\ NoBak.rev = Len(NoBak.doc) /\ ~NoBak.here
           /\ CutAtCursor(disk.main, cursor).rev = Len(CutAtCursor(disk.main, cursor).doc)
<1>1. disk.main \in MainFile /\ disk.bak \in BakFile /\ disk \in Disk
  BY DiskTypes DEF TypeInv, TypeOK
<1>2. SoundImage(disk)
  BY DEF FaultInv
<1>3. /\ EmptyMain.rev = Len(EmptyMain.doc) /\ EmptyMain.head = "empty"
      /\ TornMain.rev = Len(TornMain.doc)
      /\ NoBak.rev = Len(NoBak.doc) /\ ~NoBak.here
  BY DocumentFacts DEF EmptyMain, TornMain, NoBak
<1>4. /\ SoundImage(WithBakRenamed(disk))
      /\ WithBakRenamed(disk).main.rev = Len(WithBakRenamed(disk).main.doc)
  BY <1>1, <1>2, <1>3 DEF WithBakRenamed, SnapshotMain, SoundImage, Readable
<1>5. CutAtCursor(disk.main, cursor).rev = Len(CutAtCursor(disk.main, cursor).doc)
  BY <1>1, <1>2, <1>3 DEF CutAtCursor, SoundImage, MainFile
<1>6. QED
  BY <1>1, <1>2, <1>3, <1>4, <1>5 DEF Disk

\* Every step keeps it, whatever fails.
LEMMA FaultInvStep == TypeInv /\ FaultInv /\ [Next]_vars => FaultInv'
<1> SUFFICES ASSUME TypeInv, FaultInv, [Next]_vars
             PROVE  FaultInv'
  OBVIOUS
<1>t. /\ persistent \in Document /\ undo \in Document /\ revision \in Nat
      /\ cursor \in Cursor /\ disk \in Disk /\ disk.main \in MainFile /\ disk.bak \in BakFile
      /\ opening \in BOOLEAN
      /\ pc \in {"closed", "idle", "seek", "write", "sync", "tmp", "truncate",
                 "rewrite", "flush", "remove"}
      /\ pc \in {"closed", "idle"} \cup AppendPc => ~opening
      /\ pc \notin {"closed", "idle"} /\ ~opening => revision > 0 /\ persistent # <<>>
  BY DiskTypes DEF TypeInv, TypeOK
<1>f. /\ SoundImage(disk) /\ SoundImage(WithBakRenamed(disk))
      /\ WithBakRenamed(disk).main.rev = Len(WithBakRenamed(disk).main.doc)
      /\ \A m \in MainFile : [disk EXCEPT !.main = m].main = m
                             /\ [disk EXCEPT !.main = m].bak = disk.bak
      /\ \A b \in BakFile : [disk EXCEPT !.bak = b].main = disk.main
                            /\ [disk EXCEPT !.bak = b].bak = b
      /\ EmptyMain.rev = Len(EmptyMain.doc) /\ EmptyMain.head = "empty"
      /\ TornMain.rev = Len(TornMain.doc)
      /\ NoBak.rev = Len(NoBak.doc) /\ ~NoBak.here
      /\ CutAtCursor(disk.main, cursor).rev = Len(CutAtCursor(disk.main, cursor).doc)
  BY FaultFiles
<1>m. /\ EmptyMain \in MainFile /\ TornMain \in MainFile /\ NoBak \in BakFile
      /\ SnapshotMain(revision, persistent) \in MainFile
      /\ CutAtCursor(disk.main, cursor) \in MainFile
      /\ WithBakRenamed(disk) \in Disk
  BY DiskTypes DEF TypeInv
\* An unsynced write of sound files leaves sound files.
<1>u. ASSUME NEW d, NEW T, Unsynced(d, T), SoundImage(d), \A e \in T : SoundImage(e)
      PROVE  disk' = d /\ disk' \in images' /\ \A e \in images' : SoundImage(e)
  BY <1>u DEF Unsynced, FaultInv
<1>y. ASSUME NEW d, Synced(d), SoundImage(d)
      PROVE  disk' = d /\ disk' \in images' /\ \A e \in images' : SoundImage(e)
  BY <1>y DEF Synced
<1>s. ASSUME disk' = disk, images' = images
      PROVE  disk' \in images' /\ \A e \in images' : SoundImage(e)
  BY <1>s DEF FaultInv
<1>1. CASE OpenReplay
  <2> DEFINE d == WithBakRenamed(disk)
  <2>1. /\ persistent' = Replayed(d.main) /\ revision' = ReplayedRevision(d.main)
        /\ Unsynced(d, {}) /\ pc' = "tmp" /\ opening' = TRUE
    BY <1>1 DEF OpenReplay
  <2>2. d.main \in MainFile
    BY <1>m DEF Disk
  <2>3. d.main.doc \in Document /\ d.main.tail \in Document
    BY <2>2 DEF MainFile
  <2>4. revision' = Len(persistent')
    <3> HIDE DEF d
    <3> QED
      BY <2>1, <2>3, <1>f DEF Replayed, ReplayedRevision, Document, d
  <2>5. disk' \in images' /\ \A e \in images' : SoundImage(e)
    BY <2>1, <1>f, <1>u
  <2>6. QED
    BY <2>1, <2>4, <2>5 DEF FaultInv
<1>2. ASSUME NEW p \in Patch, Apply(p) PROVE FaultInv'
  <2>1. /\ pc = "idle" /\ undo' = persistent /\ persistent' = Append(persistent, p)
        /\ revision' = revision + 1 /\ pc' \in {"tmp", "seek"}
        /\ cursor' = cursor /\ disk' = disk /\ images' = images /\ opening' = opening
    BY <1>2 DEF Apply
  <2>2. Len(persistent') = Len(persistent) + 1
    BY <2>1, <1>t DEF Document
  <2>3. CursorInLog' <=> CursorInLog
    BY <2>1 DEF CursorInLog
  <2>4. QED
    BY <2>1, <2>2, <2>3, <1>t, <1>s DEF FaultInv
<1>3. CASE AppendSeek
  <2> DEFINE cut == [disk EXCEPT !.main = CutAtCursor(disk.main, cursor)]
             d == IF AtCursor(disk.main, cursor) THEN disk ELSE cut
  <2>1. /\ pc = "seek" /\ pc' = "write" /\ Unsynced(d, {})
        /\ UNCHANGED <<persistent, revision, undo, cursor, opening>>
    BY <1>3 DEF AppendSeek, mem
  <2>2. cut.main = CutAtCursor(disk.main, cursor) /\ cut.bak = disk.bak
    BY <1>f, <1>m
  <2>3. ~disk.bak.here => /\ cut.main.head = "good" /\ cut.main.rev = disk.main.rev
                          /\ cursor.recs <= Len(cut.main.tail)
    <3> SUFFICES ASSUME ~disk.bak.here
                 PROVE  /\ cut.main.head = "good" /\ cut.main.rev = disk.main.rev
                        /\ cursor.recs <= Len(cut.main.tail)
      OBVIOUS
    <3>1. CursorInLog
      BY <2>1, <1>t DEF FaultInv, AppendPc
    <3>2. /\ cursor.recs \in Nat /\ disk.main.tail \in Document
      BY <1>t DEF Cursor, MainFile
    <3>3. Len(SubSeq(disk.main.tail, 1, cursor.recs)) = cursor.recs
      BY <3>1, <3>2, CutFacts DEF CursorInLog
    <3>4. cut.main = [disk.main EXCEPT !.tail = SubSeq(disk.main.tail, 1, cursor.recs),
                                       !.torn = FALSE]
      BY <3>1, <2>2 DEF CutAtCursor, CursorInLog
    <3> HIDE DEF cut
    <3>5. QED
      BY <3>1, <3>2, <3>3, <3>4, <1>t DEF MainFile, CursorInLog
  <2>4. SoundImage(cut)
    <3> HIDE DEF cut
    <3> QED
      BY <2>2, <2>3, <1>f DEF SoundImage, Readable
  <2> HIDE DEF cut
  <2>5. SoundImage(d)
    BY <2>4, <1>f
  <2>6. disk' = d /\ disk' \in images' /\ \A e \in images' : SoundImage(e)
    BY <2>1, <2>5, <1>u
  <2>7. d.bak = disk.bak
    BY <2>2
  <2>8. ~disk.bak.here => CursorInLog'
    BY <2>1, <2>3, <2>6, <1>t DEF CursorInLog, FaultInv, AppendPc
  <2>9. QED
    BY <2>1, <2>6, <2>7, <2>8, <1>t DEF FaultInv, AppendPc
<1>4. ASSUME NEW complete \in BOOLEAN, AppendWrite(complete) PROVE FaultInv'
  <2> DEFINE torn == [disk EXCEPT !.main.torn = TRUE]
             done == [disk EXCEPT !.main = WithRecord(torn.main)]
             d == IF complete THEN done ELSE torn
  <2>1. /\ pc = "write" /\ pc' = "sync" /\ Unsynced(d, {torn, done})
        /\ UNCHANGED <<persistent, revision, undo, cursor, opening>>
    BY <1>4 DEF AppendWrite, mem
  <2>2. ~opening /\ persistent # <<>>
    BY <2>1, <1>t DEF AppendPc
  <2>3. persistent[Len(persistent)] \in Patch
    BY <2>2, <1>t, DocumentFacts
  <2>4. /\ torn.bak = disk.bak /\ torn.main = [disk.main EXCEPT !.torn = TRUE]
        /\ done.bak = disk.bak /\ done.main = WithRecord(torn.main)
    BY <1>t DEF Disk
  <2>5. /\ torn.main.head = disk.main.head /\ torn.main.rev = disk.main.rev
        /\ torn.main.doc = disk.main.doc /\ torn.main.tail = disk.main.tail
        /\ torn.main.torn = TRUE
    BY <2>4, <1>t DEF MainFile
  <2>6. /\ done.main.head = disk.main.head /\ done.main.rev = disk.main.rev
        /\ done.main.doc = disk.main.doc
        /\ done.main.tail = Append(disk.main.tail, persistent[Len(persistent)])
        /\ Len(done.main.tail) = Len(disk.main.tail) + 1
    <3>1. done.main = [[disk.main EXCEPT !.torn = TRUE] EXCEPT
                         !.tail = Append(disk.main.tail, persistent[Len(persistent)]),
                         !.torn = FALSE]
      BY <2>4, <1>t DEF WithRecord, MainFile
    <3>2. done.main.tail = Append(disk.main.tail, persistent[Len(persistent)])
      BY <3>1, <1>t DEF MainFile
    <3>3. disk.main.tail \in Document
      BY <1>t DEF MainFile
    <3>4. Len(done.main.tail) = Len(disk.main.tail) + 1
      BY <3>2, <3>3, <2>3, AppendFacts
    <3> HIDE DEF torn, done
    <3>5. QED
      BY <3>1, <3>2, <3>4, <1>t DEF MainFile
  <2> HIDE DEF torn, done
  <2>7. SoundImage(torn) /\ SoundImage(done)
    BY <2>4, <2>5, <2>6, <1>f DEF SoundImage, Readable
  <2>8. disk' = d /\ disk' \in images' /\ \A e \in images' : SoundImage(e)
    BY <2>1, <2>7, <1>u
  <2>9. /\ disk'.bak = disk.bak /\ disk'.main.head = disk.main.head
        /\ disk'.main.rev = disk.main.rev
        /\ IF complete THEN Len(disk'.main.tail) = Len(disk.main.tail) + 1
                       ELSE disk'.main.torn /\ disk'.main.tail = disk.main.tail
    BY <2>4, <2>5, <2>6, <2>8
  <2>10. cursor.recs \in Nat /\ Len(disk.main.tail) \in Nat
    BY <1>t, DocumentFacts DEF Cursor, MainFile
  <2>11. ~disk.bak.here => CursorInLog
    BY <2>1, <2>2 DEF FaultInv
  <2>12. ~disk.bak.here => CursorInLog' /\ (~disk'.main.torn => cursor.recs + 1 <= Len(disk'.main.tail))
    BY <2>1, <2>9, <2>10, <2>11 DEF CursorInLog
  <2>13. QED
    BY <2>1, <2>2, <2>8, <2>9, <2>12, <1>t DEF FaultInv
<1>5. CASE AppendSync
  <2> DEFINE d == [disk EXCEPT !.main = WithRecord(disk.main)]
  <2>1. /\ pc = "sync" /\ pc' = "idle" /\ Synced(d) /\ opening' = FALSE
        /\ cursor' = [cursor EXCEPT !.recs = cursor.recs + 1]
        /\ UNCHANGED <<persistent, revision, undo>>
    BY <1>5 DEF AppendSync, Return
  <2>2. ~opening /\ persistent # <<>>
    BY <2>1, <1>t DEF AppendPc
  <2>3. persistent[Len(persistent)] \in Patch
    BY <2>2, <1>t, DocumentFacts
  <2>4. d.bak = disk.bak /\ d.main = WithRecord(disk.main)
    BY <1>t DEF Disk
  <2>5. /\ d.main.head = disk.main.head /\ d.main.rev = disk.main.rev
        /\ d.main.doc = disk.main.doc
        /\ IF disk.main.torn THEN Len(d.main.tail) = Len(disk.main.tail) + 1
                             ELSE d.main.tail = disk.main.tail
    <3>1. disk.main.tail \in Document
      BY <1>t DEF MainFile
    <3>2. Len(Append(disk.main.tail, persistent[Len(persistent)])) = Len(disk.main.tail) + 1
      BY <3>1, <2>3, AppendFacts
    <3>3. QED
      BY <2>4, <3>2, <1>t DEF WithRecord, MainFile
  <2> HIDE DEF d
  <2>6. SoundImage(d)
    BY <2>4, <2>5, <1>f DEF SoundImage, Readable
  <2>7. disk' = d /\ disk' \in images' /\ \A e \in images' : SoundImage(e)
    BY <2>1, <2>6, <1>y
  <2>8. cursor'.snap = cursor.snap /\ cursor'.recs = cursor.recs + 1
    BY <2>1, <1>t DEF Cursor
  <2>9. cursor.recs \in Nat /\ Len(disk.main.tail) \in Nat
    BY <1>t, DocumentFacts DEF Cursor, MainFile
  <2>10. ~disk.bak.here => CursorInLog'
    BY <2>1, <2>2, <2>5, <2>7, <2>8, <2>9 DEF CursorInLog, FaultInv
  <2>11. QED
    BY <2>1, <2>2, <2>4, <2>7, <2>10 DEF FaultInv
<1>6. CASE CompressCommit
  <2> DEFINE b == [here |-> TRUE, rev |-> revision, doc |-> persistent]
             d == [disk EXCEPT !.bak = b]
  <2>1. /\ pc = "tmp" /\ pc' = "truncate" /\ Unsynced(d, {})
        /\ UNCHANGED <<persistent, revision, undo, cursor, opening>>
    BY <1>6 DEF CompressCommit, mem
  <2>2. d.bak = b /\ d.main = disk.main
    BY <1>t, <1>f DEF BakFile
  <2>3. b.here /\ b.rev = Len(b.doc)
    BY <2>1 DEF FaultInv
  <2> HIDE DEF b, d
  <2>4. SoundImage(d)
    BY <2>2, <2>3, <1>f DEF SoundImage
  <2>5. disk' = d /\ disk' \in images' /\ \A e \in images' : SoundImage(e)
    BY <2>1, <2>4, <1>u
  <2>6. QED
    BY <2>1, <2>2, <2>3, <2>5 DEF FaultInv
<1>7. CASE CompressTruncate
  <2> DEFINE d == [disk EXCEPT !.main = EmptyMain]
  <2>1. /\ pc = "truncate" /\ pc' = "rewrite" /\ Unsynced(d, {})
        /\ UNCHANGED <<persistent, revision, undo, cursor, opening>>
    BY <1>7 DEF CompressTruncate, mem
  <2>2. d.main = EmptyMain /\ d.bak = disk.bak /\ disk.bak.here
    BY <2>1, <1>f, <1>m DEF FaultInv
  <2> HIDE DEF d
  <2>3. SoundImage(d)
    BY <2>2, <1>f DEF SoundImage
  <2>4. disk' = d /\ disk' \in images' /\ \A e \in images' : SoundImage(e)
    BY <2>1, <2>3, <1>u
  <2>5. QED
    BY <2>1, <2>2, <2>4 DEF FaultInv
<1>8. ASSUME NEW complete \in BOOLEAN, CompressRewrite(complete) PROVE FaultInv'
  <2> DEFINE torn == [disk EXCEPT !.main = TornMain]
             done == [disk EXCEPT !.main = SnapshotMain(revision, persistent)]
             d == IF complete THEN done ELSE torn
  <2>1. /\ pc = "rewrite" /\ pc' = "flush" /\ Unsynced(d, {torn, done})
        /\ UNCHANGED <<persistent, revision, undo, cursor, opening>>
    BY <1>8 DEF CompressRewrite, mem
  <2>2. /\ torn.main = TornMain /\ torn.bak = disk.bak /\ disk.bak.here
        /\ done.main = SnapshotMain(revision, persistent) /\ done.bak = disk.bak
    BY <2>1, <1>f, <1>m DEF FaultInv
  <2>3. done.main.rev = Len(done.main.doc)
    BY <2>1, <2>2 DEF FaultInv, SnapshotMain
  <2> HIDE DEF torn, done
  <2>4. SoundImage(torn) /\ SoundImage(done)
    BY <2>2, <2>3, <1>f DEF SoundImage
  <2>5. disk' = d /\ disk' \in images' /\ \A e \in images' : SoundImage(e)
    BY <2>1, <2>4, <1>u
  <2>6. disk'.bak.here
    BY <2>2, <2>5
  <2>7. QED
    BY <2>1, <2>5, <2>6 DEF FaultInv
<1>9. CASE CompressFlush
  <2> DEFINE d == [disk EXCEPT !.main = SnapshotMain(revision, persistent)]
  <2>1. /\ pc = "flush" /\ pc' = "remove" /\ Synced(d)
        /\ cursor' = [snap |-> revision, recs |-> 0]
        /\ UNCHANGED <<persistent, revision, undo, opening>>
    BY <1>9 DEF CompressFlush
  <2>2. d.main = SnapshotMain(revision, persistent) /\ d.bak = disk.bak
    BY <1>f, <1>m
  <2>3. /\ d.main.rev = revision /\ d.main.doc = persistent /\ d.main.tail = <<>>
        /\ d.main.head = "good" /\ revision = Len(persistent)
    BY <2>1, <2>2 DEF SnapshotMain, FaultInv
  <2> HIDE DEF d
  <2>4. SoundImage(d)
    BY <2>2, <2>3, <1>f DEF SoundImage, Readable
  <2>5. disk' = d /\ disk' \in images' /\ \A e \in images' : SoundImage(e)
    BY <2>1, <2>4, <1>y
  <2>6. CursorInLog'
    BY <2>1, <2>3, <2>5, DocumentFacts DEF CursorInLog
  <2>7. QED
    BY <2>1, <2>5, <2>6 DEF FaultInv
\* The .bak file goes only when the main file is whole.
<1>b. ASSUME pc = "remove", Unsynced([disk EXCEPT !.bak = NoBak], {}), cursor' = cursor
      PROVE  /\ disk' \in images' /\ \A e \in images' : SoundImage(e)
             /\ CursorInLog'
  <2> DEFINE d == [disk EXCEPT !.bak = NoBak]
  <2>1. d.main = disk.main /\ d.bak = NoBak
    BY <1>f, <1>m
  <2>2. CursorInLog
    BY <1>b DEF FaultInv
  <2> HIDE DEF d
  <2>3. SoundImage(d)
    BY <2>1, <2>2, <1>f DEF SoundImage, Readable, CursorInLog
  <2>4. disk' = d /\ disk' \in images' /\ \A e \in images' : SoundImage(e)
    BY <1>b, <2>3, <1>u DEF d
  <2>5. CursorInLog'
    BY <1>b, <2>1, <2>2, <2>4 DEF CursorInLog
  <2>6. QED
    BY <2>4, <2>5
<1>10. CASE CompressRemove
  <2>1. /\ pc = "remove" /\ pc' = "idle" /\ Unsynced([disk EXCEPT !.bak = NoBak], {})
        /\ UNCHANGED <<persistent, revision, undo, cursor>>
    BY <1>10 DEF CompressRemove, Return, mem
  <2>2. QED
    BY <2>1, <1>b DEF FaultInv
<1>11. CASE CompressRemoveFails
  <2>1. /\ pc = "remove" /\ pc' = "idle" /\ disk' = disk /\ images' = images
        /\ UNCHANGED <<persistent, revision, undo, cursor>>
    BY <1>11 DEF CompressRemoveFails, Return, mem
  <2>2. CursorInLog'
    BY <2>1 DEF FaultInv, CursorInLog
  <2>3. QED
    BY <2>1, <2>2, <1>s DEF FaultInv
\* Memory goes back to the document before the patch.
<1>r. ASSUME RollBack, pc \notin {"closed", "idle"}, ~opening
      PROVE  revision' = Len(persistent') /\ cursor' = cursor
  BY <1>r, <1>t DEF RollBack, FaultInv
<1>c. ASSUME pc' = "closed", ~opening', disk' = disk, images' = images PROVE FaultInv'
  BY <1>c, <1>s DEF FaultInv
<1>12. CASE FailBeforeCommit
  <2>1. /\ pc \in {"tmp", "seek", "write", "sync"} /\ disk' = disk /\ images' = images
        /\ ~opening'
    BY <1>12 DEF FailBeforeCommit
  <2>2. CASE opening
    BY <1>12, <1>c, <2>1, <2>2 DEF FailBeforeCommit
  <2>3. CASE ~opening
    <3>1. pc' = "idle" /\ RollBack
      BY <1>12, <2>3 DEF FailBeforeCommit
    <3>2. revision' = Len(persistent') /\ cursor' = cursor
      BY <3>1, <2>1, <2>3, <1>r
    <3>3. ~disk.bak.here => CursorInLog'
      BY <2>1, <2>3, <3>2 DEF FaultInv, CursorInLog
    <3>4. QED
      BY <2>1, <3>1, <3>2, <3>3, <1>s DEF FaultInv
  <2>4. QED
    BY <2>2, <2>3
<1>13. CASE FailAfterCommit
  <2>1. /\ pc \in {"truncate", "rewrite", "flush"} /\ disk' = disk /\ images' = images
        /\ ~opening' /\ UNCHANGED <<persistent, revision, undo, cursor>>
        /\ pc' = IF opening THEN "closed" ELSE "idle"
    BY <1>13 DEF FailAfterCommit, mem
  <2>2. disk'.bak.here
    BY <2>1 DEF FaultInv
  <2>3. QED
    BY <2>1, <2>2, <1>s DEF FaultInv
<1>14. CASE Cancel
  <2>1. /\ pc \notin {"closed", "idle"} /\ ~opening /\ RollBack /\ pc' = "idle"
        /\ opening' = opening
    BY <1>14 DEF Cancel
  <2>2. revision' = Len(persistent') /\ cursor' = cursor
    BY <2>1, <1>r
  <2>3. CASE disk' = disk /\ images' = images
    <3>1. ~disk.bak.here => CursorInLog'
      BY <2>1, <2>2, <2>3 DEF FaultInv, CursorInLog
    <3>2. QED
      BY <2>1, <2>2, <2>3, <3>1, <1>s DEF FaultInv
  <2>4. CASE pc = "remove" /\ Unsynced([disk EXCEPT !.bak = NoBak], {})
    BY <2>1, <2>2, <2>4, <1>b DEF FaultInv
  <2>5. QED
    BY <1>14, <2>3, <2>4 DEF Cancel
<1>15. CASE Stop
  BY <1>15, <1>c DEF Stop
<1>16. CASE PowerLoss
  <2>1. PICK d \in images : Synced(d)
    BY <1>16 DEF PowerLoss
  <2>2. disk' \in images' /\ \A e \in images' : SoundImage(e)
    BY <2>1, <1>y DEF FaultInv
  <2>3. pc' = "closed"
    BY <1>16 DEF PowerLoss
  <2>4. QED
    BY <2>2, <2>3 DEF FaultInv
<1>17. CASE UNCHANGED vars
  BY <1>17 DEF vars, FaultInv, CursorInLog
<1>18. QED
  BY <1>1, <1>2, <1>3, <1>4, <1>5, <1>6, <1>7, <1>8, <1>9, <1>10, <1>11, <1>12,
     <1>13, <1>14, <1>15, <1>16, <1>17 DEF Next

\* So it holds throughout, whatever fails.
LEMMA FaultInvariance == Spec => []FaultInv
<1>1. Init => FaultInv
  <2> SUFFICES ASSUME Init PROVE FaultInv
    OBVIOUS
  <2>1. disk = [main |-> EmptyMain, bak |-> NoBak] /\ images = {disk} /\ pc = "closed"
    BY DEF Init
  <2>2. SoundImage(disk)
    BY <2>1, DocumentFacts DEF SoundImage, Readable, EmptyMain, NoBak
  <2>3. QED
    BY <2>1, <2>2 DEF FaultInv
<1>2. QED
  BY <1>1, TypeInvInit, TypeInvStep, FaultInvStep, PTL DEF Spec

\* Whatever fails, and wherever an apply is dropped or the power lost, every
\* disk that is left can be opened by Store::open.
THEOREM Openness == Spec => []AlwaysOpens
<1>1. FaultInv => AlwaysOpens
  BY DEF FaultInv, SoundImage, AlwaysOpens, Readable, WithBakRenamed, SnapshotMain
<1>2. QED
  BY FaultInvariance, <1>1, PTL

\* Whatever fails, a reopened store resumes at the revision that counts the
\* patches in its document: open replays the log from the revision of its first
\* line.
THEOREM RevisionIsKept == Spec => []RevisionSurvives
<1>1. TypeInv /\ FaultInv => RevisionSurvives
  <2> SUFFICES ASSUME TypeInv, FaultInv, NEW d \in images
               PROVE  ReplayedRevision(WithBakRenamed(d).main) = Len(Recovered(d))
    BY DEF RevisionSurvives
  <2> DEFINE m == WithBakRenamed(d).main
  <2>1. d \in Disk /\ d.main \in MainFile /\ d.bak \in BakFile
    BY DEF TypeInv, TypeOK, Disk
  <2>2. /\ m.doc \in Document /\ m.tail \in Document /\ m.rev = Len(m.doc)
    BY <2>1, DocumentFacts DEF FaultInv, SoundImage, WithBakRenamed, SnapshotMain, MainFile, BakFile
  <2>3. m.rev + Len(m.tail) = Len(m.doc \o m.tail)
    <3> HIDE DEF m
    <3> QED
      BY <2>2 DEF Document
  <2>4. QED
    BY <2>3 DEF ReplayedRevision, Recovered, Replayed
<1>2. QED
  BY FaultInvariance, TypeInvInit, TypeInvStep, <1>1, PTL DEF Spec

\* The store implements DurableLog: a step of the store is the submission or
\* the acknowledgement of a patch, a stop, a restart, or invisible.
THEOREM Refinement ==
    ASSUME NoFaultAfterCommit
    PROVE  Spec => LogSpec
<1>1. Init => Log!Init
  BY DEF Init, Log!Init
<1>2. ASSUME IInv, [Next]_vars
      PROVE  [Log!Next]_(Log!absVars)
  <2> DEFINE open == pc # "closed" /\ ~opening
  <2>i. TypeInv /\ TypeOK /\ MemoryInv /\ tried \subseteq Patch
    BY <1>2 DEF IInv, TypeInv, TypeOK
  <2>s. ASSUME open' = open, acked' = acked, tried' = tried
        PROVE  UNCHANGED Log!absVars
    BY <2>s DEF Log!absVars
  <2>d. ASSUME open, ~open', acked' = acked, tried' = tried
        PROVE  Log!Stop
    BY <2>d DEF Log!Stop
  <2>a. ASSUME open, open', acked' = persistent, tried' = {},
               pc \notin {"closed", "idle"}
        PROVE  \E p \in Patch : Log!Acknowledge(p)
    <3>1. PICK q \in tried : persistent = Append(acked, q)
      BY <2>a, <2>i DEF MemoryInv
    <3>2. QED
      BY <2>a, <2>i, <3>1 DEF Log!Acknowledge
  <2>1. CASE OpenReplay
    BY <2>1, <2>s, <2>i DEF OpenReplay, ghost
  <2>2. ASSUME NEW p \in Patch, Apply(p)
        PROVE  Log!Submit(p)
    BY <2>2, <2>i DEF Apply, Log!Submit, TypeInv
  <2>3. CASE AppendSeek
    BY <2>3, <2>s DEF AppendSeek, ghost
  <2>4. ASSUME NEW complete \in BOOLEAN, AppendWrite(complete)
        PROVE  UNCHANGED Log!absVars
    BY <2>4, <2>s DEF AppendWrite, ghost
  <2>5. CASE AppendSync
    BY <2>5, <2>a, <2>i DEF AppendSync, Return, TypeInv, AppendPc, Log!Next
  <2>6. CASE CompressCommit
    BY <2>6, <2>s DEF CompressCommit, ghost
  <2>7. CASE CompressTruncate
    BY <2>7, <2>s DEF CompressTruncate, ghost
  <2>8. ASSUME NEW complete \in BOOLEAN, CompressRewrite(complete)
        PROVE  UNCHANGED Log!absVars
    BY <2>8, <2>s DEF CompressRewrite, ghost
  <2>9. CASE CompressFlush
    BY <2>9, <2>s DEF CompressFlush, ghost
  <2>10. CASE CompressRemove
    <3>1. CASE opening
      <4>1. persistent \in {acked} \cup {Append(acked, p) : p \in tried}
        BY <2>i, <3>1 DEF MemoryInv, Outcome
      <4>2. Log!Restart
        BY <2>10, <3>1, <4>1 DEF CompressRemove, Return, Log!Restart
      <4>3. QED
        BY <4>2 DEF Log!Next
    <3>2. CASE ~opening
      BY <2>10, <2>a, <3>2 DEF CompressRemove, Return, Log!Next
    <3>3. QED
      BY <3>1, <3>2
  <2>11. CASE CompressRemoveFails
    BY <2>11 DEF CompressRemoveFails, NoFaultAfterCommit
  <2>12. CASE FailBeforeCommit
    BY <2>12, <2>s DEF FailBeforeCommit, ghost
  <2>13. CASE FailAfterCommit
    BY <2>13 DEF FailAfterCommit, NoFaultAfterCommit
  <2>14. CASE Cancel
    BY <2>14, <2>s DEF Cancel, ghost
  <2>15. CASE Stop
    BY <2>15, <2>s, <2>d DEF Stop, ghost, Log!Next
  <2>16. CASE PowerLoss
    BY <2>16, <2>s, <2>d DEF PowerLoss, ghost, Log!Next
  <2>17. CASE UNCHANGED vars
    BY <2>17, <2>s DEF vars
  <2>18. QED
    BY <1>2, <2>1, <2>2, <2>3, <2>4, <2>5, <2>6, <2>7, <2>8, <2>9, <2>10,
       <2>11, <2>12, <2>13, <2>14, <2>15, <2>16, <2>17 DEF Next, Log!Next
<1>3. QED
  BY Invariance, <1>1, <1>2, PTL DEF Spec, LogSpec, Log!Spec

\* A set of numbers that is not empty has a least element.
LEMMA LeastNat ==
    ASSUME NEW T, T \subseteq Nat, T # {}
    PROVE  \E x \in T : \A y \in T : x <= y
  <1> DEFINE R == OpToRel(<, Nat)
  <1>1. IsWellFoundedOn(R, Nat)
    BY NatLessThanWellFounded
  <1>2. \A x, y \in Nat : <<x, y>> \in R <=> x < y
    BY DEF OpToRel
  <1> HIDE DEF R
  <1>3. PICK x \in T : \A y \in T : ~(<<y, x>> \in R)
    BY <1>1, WFMin, Zenon
  <1>4. \A y \in T : ~(y < x)
    BY <1>2, <1>3, Zenon
  <1> QED
    BY <1>4

\* A set with 0 and with the successor of each of its numbers has them all.
LEMMA SetInduction ==
    ASSUME NEW S, 0 \in S, \A n \in Nat : n \in S => n + 1 \in S
    PROVE  \A n \in Nat : n \in S
  <1> DEFINE T == {n \in Nat : n \notin S}
  <1> SUFFICES ASSUME T # {} PROVE FALSE
    OBVIOUS
  <1>1. PICK x \in T : \A y \in T : x <= y
    BY LeastNat
  <1>2. x # 0 /\ x \in Nat /\ x - 1 \in Nat /\ x = (x - 1) + 1
    BY <1>1
  <1>3. x - 1 \notin T
    BY <1>1, <1>2
  <1> QED
    BY <1>2, <1>3

(***************************************************************************)
(* Pointers as sequences.                                                  *)
(***************************************************************************)
\* A function on 1..n is a sequence of length n.
LEMMA FunctionIsSeq ==
    ASSUME NEW S, NEW n \in Nat, NEW f \in [1..n -> S]
    PROVE  f \in Seq(S) /\ Len(f) = n
  OBVIOUS

\* The first segment of a pointer and the rest.
LEMMA HeadTail ==
    ASSUME NEW p \in Pointer, p # <<>>
    PROVE  /\ Head(p) \in Segment /\ Head(p) = p[1]
           /\ Tail(p) \in Pointer
           /\ Len(p) \in Nat /\ Len(p) > 0 /\ Len(Tail(p)) = Len(p) - 1
           /\ \A i \in 1..(Len(p) - 1) : Tail(p)[i] = p[i + 1]
  BY DEF Pointer

\* Concatenation goes by the first segment.
LEMMA ConcatHeadTail ==
    ASSUME NEW p \in Pointer, NEW q \in Pointer, p # <<>>
    PROVE  /\ p \o q \in Pointer /\ p \o q # <<>>
           /\ Head(p \o q) = Head(p) /\ Tail(p \o q) = Tail(p) \o q
  <1>1. p \o q \in Pointer /\ Len(p \o q) = Len(p) + Len(q) /\ Len(p) > 0
    BY DEF Pointer
  <1>2. p \o q # <<>> /\ Head(p \o q) = Head(p)
    BY <1>1 DEF Pointer
  <1>3. Tail(p) \in Pointer /\ Len(Tail(p)) = Len(p) - 1
    BY HeadTail
  <1>4. Tail(p) \o q \in Pointer /\ Len(Tail(p) \o q) = Len(p) - 1 + Len(q)
    BY <1>3 DEF Pointer
  <1>5. Tail(p \o q) \in Pointer /\ Len(Tail(p \o q)) = Len(p) + Len(q) - 1
    <2>1. Tail(p \o q) \in Pointer /\ Len(Tail(p \o q)) = Len(p \o q) - 1
      BY <1>1, <1>2, HeadTail, Zenon
    <2> QED
      BY <1>1, <2>1
  <1>6. ASSUME NEW i \in 1..(Len(p) + Len(q) - 1)
        PROVE  Tail(p \o q)[i] = (Tail(p) \o q)[i]
    <2>1. Tail(p \o q)[i] = (p \o q)[i + 1]
      BY <1>1, <1>2, HeadTail
    <2>2. Len(p) \in Nat /\ Len(q) \in Nat /\ p \in Seq(Segment) /\ q \in Seq(Segment)
          /\ Tail(p) \in Seq(Segment)
      BY <1>3 DEF Pointer
    <2>3. CASE i + 1 <= Len(p)
      <3>1. (p \o q)[i + 1] = p[i + 1]
        BY <2>2, <2>3
      <3>2. (Tail(p) \o q)[i] = Tail(p)[i] /\ Tail(p)[i] = p[i + 1]
        BY <1>3, <2>2, <2>3, HeadTail
      <3> QED
        BY <2>1, <3>1, <3>2
    <2>4. CASE ~(i + 1 <= Len(p))
      <3>1. (p \o q)[i + 1] = q[i + 1 - Len(p)]
        BY <2>2, <2>4
      <3>2. (Tail(p) \o q)[i] = q[i - Len(Tail(p))]
        BY <1>3, <2>2, <2>4
      <3> QED
        BY <1>3, <2>1, <2>2, <3>1, <3>2
    <2> QED
      BY <2>3, <2>4
  <1> QED
    BY <1>1, <1>2, <1>4, <1>5, <1>6 DEF Pointer

\* Nothing before or after a pointer.
LEMMA ConcatNothing ==
    ASSUME NEW p \in Pointer
    PROVE  <<>> \in Pointer /\ <<>> \o p = p /\ p \o <<>> = p
  BY DEF Pointer

(***************************************************************************)
(* Get: the equation of its recursive function, and what follows.          *)
(***************************************************************************)
\* The equation of the function in Get, on 0..m.
Walks(f, v, p, m) ==
    f = [n \in 0..m |-> IF n = 0 THEN v ELSE Child(f[n - 1], p[n])]

\* The equation has a solution, of any length.
LEMMA WalkExists ==
    ASSUME NEW v, NEW p
    PROVE  \A m \in Nat : \E f : Walks(f, v, p, m)
  <1> DEFINE S == {m \in Nat : \E f : Walks(f, v, p, m)}
  <1>1. 0 \in S
    <2> DEFINE f == [n \in 0..0 |-> v]
    <2>1. Walks(f, v, p, 0)
      BY DEF Walks
    <2> QED
      BY <2>1
  <1>2. ASSUME NEW m \in Nat, m \in S PROVE m + 1 \in S
    <2>1. PICK f : Walks(f, v, p, m)
      BY <1>2
    <2> DEFINE g == [n \in 0..(m + 1) |-> IF n = m + 1 THEN Child(f[m], p[m + 1]) ELSE f[n]]
    <2>2. \A n \in 0..m : f[n] = IF n = 0 THEN v ELSE Child(f[n - 1], p[n])
      BY <2>1 DEF Walks
    <2>3. ASSUME NEW n \in 0..(m + 1)
          PROVE  g[n] = IF n = 0 THEN v ELSE Child(g[n - 1], p[n])
      <3>1. CASE n = m + 1
        <4>1. g[n] = Child(f[m], p[n]) /\ n # 0 /\ n - 1 = m
          BY <3>1
        <4>2. m \in 0..(m + 1) /\ m # m + 1
          OBVIOUS
        <4>3. g[m] = f[m]
          BY <4>2
        <4> QED
          BY <4>1, <4>3
      <3>2. CASE n # m + 1
        <4>1. n \in 0..m /\ g[n] = f[n]
          BY <3>2
        <4>2. n # 0 => g[n - 1] = f[n - 1]
          BY <4>1
        <4> QED
          BY <2>2, <4>1, <4>2
      <3> QED
        BY <3>1, <3>2
    <2>4. Walks(g, v, p, m + 1)
      <3>1. g = [n \in 0..(m + 1) |-> g[n]]
        OBVIOUS
      <3> HIDE DEF g
      <3> QED
        BY <2>3, <3>1 DEF Walks
    <2> QED
      BY <2>4
  <1> HIDE DEF S
  <1>3. \A m \in Nat : m \in S
    BY <1>1, <1>2, SetInduction
  <1> QED
    BY <1>3 DEF S

\* Get is the end of the walk.
LEMMA GetWalks ==
    ASSUME NEW v, NEW p \in Pointer
    PROVE  \E f : Walks(f, v, p, Len(p)) /\ Get(v, p) = f[Len(p)]
  <1> DEFINE at == CHOOSE f : f = [n \in 0..Len(p) |->
                                      IF n = 0 THEN v ELSE Child(f[n - 1], p[n])]
  <1>1. \E f : f = [n \in 0..Len(p) |-> IF n = 0 THEN v ELSE Child(f[n - 1], p[n])]
    <2>1. Len(p) \in Nat
      BY DEF Pointer
    <2>2. PICK f : Walks(f, v, p, Len(p))
      BY <2>1, WalkExists
    <2> QED
      BY <2>2 DEF Walks
  <1>2. at = [n \in 0..Len(p) |-> IF n = 0 THEN v ELSE Child(at[n - 1], p[n])]
    BY <1>1
  <1>3. Get(v, p) = at[Len(p)]
    BY DEF Get
  <1> HIDE DEF at
  <1> QED
    BY <1>2, <1>3 DEF Walks

\* The whole document is at the empty pointer.
LEMMA GetNil ==
    ASSUME NEW v
    PROVE  Get(v, <<>>) = v
  <1>1. <<>> \in Pointer /\ Len(<<>>) = 0
    BY DEF Pointer
  <1>2. PICK f : Walks(f, v, <<>>, 0) /\ Get(v, <<>>) = f[0]
    BY <1>1, GetWalks
  <1> QED
    BY <1>2 DEF Walks

\* A step of the walk.
LEMMA GetCons ==
    ASSUME NEW v, NEW p \in Pointer, p # <<>>
    PROVE  Get(v, p) = Get(Child(v, Head(p)), Tail(p))
  <1> DEFINE N == Len(p) - 1
  <1>1. /\ N \in Nat /\ Len(p) = N + 1 /\ Tail(p) \in Pointer /\ Len(Tail(p)) = N
        /\ Head(p) = p[1] /\ \A i \in 1..N : Tail(p)[i] = p[i + 1]
    BY HeadTail
  <1>2. PICK f : Walks(f, v, p, N + 1) /\ Get(v, p) = f[N + 1]
    BY <1>1, GetWalks
  <1>3. PICK g : Walks(g, Child(v, p[1]), Tail(p), N) /\ Get(Child(v, p[1]), Tail(p)) = g[N]
    BY <1>1, GetWalks
  <1> HIDE DEF N
  <1>f. \A n \in 0..(N + 1) : f[n] = IF n = 0 THEN v ELSE Child(f[n - 1], p[n])
    BY <1>2 DEF Walks
  <1>g. \A n \in 0..N : g[n] = IF n = 0 THEN Child(v, p[1]) ELSE Child(g[n - 1], Tail(p)[n])
    BY <1>3 DEF Walks
  <1> DEFINE S == {n \in Nat : n <= N => f[n + 1] = g[n]}
  <1>4. 0 \in S
    <2>1. f[0] = v /\ f[1] = Child(f[0], p[1])
      BY <1>1, <1>f
    <2>2. g[0] = Child(v, p[1])
      BY <1>1, <1>g
    <2> QED
      BY <2>1, <2>2
  <1>5. ASSUME NEW n \in Nat, n \in S PROVE n + 1 \in S
    <2> SUFFICES ASSUME n + 1 <= N PROVE f[n + 2] = g[n + 1]
      OBVIOUS
    <2>1. f[n + 1] = g[n]
      BY <1>1, <1>5
    <2>2. /\ n + 2 \in 0..(N + 1) /\ n + 2 # 0 /\ (n + 2) - 1 = n + 1
          /\ n + 1 \in 1..N /\ n + 1 \in 0..N /\ n + 1 # 0 /\ (n + 1) - 1 = n
      BY <1>1
    <2>3. f[n + 2] = Child(f[n + 1], p[n + 2])
      BY <1>f, <2>2
    <2>4. g[n + 1] = Child(g[n], Tail(p)[n + 1])
      BY <1>g, <2>2
    <2>5. Tail(p)[n + 1] = p[n + 2]
      BY <1>1, <2>2
    <2> QED
      BY <2>1, <2>3, <2>4, <2>5
  <1> HIDE DEF S
  <1>6. N \in S
    BY <1>1, <1>4, <1>5, SetInduction
  <1>7. f[N + 1] = g[N]
    BY <1>1, <1>6 DEF S
  <1> QED
    BY <1>1, <1>2, <1>3, <1>7

\* The walk in two parts.
LEMMA GetConcat ==
    \A p \in Pointer : \A v : \A q \in Pointer : Get(v, p \o q) = Get(Get(v, p), q)
  <1> DEFINE S == {n \in Nat : \A p \in Pointer : Len(p) = n =>
                      \A v : \A q \in Pointer : Get(v, p \o q) = Get(Get(v, p), q)}
  <1>1. 0 \in S
    <2> SUFFICES ASSUME NEW p \in Pointer, Len(p) = 0, NEW v, NEW q \in Pointer
                 PROVE  Get(v, p \o q) = Get(Get(v, p), q)
      OBVIOUS
    <2>1. p = <<>>
      BY DEF Pointer
    <2> QED
      BY <2>1, ConcatNothing, GetNil
  <1>2. ASSUME NEW n \in Nat, n \in S PROVE n + 1 \in S
    <2> SUFFICES ASSUME NEW p \in Pointer, Len(p) = n + 1, NEW v, NEW q \in Pointer
                 PROVE  Get(v, p \o q) = Get(Get(v, p), q)
      OBVIOUS
    <2>1. p # <<>>
      BY DEF Pointer
    <2>2. Tail(p) \in Pointer /\ Len(Tail(p)) = n
      BY <2>1, HeadTail
    <2>3. Get(v, p \o q) = Get(Child(v, Head(p)), Tail(p) \o q)
      BY <2>1, ConcatHeadTail, GetCons, ZenonT(40)
    <2>4. Get(v, p) = Get(Child(v, Head(p)), Tail(p))
      BY <2>1, GetCons
    <2>5. Get(Child(v, Head(p)), Tail(p) \o q) = Get(Get(Child(v, Head(p)), Tail(p)), q)
      BY <1>2, <2>2
    <2> QED
      BY <2>3, <2>4, <2>5
  <1> HIDE DEF S
  <1>3. \A n \in Nat : n \in S
    BY <1>1, <1>2, SetInduction
  <1>4. \A p \in Pointer : Len(p) \in S
    BY <1>3 DEF Pointer
  <1> QED
    BY <1>4 DEF S

(***************************************************************************)
(* One level of a document.                                                *)
(***************************************************************************)
\* The values of a sequence are those at its places.
LEMMA SeqRange ==
    ASSUME NEW S, NEW s \in Seq(S)
    PROVE  /\ s \in Seq(Range(s)) /\ DOMAIN s = 1..Len(s) /\ Len(s) \in Nat
           /\ \A y : y \in Range(s) <=> \E i \in 1..Len(s) : s[i] = y
  <1>1. DOMAIN s = 1..Len(s) /\ Len(s) \in Nat /\ s = [i \in 1..Len(s) |-> s[i]]
    OBVIOUS
  <1>2. \A y : y \in Range(s) <=> \E i \in 1..Len(s) : s[i] = y
    BY <1>1 DEF Range
  <1>3. s \in [1..Len(s) -> Range(s)]
    BY <1>1, <1>2
  <1> QED
    BY <1>1, <1>2, <1>3

\* One sequence after another.
LEMMA Concat ==
    ASSUME NEW S, NEW a \in Seq(S), NEW b \in Seq(S)
    PROVE  /\ a \o b \in Seq(S) /\ Len(a \o b) = Len(a) + Len(b)
           /\ Len(a) \in Nat /\ Len(b) \in Nat
           /\ a \o b = [j \in 1..(Len(a) + Len(b)) |-> (a \o b)[j]]
  <1>1. /\ a \o b \in Seq(S) /\ Len(a \o b) = Len(a) + Len(b)
        /\ Len(a) \in Nat /\ Len(b) \in Nat
    OBVIOUS
  <1>2. a \o b \in [1..Len(a \o b) -> S]
    BY <1>1, LenProperties, Zenon
  <1>3. a \o b \in [1..(Len(a) + Len(b)) -> S]
    BY <1>1, <1>2, Zenon
  <1> QED
    BY <1>1, <1>3, Zenon

\* What InsertAt makes.
LEMMA Inserted ==
    ASSUME NEW S, NEW s \in Seq(S), NEW i \in 1..(Len(s) + 1), NEW x \in S
    PROVE  /\ InsertAt(s, i, x) \in Seq(S) /\ Len(InsertAt(s, i, x)) = Len(s) + 1
           /\ \A j \in 1..(Len(s) + 1) : InsertAt(s, i, x)[j] =
                 IF j < i THEN s[j] ELSE IF j = i THEN x ELSE s[j - 1]
  <1> DEFINE a == SubSeq(s, 1, i - 1)
             b == SubSeq(s, i, Len(s))
             r == [j \in 1..(Len(s) + 1) |->
                      IF j < i THEN s[j] ELSE IF j = i THEN x ELSE s[j - 1]]
  <1>0. Len(s) \in Nat /\ i \in Nat
    OBVIOUS
  <1>1. a \in Seq(S) /\ Len(a) = i - 1 /\ \A j \in 1..(i - 1) : a[j] = s[j]
    BY <1>0
  <1>2. b \in Seq(S) /\ Len(b) = Len(s) - i + 1 /\ \A j \in 1..(Len(s) - i + 1) : b[j] = s[i + j - 1]
    BY <1>0
  <1>3. <<x>> \in Seq(S) /\ Len(<<x>>) = 1 /\ <<x>>[1] = x
    OBVIOUS
  <1> HIDE DEF a, b
  <1> DEFINE c == a \o <<x>>
  <1>4. c \in Seq(S) /\ Len(c) = i /\ \A j \in 1..i : c[j] = IF j < i THEN s[j] ELSE x
    BY <1>0, <1>1, <1>3
  <1> HIDE DEF c
  <1> DEFINE d == c \o b
  <1>5. d \in Seq(S) /\ Len(d) = Len(s) + 1
    <2>1. d \in Seq(S) /\ Len(d) = Len(c) + Len(b)
      BY <1>2, <1>4, Concat, Zenon
    <2> QED
      BY <1>0, <1>2, <1>4, <2>1
  <1>6. ASSUME NEW j \in 1..(Len(s) + 1) PROVE d[j] = r[j]
    <2>1. CASE j <= i
      <3>1. d[j] = c[j]
        BY <1>0, <1>2, <1>4, <2>1
      <3> QED
        BY <1>0, <1>4, <2>1, <3>1
    <2>2. CASE ~(j <= i)
      <3>1. d[j] = b[j - i]
        BY <1>0, <1>2, <1>4, <2>2
      <3>2. j - i \in 1..(Len(s) - i + 1) /\ i + (j - i) - 1 = j - 1 /\ ~(j < i) /\ j # i
        BY <1>0, <2>2
      <3> QED
        BY <1>2, <3>1, <3>2
    <2> QED
      BY <2>1, <2>2
  <1>7. d = InsertAt(s, i, x)
    BY DEF InsertAt, a, b, c
  <1> HIDE DEF d
  <1> QED
    BY <1>5, <1>6, <1>7

\* What RemoveAt makes.
LEMMA Removed ==
    ASSUME NEW S, NEW s \in Seq(S), NEW i \in 1..Len(s)
    PROVE  /\ RemoveAt(s, i) \in Seq(S) /\ Len(RemoveAt(s, i)) = Len(s) - 1
           /\ \A j \in 1..(Len(s) - 1) : RemoveAt(s, i)[j] = IF j < i THEN s[j] ELSE s[j + 1]
  <1> DEFINE a == SubSeq(s, 1, i - 1)
             b == SubSeq(s, i + 1, Len(s))
             r == [j \in 1..(Len(s) - 1) |-> IF j < i THEN s[j] ELSE s[j + 1]]
  <1>0. Len(s) \in Nat /\ i \in Nat
    OBVIOUS
  <1>1. a \in Seq(S) /\ Len(a) = i - 1 /\ \A j \in 1..(i - 1) : a[j] = s[j]
    BY <1>0
  <1>2. b \in Seq(S) /\ Len(b) = Len(s) - i /\ \A j \in 1..(Len(s) - i) : b[j] = s[i + j]
    BY <1>0
  <1> HIDE DEF a, b
  <1> DEFINE d == a \o b
  <1>5. d \in Seq(S) /\ Len(d) = Len(s) - 1
    <2>1. d \in Seq(S) /\ Len(d) = Len(a) + Len(b)
      BY <1>1, <1>2, Concat, Zenon
    <2> QED
      BY <1>0, <1>1, <1>2, <2>1
  <1>6. ASSUME NEW j \in 1..(Len(s) - 1) PROVE d[j] = r[j]
    <2>1. CASE j < i
      <3>1. d[j] = a[j]
        BY <1>0, <1>1, <1>2, <2>1
      <3> QED
        BY <1>0, <1>1, <2>1, <3>1
    <2>2. CASE ~(j < i)
      <3>1. d[j] = b[j - (i - 1)]
        BY <1>0, <1>1, <1>2, <2>2
      <3>2. j - (i - 1) \in 1..(Len(s) - i) /\ i + (j - (i - 1)) = j + 1
        BY <1>0, <2>2
      <3> QED
        BY <1>2, <2>2, <3>1, <3>2
    <2> QED
      BY <2>1, <2>2
  <1>7. d = RemoveAt(s, i)
    BY DEF RemoveAt, a, b
  <1> HIDE DEF d
  <1> QED
    BY <1>5, <1>6, <1>7

\* A place in an array has one index.
LEMMA Positions ==
    ASSUME NEW seg, NEW n \in Nat, InRange(seg, n)
    PROVE  /\ Position(seg) \in 1..n /\ Position(seg) \in 1..Len(Index)
           /\ Index[Position(seg)] = seg
           /\ \A i \in 1..Len(Index) : Index[i] = seg => i = Position(seg)
  <1>1. PICK i \in 1..Len(Index) : i <= n /\ Index[i] = seg
    BY DEF InRange
  <1>2. Position(seg) \in 1..Len(Index) /\ Index[Position(seg)] = seg
    BY <1>1 DEF Position
  <1>3. \A j \in 1..Len(Index) : Index[j] = seg => j = Position(seg)
    BY <1>2, IndexAssumption
  <1> QED
    BY <1>1, <1>2, <1>3

\* An array or object made of values is one level of a document.
LEMMA ArrNode ==
    ASSUME NEW S, NEW s \in Seq(S), Missing \notin S
    PROVE  /\ Node(Arr(s)) /\ Arr(s).tag = "array" /\ Arr(s).seq = s /\ Arr(s) # Missing
  <1>1. Arr(s).tag = "array" /\ Arr(s).seq = s /\ Arr(s) # Missing
    BY DEF Arr, Missing
  <1>2. s \in Seq(Range(s)) /\ Range(s) \subseteq S
    BY SeqOfRange, RangeOfSeq, Zenon
  <1> QED
    BY <1>1, <1>2 DEF Node

\* Likewise an object, its keys being finitely many segments.
LEMMA ObjNode ==
    ASSUME NEW D \in SUBSET Segment, IsFiniteSet(D), NEW f, f = [k \in D |-> f[k]],
           \A k \in D : f[k] # Missing
    PROVE  /\ Node(Obj(f)) /\ Obj(f).tag = "object" /\ Obj(f).map = f /\ Obj(f) # Missing
           /\ DOMAIN f = D
  <1>1. Obj(f).tag = "object" /\ Obj(f).map = f /\ Obj(f) # Missing
    BY DEF Obj, Missing
  <1>2. DOMAIN f = D
    OBVIOUS
  <1>3. Missing \notin Range(f)
    BY <1>2 DEF Range
  <1>4. f \in [D -> Range(f)]
    BY <1>2 DEF Range
  <1> QED
    BY <1>1, <1>2, <1>3, <1>4 DEF Node

\* What an array or object of a document is.
LEMMA NodeArr ==
    ASSUME NEW v, Node(v), v.tag = "array"
    PROVE  /\ v = Arr(v.seq) /\ v.seq \in Seq(Range(v.seq)) /\ Missing \notin Range(v.seq)
           /\ Len(v.seq) \in Nat /\ v # Missing
           /\ \A i \in 1..Len(v.seq) : v.seq[i] \in Range(v.seq) /\ v.seq[i] # Missing
  <1>1. v # Missing /\ v # Null /\ v.tag # "string" /\ v.tag # "object"
    BY DEF Missing, Null
  <1>2. v = Arr(v.seq) /\ v.seq \in Seq(Range(v.seq)) /\ Missing \notin Range(v.seq)
    BY <1>1 DEF Node
  <1>3. \A i \in 1..Len(v.seq) : v.seq[i] \in Range(v.seq)
    BY <1>2
  <1> QED
    BY <1>1, <1>2, <1>3

\* What one level of a document says of an object.
LEMMA NodeObj ==
    ASSUME NEW v, Node(v), v.tag = "object"
    PROVE  /\ v = Obj(v.map) /\ DOMAIN v.map \in SUBSET Segment /\ IsFiniteSet(DOMAIN v.map)
           /\ v.map = [k \in DOMAIN v.map |-> v.map[k]] /\ v # Missing
           /\ \A k \in DOMAIN v.map : v.map[k] # Missing
  <1>1. v # Missing /\ v # Null /\ v.tag # "string" /\ v.tag # "array"
    BY DEF Missing, Null
  <1>2. /\ v = Obj(v.map)
        /\ v.map \in [DOMAIN v.map -> Range(v.map)] /\ Missing \notin Range(v.map)
        /\ DOMAIN v.map \subseteq Segment /\ IsFiniteSet(DOMAIN v.map)
    BY <1>1 DEF Node
  <1>3. \A k \in DOMAIN v.map : v.map[k] \in Range(v.map)
    BY <1>2
  <1> QED
    BY <1>1, <1>2, <1>3

\* The child of an array, of an object, and of anything else.
LEMMA ChildArr ==
    ASSUME NEW v, v.tag = "array", NEW s
    PROVE  /\ InRange(s, Len(v.seq)) => Child(v, s) = v.seq[Position(s)]
           /\ ~InRange(s, Len(v.seq)) => Child(v, s) = Missing
  BY DEF Child

\* The children of an object are its members.
LEMMA ChildObj ==
    ASSUME NEW v, v.tag = "object", NEW s
    PROVE  /\ s \in DOMAIN v.map => Child(v, s) = v.map[s]
           /\ s \notin DOMAIN v.map => Child(v, s) = Missing
  BY DEF Child

\* Null and strings have no children.
LEMMA ChildOther ==
    ASSUME NEW v, v.tag # "object", v.tag # "array", NEW s
    PROVE  Child(v, s) = Missing
  BY DEF Child

\* Only arrays and objects have children.
LEMMA ChildHas ==
    ASSUME NEW v, NEW s, Child(v, s) # Missing
    PROVE  \/ v.tag = "array" /\ InRange(s, Len(v.seq)) /\ Child(v, s) = v.seq[Position(s)]
           \/ v.tag = "object" /\ s \in DOMAIN v.map /\ Child(v, s) = v.map[s]
  BY ChildArr, ChildObj, ChildOther

\* A place of an array is an index.
LEMMA RangePlace ==
    ASSUME NEW s, NEW i \in 1..Len(Index), Index[i] = s, NEW n \in Nat
    PROVE  /\ Position(s) = i /\ (InRange(s, n) <=> i <= n)
  <1>1. Len(Index) \in Nat /\ InRange(s, Len(Index))
    BY IndexAssumption DEF InRange
  <1>2. Position(s) = i
    BY <1>1, Positions
  <1>3. i <= n => InRange(s, n)
    BY DEF InRange
  <1>4. InRange(s, n) => i <= n
    <2> SUFFICES ASSUME InRange(s, n) PROVE i <= n
      OBVIOUS
    <2>1. Position(s) \in 1..n
      BY Positions
    <2> QED
      BY <1>2, <2>1
  <1> QED
    BY <1>2, <1>3, <1>4

\* A child replaced.
LEMMA WithChildFacts ==
    ASSUME NEW v, Node(v), NEW s \in Segment, Child(v, s) # Missing, NEW x, x # Missing
    PROVE  /\ Node(WithChild(v, s, x)) /\ WithChild(v, s, x) # Missing
           /\ WithChild(v, s, x).tag = v.tag
           /\ v.tag = "array" => Len(WithChild(v, s, x).seq) = Len(v.seq)
           /\ Child(WithChild(v, s, x), s) = x
           /\ \A q : q # s => Child(WithChild(v, s, x), q) = Child(v, q)
           /\ \A y : WithChild(WithChild(v, s, x), s, y) = WithChild(v, s, y)
           /\ WithChild(v, s, Child(v, s)) = v
  <1> DEFINE W == WithChild(v, s, x)
  <1>1. CASE v.tag = "array"
    <2> DEFINE S == Range(v.seq) \cup {x}
               w == [v.seq EXCEPT ![Position(s)] = x]
    <2>1. /\ v = Arr(v.seq) /\ v.seq \in Seq(Range(v.seq)) /\ Missing \notin Range(v.seq)
          /\ Len(v.seq) \in Nat
      BY <1>1, NodeArr
    <2>2. InRange(s, Len(v.seq)) /\ Child(v, s) = v.seq[Position(s)]
      BY <1>1, ChildHas
    <2>3. Position(s) \in 1..Len(v.seq) /\ Position(s) \in 1..Len(Index)
          /\ Index[Position(s)] = s
      BY <2>1, <2>2, Positions
    <2>4. v.seq \in Seq(S) /\ Missing \notin S /\ x \in S
      BY <2>1, SeqMonotonic, Zenon
    <2> HIDE DEF S
    <2>5. /\ w \in Seq(S) /\ Len(w) = Len(v.seq)
          /\ \A j \in 1..Len(v.seq) : w[j] = IF j = Position(s) THEN x ELSE v.seq[j]
      BY <2>3, <2>4, ExceptSeq
    <2>6. W = Arr(w)
      BY <1>1 DEF WithChild
    <2>w. \A y : [w EXCEPT ![Position(s)] = y] = [v.seq EXCEPT ![Position(s)] = y]
      BY <2>1, <2>3
    <2>v. [v.seq EXCEPT ![Position(s)] = v.seq[Position(s)]] = v.seq
      BY <2>1, <2>3
    <2> HIDE DEF w
    <2>7. Node(W) /\ W.tag = "array" /\ W.seq = w /\ W # Missing
      BY <2>4, <2>5, <2>6, ArrNode
    <2>8. Child(W, s) = x
      BY <2>2, <2>3, <2>5, <2>7, ChildArr
    <2>9. ASSUME NEW q, q # s PROVE Child(W, q) = Child(v, q)
      <3>1. CASE InRange(q, Len(v.seq))
        <4>1. Position(q) \in 1..Len(v.seq) /\ Index[Position(q)] = q
          BY <2>1, <3>1, Positions
        <4>2. Position(q) # Position(s)
          BY <2>3, <2>9, <4>1
        <4>3. Child(v, q) = v.seq[Position(q)]
          BY <1>1, <3>1, ChildArr
        <4>4. Child(W, q) = w[Position(q)]
          BY <2>5, <2>7, <3>1, ChildArr
        <4> QED
          BY <2>5, <4>1, <4>2, <4>3, <4>4
      <3>2. CASE ~InRange(q, Len(v.seq))
        BY <1>1, <2>5, <2>7, <3>2, ChildArr
      <3> QED
        BY <3>1, <3>2
    <2>10. ASSUME NEW y PROVE WithChild(W, s, y) = WithChild(v, s, y)
      BY <1>1, <2>7, <2>w DEF WithChild
    <2>11. WithChild(v, s, Child(v, s)) = v
      BY <1>1, <2>1, <2>2, <2>v DEF WithChild
    <2> QED
      BY <1>1, <2>5, <2>7, <2>8, <2>9, <2>10, <2>11
  <1>2. CASE v.tag = "object"
    <2> DEFINE w == [v.map EXCEPT ![s] = x]
    <2>1. /\ v = Obj(v.map) /\ DOMAIN v.map \in SUBSET Segment /\ IsFiniteSet(DOMAIN v.map)
          /\ v.map = [k \in DOMAIN v.map |-> v.map[k]]
          /\ \A k \in DOMAIN v.map : v.map[k] # Missing
      BY <1>2, NodeObj
    <2>2. s \in DOMAIN v.map /\ Child(v, s) = v.map[s]
      BY <1>2, ChildHas
    <2>5. /\ w = [k \in DOMAIN v.map |-> w[k]] /\ DOMAIN w = DOMAIN v.map
          /\ \A k \in DOMAIN v.map : w[k] = IF k = s THEN x ELSE v.map[k]
      BY <2>1, <2>2
    <2>6. W = Obj(w)
      BY <1>2 DEF WithChild
    <2>w. \A y : [w EXCEPT ![s] = y] = [v.map EXCEPT ![s] = y]
      BY <2>1, <2>2
    <2>v. [v.map EXCEPT ![s] = v.map[s]] = v.map
      BY <2>1, <2>2
    <2> HIDE DEF w
    <2>7. Node(W) /\ W.tag = "object" /\ W.map = w /\ W # Missing
      BY <2>1, <2>5, <2>6, ObjNode
    <2>8. Child(W, s) = x
      BY <2>2, <2>5, <2>7, ChildObj
    <2>9. ASSUME NEW q, q # s PROVE Child(W, q) = Child(v, q)
      BY <1>2, <2>5, <2>7, <2>9, ChildObj
    <2>10. ASSUME NEW y PROVE WithChild(W, s, y) = WithChild(v, s, y)
      BY <1>2, <2>7, <2>w DEF WithChild
    <2>11. WithChild(v, s, Child(v, s)) = v
      BY <1>2, <2>1, <2>2, <2>v DEF WithChild
    <2> QED
      BY <1>2, <2>5, <2>7, <2>8, <2>9, <2>10, <2>11
  <1> QED
    BY <1>1, <1>2, ChildHas

\* An element more: it is at its place, and taking it out again leaves the
\* array as it was.
LEMMA AddChildArr ==
    ASSUME NEW v, Node(v), v.tag = "array", NEW s, NEW x, x # Missing,
           AddChild(v, s, x) # Missing
    PROVE  /\ InRange(s, Len(v.seq) + 1)
           /\ Node(AddChild(v, s, x)) /\ AddChild(v, s, x).tag = "array"
           /\ AddChild(v, s, x).seq = InsertAt(v.seq, Position(s), x)
           /\ Len(AddChild(v, s, x).seq) = Len(v.seq) + 1
           /\ Child(AddChild(v, s, x), s) = x
           /\ DropChild(AddChild(v, s, x), s) = v
  <1> DEFINE S == Range(v.seq) \cup {x}
             n == Len(v.seq)
             i == Position(s)
             w == InsertAt(v.seq, i, x)
  <1>1. /\ v = Arr(v.seq) /\ v.seq \in Seq(Range(v.seq)) /\ Missing \notin Range(v.seq)
        /\ n \in Nat
    BY NodeArr
  <1>2. InRange(s, n + 1) /\ AddChild(v, s, x) = Arr(w)
    BY DEF AddChild
  <1>3. i \in 1..(n + 1)
    BY <1>1, <1>2, Positions
  <1>4. v.seq \in Seq(S) /\ Missing \notin S /\ x \in S
    BY <1>1, SeqMonotonic, Zenon
  <1> HIDE DEF S
  <1>5. /\ w \in Seq(S) /\ Len(w) = n + 1
        /\ \A j \in 1..(n + 1) : w[j] = IF j < i THEN v.seq[j] ELSE IF j = i THEN x ELSE v.seq[j - 1]
    BY <1>3, <1>4, Inserted
  <1> HIDE DEF w
  <1>6. Node(Arr(w)) /\ Arr(w).tag = "array" /\ Arr(w).seq = w
    BY <1>4, <1>5, ArrNode
  <1>7. Child(Arr(w), s) = x
    <2>1. Child(Arr(w), s) = w[i]
      BY <1>2, <1>5, <1>6, ChildArr
    <2> QED
      BY <1>3, <1>5, <2>1
  <1>8. RemoveAt(w, i) = v.seq
    <2>1. /\ RemoveAt(w, i) \in Seq(S) /\ Len(RemoveAt(w, i)) = Len(w) - 1
          /\ \A j \in 1..(Len(w) - 1) : RemoveAt(w, i)[j] = IF j < i THEN w[j] ELSE w[j + 1]
      <3>1. i \in 1..Len(w)
        BY <1>3, <1>5
      <3> QED
        BY <1>5, <3>1, Removed
    <2>2. Len(w) - 1 = n
      BY <1>1, <1>5
    <2>3. ASSUME NEW j \in 1..n PROVE (IF j < i THEN w[j] ELSE w[j + 1]) = v.seq[j]
      <3>1. j \in 1..(n + 1) /\ j + 1 \in 1..(n + 1) /\ (j + 1) - 1 = j
        BY <1>1
      <3>2. ~(j < i) => ~(j + 1 < i) /\ j + 1 # i
        BY <1>1, <1>3
      <3> QED
        BY <1>5, <3>1, <3>2
    <2>4. \A j \in 1..n : RemoveAt(w, i)[j] = v.seq[j]
      BY <2>1, <2>2, <2>3
    <2> QED
      BY <1>4, <2>1, <2>2, <2>4, SeqEqual
  <1>9. DropChild(Arr(w), s) = v
    BY <1>1, <1>6, <1>8 DEF DropChild
  <1> QED
    BY <1>2, <1>5, <1>6, <1>7, <1>9 DEF w

\* A member more, or one replaced.
LEMMA AddChildObj ==
    ASSUME NEW v, Node(v), v.tag = "object", NEW s \in Segment, NEW x, x # Missing
    PROVE  /\ Node(AddChild(v, s, x)) /\ AddChild(v, s, x).tag = "object"
           /\ AddChild(v, s, x) # Missing
           /\ Child(AddChild(v, s, x), s) = x
           /\ \A q : q # s => Child(AddChild(v, s, x), q) = Child(v, q)
           /\ Child(v, s) = Missing => DropChild(AddChild(v, s, x), s) = v
           /\ Child(v, s) # Missing => AddChild(AddChild(v, s, x), s, Child(v, s)) = v
  <1> DEFINE w == [k \in DOMAIN v.map \cup {s} |-> IF k = s THEN x ELSE v.map[k]]
  <1>1. /\ v = Obj(v.map) /\ DOMAIN v.map \in SUBSET Segment /\ IsFiniteSet(DOMAIN v.map)
        /\ v.map = [k \in DOMAIN v.map |-> v.map[k]]
        /\ \A k \in DOMAIN v.map : v.map[k] # Missing
    BY NodeObj
  <1>2. AddChild(v, s, x) = Obj(w)
    BY DEF AddChild
  <1>3. /\ w = [k \in DOMAIN v.map \cup {s} |-> w[k]] /\ DOMAIN w = DOMAIN v.map \cup {s}
        /\ \A k \in DOMAIN w : w[k] = IF k = s THEN x ELSE v.map[k]
    OBVIOUS
  <1>4. IsFiniteSet(DOMAIN v.map \cup {s}) /\ DOMAIN v.map \cup {s} \in SUBSET Segment
    BY <1>1, FS_AddElement
  <1> HIDE DEF w
  <1>5. Node(Obj(w)) /\ Obj(w).tag = "object" /\ Obj(w).map = w /\ Obj(w) # Missing
    <2>1. \A k \in DOMAIN v.map \cup {s} : w[k] # Missing
      BY <1>1, <1>3
    <2> QED
      BY <1>3, <1>4, <2>1, ObjNode
  <1>6. Child(Obj(w), s) = x
    BY <1>3, <1>5, ChildObj
  <1>7. ASSUME NEW q, q # s PROVE Child(Obj(w), q) = Child(v, q)
    BY <1>3, <1>5, <1>7, ChildObj
  <1>8. ASSUME Child(v, s) = Missing PROVE DropChild(Obj(w), s) = v
    <2>1. s \notin DOMAIN v.map
      BY <1>1, <1>8, ChildObj
    <2>2. [k \in DOMAIN w \ {s} |-> w[k]] = v.map
      BY <1>1, <1>3, <2>1
    <2> QED
      BY <1>1, <1>5, <2>2 DEF DropChild
  <1>9. ASSUME Child(v, s) # Missing PROVE AddChild(Obj(w), s, Child(v, s)) = v
    <2>1. s \in DOMAIN v.map /\ Child(v, s) = v.map[s]
      BY <1>9, ChildObj
    <2>2. [k \in DOMAIN w \cup {s} |-> IF k = s THEN v.map[s] ELSE w[k]] = v.map
      BY <1>1, <1>3, <2>1
    <2> QED
      BY <1>1, <1>5, <2>1, <2>2 DEF AddChild
  <1> QED
    BY <1>2, <1>5, <1>6, <1>7, <1>8, <1>9

\* What cannot have children gets none.
LEMMA AddChildOther ==
    ASSUME NEW v, NEW s, NEW x, AddChild(v, s, x) # Missing
    PROVE  v.tag = "array" \/ v.tag = "object"
  BY DEF AddChild

\* An element less: put back at its place it gives the array there was.
LEMMA DropChildArr ==
    ASSUME NEW v, Node(v), v.tag = "array", NEW s, Child(v, s) # Missing
    PROVE  /\ Node(DropChild(v, s)) /\ DropChild(v, s).tag = "array"
           /\ DropChild(v, s).seq = RemoveAt(v.seq, Position(s))
           /\ Len(DropChild(v, s).seq) = Len(v.seq) - 1
           /\ AddChild(DropChild(v, s), s, Child(v, s)) = v
  <1> DEFINE S == Range(v.seq)
             n == Len(v.seq)
             i == Position(s)
             w == RemoveAt(v.seq, i)
  <1>1. /\ v = Arr(v.seq) /\ v.seq \in Seq(S) /\ Missing \notin S
        /\ n \in Nat
    BY NodeArr
  <1>2. InRange(s, n) /\ Child(v, s) = v.seq[i]
    BY ChildHas
  <1>3. i \in 1..n
    BY <1>1, <1>2, Positions
  <1>d. DropChild(v, s) = Arr(w)
    BY DEF DropChild
  <1> HIDE DEF S
  <1>5. /\ w \in Seq(S) /\ Len(w) = n - 1
        /\ \A j \in 1..(n - 1) : w[j] = IF j < i THEN v.seq[j] ELSE v.seq[j + 1]
    BY <1>1, <1>3, Removed
  <1> HIDE DEF w
  <1>6. Node(Arr(w)) /\ Arr(w).tag = "array" /\ Arr(w).seq = w
    BY <1>1, <1>5, ArrNode
  <1>7. n - 1 \in Nat /\ (n - 1) + 1 = n /\ i \in 1..(Len(w) + 1) /\ v.seq[i] \in S
    BY <1>1, <1>3, <1>5
  <1>8. InsertAt(w, i, v.seq[i]) = v.seq
    <2>1. /\ InsertAt(w, i, v.seq[i]) \in Seq(S)
          /\ Len(InsertAt(w, i, v.seq[i])) = Len(w) + 1
          /\ \A j \in 1..(Len(w) + 1) : InsertAt(w, i, v.seq[i])[j] =
                IF j < i THEN w[j] ELSE IF j = i THEN v.seq[i] ELSE w[j - 1]
      <3>1. w \in Seq(S) /\ i \in 1..(Len(w) + 1) /\ v.seq[i] \in S
        BY <1>5, <1>7
      <3> DEFINE y == v.seq[i]
      <3>2. y \in S
        BY <3>1
      <3> HIDE DEF y, i
      <3>3. /\ InsertAt(w, i, y) \in Seq(S)
            /\ Len(InsertAt(w, i, y)) = Len(w) + 1
            /\ \A j \in 1..(Len(w) + 1) : InsertAt(w, i, y)[j] =
                  IF j < i THEN w[j] ELSE IF j = i THEN y ELSE w[j - 1]
        BY <3>1, <3>2, Inserted
      <3> QED
        BY <3>3 DEF y
    <2>2. Len(w) + 1 = n
      BY <1>1, <1>5
    <2>3. ASSUME NEW j \in 1..n
          PROVE  (IF j < i THEN w[j] ELSE IF j = i THEN v.seq[i] ELSE w[j - 1]) = v.seq[j]
      <3>1. j < i => j \in 1..(n - 1)
        BY <1>1, <1>3
      <3>2. ~(j < i) /\ j # i => j - 1 \in 1..(n - 1) /\ ~(j - 1 < i) /\ (j - 1) + 1 = j
        BY <1>1, <1>3
      <3> QED
        BY <1>5, <3>1, <3>2
    <2>4. \A j \in 1..n : InsertAt(w, i, v.seq[i])[j] = v.seq[j]
      BY <2>1, <2>2, <2>3
    <2> QED
      BY <1>1, <2>1, <2>2, <2>4, SeqEqual
  <1>9. AddChild(Arr(w), s, v.seq[i]) = v
    <2>1. InRange(s, Len(w) + 1)
      BY <1>1, <1>2, <1>5
    <2> QED
      BY <1>1, <1>6, <1>8, <2>1 DEF AddChild
  <1> QED
    BY <1>2, <1>5, <1>6, <1>9, <1>d DEF w

\* A member less.
LEMMA DropChildObj ==
    ASSUME NEW v, Node(v), v.tag = "object", NEW s \in Segment, Child(v, s) # Missing
    PROVE  /\ Node(DropChild(v, s)) /\ DropChild(v, s).tag = "object"
           /\ Child(DropChild(v, s), s) = Missing
           /\ \A q : q # s => Child(DropChild(v, s), q) = Child(v, q)
           /\ AddChild(DropChild(v, s), s, Child(v, s)) = v
  <1> DEFINE w == [k \in DOMAIN v.map \ {s} |-> v.map[k]]
  <1>1. /\ v = Obj(v.map) /\ DOMAIN v.map \in SUBSET Segment /\ IsFiniteSet(DOMAIN v.map)
        /\ v.map = [k \in DOMAIN v.map |-> v.map[k]]
        /\ \A k \in DOMAIN v.map : v.map[k] # Missing
    BY NodeObj
  <1>2. DropChild(v, s) = Obj(w)
    BY DEF DropChild
  <1>3. /\ w = [k \in DOMAIN v.map \ {s} |-> w[k]] /\ DOMAIN w = DOMAIN v.map \ {s}
        /\ \A k \in DOMAIN w : w[k] = v.map[k]
    OBVIOUS
  <1>4. IsFiniteSet(DOMAIN v.map \ {s}) /\ DOMAIN v.map \ {s} \in SUBSET Segment
    BY <1>1, FS_RemoveElement
  <1>s. s \in DOMAIN v.map /\ Child(v, s) = v.map[s]
    BY ChildObj
  <1> HIDE DEF w
  <1>5. Node(Obj(w)) /\ Obj(w).tag = "object" /\ Obj(w).map = w
    <2>1. \A k \in DOMAIN v.map \ {s} : w[k] # Missing
      BY <1>1, <1>3
    <2> QED
      BY <1>3, <1>4, <2>1, ObjNode
  <1>6. Child(Obj(w), s) = Missing
    BY <1>3, <1>5, ChildObj
  <1>7. ASSUME NEW q, q # s PROVE Child(Obj(w), q) = Child(v, q)
    BY <1>3, <1>5, <1>7, ChildObj
  <1>9. AddChild(Obj(w), s, v.map[s]) = v
    <2>2. [k \in DOMAIN w \cup {s} |-> IF k = s THEN v.map[s] ELSE w[k]] = v.map
      BY <1>1, <1>3, <1>s
    <2> QED
      BY <1>1, <1>5, <2>2 DEF AddChild
  <1> QED
    BY <1>2, <1>5, <1>6, <1>7, <1>9, <1>s

(***************************************************************************)
(* Update.                                                                 *)
(***************************************************************************)
\* The equation of the function in Update, on 0..m.
Lifts(f, v, p, x, m) ==
    f = [n \in 0..m |-> IF n = 0 THEN x ELSE WithChild(Get(v, SubSeq(p, 1, Len(p) - n)), p[Len(p) - n + 1], f[n - 1])]

\* The equation has a solution, of any length.
LEMMA LiftExists ==
    ASSUME NEW v, NEW p, NEW x
    PROVE  \A m \in Nat : \E f : Lifts(f, v, p, x, m)
  <1> DEFINE S == {m \in Nat : \E f : Lifts(f, v, p, x, m)}
  <1>1. 0 \in S
    <2> DEFINE f == [n \in 0..0 |-> x]
    <2>1. Lifts(f, v, p, x, 0)
      BY DEF Lifts
    <2> QED
      BY <2>1
  <1>2. ASSUME NEW m \in Nat, m \in S PROVE m + 1 \in S
    <2>1. PICK f : Lifts(f, v, p, x, m)
      BY <1>2
    <2> DEFINE last == WithChild(Get(v, SubSeq(p, 1, Len(p) - (m + 1))), p[Len(p) - (m + 1) + 1], f[m])
               g == [n \in 0..(m + 1) |-> IF n = m + 1 THEN last ELSE f[n]]
    <2>2. \A n \in 0..m : f[n] = IF n = 0 THEN x ELSE WithChild(Get(v, SubSeq(p, 1, Len(p) - n)), p[Len(p) - n + 1], f[n - 1])
      BY <2>1 DEF Lifts
    <2>3. ASSUME NEW n \in 0..(m + 1)
          PROVE  g[n] = IF n = 0 THEN x ELSE WithChild(Get(v, SubSeq(p, 1, Len(p) - n)), p[Len(p) - n + 1], g[n - 1])
      <3>1. CASE n = m + 1
        <4>1. g[n] = WithChild(Get(v, SubSeq(p, 1, Len(p) - n)), p[Len(p) - n + 1], f[m]) /\ n # 0 /\ n - 1 = m
          BY <3>1
        <4>2. m \in 0..(m + 1) /\ m # m + 1
          OBVIOUS
        <4>3. g[m] = f[m]
          BY <4>2
        <4> QED
          BY <4>1, <4>3
      <3>2. CASE n # m + 1
        <4>1. n \in 0..m /\ g[n] = f[n]
          BY <3>2
        <4>2. n # 0 => g[n - 1] = f[n - 1]
          BY <4>1
        <4> QED
          BY <2>2, <4>1, <4>2
      <3> QED
        BY <3>1, <3>2
    <2>4. Lifts(g, v, p, x, m + 1)
      <3>1. g = [n \in 0..(m + 1) |-> g[n]]
        OBVIOUS
      <3> HIDE DEF g
      <3> QED
        BY <2>3, <3>1 DEF Lifts
    <2> QED
      BY <2>4
  <1> HIDE DEF S
  <1>3. \A m \in Nat : m \in S
    BY <1>1, <1>2, SetInduction
  <1> QED
    BY <1>3 DEF S

\* Update is the end of it.
LEMMA UpdateLifts ==
    ASSUME NEW v, NEW p \in Pointer, NEW x
    PROVE  \E f : Lifts(f, v, p, x, Len(p)) /\ Update(v, p, x) = f[Len(p)]
  <1> DEFINE up == CHOOSE f : f = [n \in 0..Len(p) |->
                                      IF n = 0 THEN x
                                      ELSE WithChild(Get(v, SubSeq(p, 1, Len(p) - n)),
                                                     p[Len(p) - n + 1], f[n - 1])]
  <1>1. \E f : f = [n \in 0..Len(p) |->
                       IF n = 0 THEN x
                       ELSE WithChild(Get(v, SubSeq(p, 1, Len(p) - n)),
                                      p[Len(p) - n + 1], f[n - 1])]
    <2>1. Len(p) \in Nat
      BY DEF Pointer
    <2>2. PICK f : Lifts(f, v, p, x, Len(p))
      BY <2>1, LiftExists
    <2> QED
      BY <2>2 DEF Lifts
  <1>2. up = [n \in 0..Len(p) |-> IF n = 0 THEN x
                                  ELSE WithChild(Get(v, SubSeq(p, 1, Len(p) - n)),
                                                 p[Len(p) - n + 1], up[n - 1])]
    BY <1>1
  <1>3. Update(v, p, x) = up[Len(p)]
    BY DEF Update
  <1> HIDE DEF up
  <1> QED
    BY <1>2, <1>3 DEF Lifts

\* At the empty pointer all is replaced.
LEMMA UpdateNil ==
    ASSUME NEW v, NEW x
    PROVE  Update(v, <<>>, x) = x
  <1>1. <<>> \in Pointer /\ Len(<<>>) = 0
    BY DEF Pointer
  <1>2. PICK f : Lifts(f, v, <<>>, x, 0) /\ Update(v, <<>>, x) = f[0]
    BY <1>1, UpdateLifts
  <1> QED
    BY <1>2 DEF Lifts

\* The start of a pointer, by its first segment.
LEMMA StartCons ==
    ASSUME NEW p \in Pointer, p # <<>>, NEW k \in 0..(Len(p) - 1)
    PROVE  /\ SubSeq(p, 1, k + 1) \in Pointer /\ SubSeq(p, 1, k + 1) # <<>>
           /\ Head(SubSeq(p, 1, k + 1)) = Head(p)
           /\ Tail(SubSeq(p, 1, k + 1)) = SubSeq(Tail(p), 1, k)
  <1>1. p \in Seq(Segment) /\ Len(p) \in Nat /\ k \in Nat /\ k + 1 <= Len(p)
    BY DEF Pointer
  <1>2. /\ Tail(p) \in Seq(Segment) /\ Len(Tail(p)) = Len(p) - 1
        /\ Head(p) = p[1] /\ \A i \in 1..(Len(p) - 1) : Tail(p)[i] = p[i + 1]
    BY HeadTail DEF Pointer
  <1> DEFINE a == SubSeq(p, 1, k + 1)
             b == SubSeq(Tail(p), 1, k)
  <1>3. a \in Seq(Segment) /\ Len(a) = k + 1 /\ \A i \in 1..(k + 1) : a[i] = p[i]
    BY <1>1
  <1>4. b \in Seq(Segment) /\ Len(b) = k /\ \A i \in 1..k : b[i] = Tail(p)[i]
    BY <1>1, <1>2
  <1> HIDE DEF a, b
  <1>5. a # <<>> /\ Head(a) = p[1]
    BY <1>1, <1>3
  <1>6. Tail(a) \in Seq(Segment) /\ Len(Tail(a)) = k /\ \A i \in 1..k : Tail(a)[i] = p[i + 1]
    BY <1>1, <1>3, <1>5
  <1>7. \A i \in 1..k : Tail(a)[i] = b[i]
    <2> TAKE i \in 1..k
    <2>1. i \in 1..(Len(p) - 1)
      BY <1>1
    <2> QED
      BY <1>2, <1>4, <1>6, <2>1
  <1>8. Tail(a) = b
    BY <1>4, <1>6, <1>7, SeqEqual
  <1> QED
    BY <1>2, <1>3, <1>5, <1>8 DEF a, b, Pointer

\* A step of it.
LEMMA UpdateCons ==
    ASSUME NEW v, NEW p \in Pointer, p # <<>>, NEW x
    PROVE  Update(v, p, x) = WithChild(v, Head(p), Update(Child(v, Head(p)), Tail(p), x))
  <1> DEFINE N == Len(p) - 1
             c == Child(v, Head(p))
  <1>1. /\ N \in Nat /\ Len(p) = N + 1 /\ Tail(p) \in Pointer /\ Len(Tail(p)) = N
        /\ Head(p) = p[1] /\ \A i \in 1..N : Tail(p)[i] = p[i + 1]
    BY HeadTail
  <1>2. PICK f : Lifts(f, v, p, x, N + 1) /\ Update(v, p, x) = f[N + 1]
    <2>1. PICK f : Lifts(f, v, p, x, Len(p)) /\ Update(v, p, x) = f[Len(p)]
      BY UpdateLifts, Zenon
    <2> QED
      BY <1>1, <2>1, Zenon
  <1>3. PICK g : Lifts(g, c, Tail(p), x, N) /\ Update(c, Tail(p), x) = g[N]
    <2>1. PICK g : Lifts(g, c, Tail(p), x, Len(Tail(p))) /\ Update(c, Tail(p), x) = g[Len(Tail(p))]
      BY <1>1, UpdateLifts, Zenon
    <2> QED
      BY <1>1, <2>1, Zenon
  <1>s. \A k \in 0..N : Get(v, SubSeq(p, 1, k + 1)) = Get(c, SubSeq(Tail(p), 1, k))
    <2> TAKE k \in 0..N
    <2>1. /\ SubSeq(p, 1, k + 1) \in Pointer /\ SubSeq(p, 1, k + 1) # <<>>
          /\ Head(SubSeq(p, 1, k + 1)) = Head(p)
          /\ Tail(SubSeq(p, 1, k + 1)) = SubSeq(Tail(p), 1, k)
      BY StartCons
    <2> QED
      BY <2>1, GetCons, Zenon
  <1> HIDE DEF N, c
  <1>f. \A n \in 0..(N + 1) : f[n] = IF n = 0 THEN x ELSE
            WithChild(Get(v, SubSeq(p, 1, N + 1 - n)), p[N + 1 - n + 1], f[n - 1])
    BY <1>1, <1>2 DEF Lifts
  <1>g. \A n \in 0..N : g[n] = IF n = 0 THEN x ELSE
            WithChild(Get(c, SubSeq(Tail(p), 1, N - n)), Tail(p)[N - n + 1], g[n - 1])
    BY <1>1, <1>3 DEF Lifts
  <1> DEFINE S == {n \in Nat : n <= N => f[n] = g[n]}
  <1>4. 0 \in S
    BY <1>1, <1>f, <1>g
  <1>5. ASSUME NEW n \in Nat, n \in S PROVE n + 1 \in S
    <2> SUFFICES ASSUME n + 1 <= N PROVE f[n + 1] = g[n + 1]
      OBVIOUS
    <2> DEFINE k == N - (n + 1)
    <2>1. f[n] = g[n]
      BY <1>1, <1>5
    <2>2. /\ k \in 0..N /\ k + 1 \in 1..N /\ N + 1 - (n + 1) = k + 1
          /\ n + 1 \in 0..N /\ n + 1 \in 0..(N + 1) /\ n + 1 # 0 /\ (n + 1) - 1 = n
      BY <1>1
    <2>3. f[n + 1] = WithChild(Get(v, SubSeq(p, 1, k + 1)), p[k + 1 + 1], f[n])
      BY <1>f, <2>2
    <2>4. g[n + 1] = WithChild(Get(c, SubSeq(Tail(p), 1, k)), Tail(p)[k + 1], g[n])
      BY <1>g, <2>2
    <2> HIDE DEF k
    <2>5. Tail(p)[k + 1] = p[k + 1 + 1]
      BY <1>1, <2>2
    <2>6. Get(v, SubSeq(p, 1, k + 1)) = Get(c, SubSeq(Tail(p), 1, k))
      BY <1>s, <2>2
    <2> QED
      BY <2>1, <2>3, <2>4, <2>5, <2>6
  <1> HIDE DEF S
  <1>6. N \in S
    BY <1>1, <1>4, <1>5, SetInduction
  <1>7. f[N] = g[N]
    BY <1>1, <1>6 DEF S
  <1>8. f[N + 1] = WithChild(Get(v, SubSeq(p, 1, 0)), p[1], f[N])
    <2>1. N + 1 \in 0..(N + 1) /\ N + 1 # 0 /\ N + 1 - (N + 1) = 0 /\ (N + 1) - 1 = N
      BY <1>1
    <2>2. f[N + 1] = WithChild(Get(v, SubSeq(p, 1, N + 1 - (N + 1))), p[N + 1 - (N + 1) + 1],
                               f[(N + 1) - 1])
      BY <1>f, <2>1
    <2> QED
      BY <2>1, <2>2
  <1>9. Get(v, SubSeq(p, 1, 0)) = v
    <2>1. SubSeq(p, 1, 0) = <<>>
      BY SubSeqEmpty
    <2> QED
      BY <2>1, GetNil
  <1> QED
    BY <1>1, <1>2, <1>3, <1>7, <1>8, <1>9 DEF c

\* At a pointer in two parts.
LEMMA UpdateConcat ==
    \A p \in Pointer : \A v, x : \A q \in Pointer :
        Update(v, p \o q, x) = Update(v, p, Update(Get(v, p), q, x))
  <1> DEFINE S == {n \in Nat : \A p \in Pointer : Len(p) = n => \A v, x : \A q \in Pointer :
                      Update(v, p \o q, x) = Update(v, p, Update(Get(v, p), q, x))}
  <1>1. 0 \in S
    <2> SUFFICES ASSUME NEW p \in Pointer, Len(p) = 0, NEW v, NEW x, NEW q \in Pointer
                 PROVE  Update(v, p \o q, x) = Update(v, p, Update(Get(v, p), q, x))
      OBVIOUS
    <2>1. p = <<>>
      BY DEF Pointer
    <2> QED
      BY <2>1, ConcatNothing, GetNil, UpdateNil
  <1>2. ASSUME NEW n \in Nat, n \in S PROVE n + 1 \in S
    <2> SUFFICES ASSUME NEW p \in Pointer, Len(p) = n + 1, NEW v, NEW x, NEW q \in Pointer
                 PROVE  Update(v, p \o q, x) = Update(v, p, Update(Get(v, p), q, x))
      OBVIOUS
    <2> DEFINE c == Child(v, Head(p))
               y == Update(Get(v, p), q, x)
    <2>1. p # <<>>
      BY DEF Pointer
    <2>2. Tail(p) \in Pointer /\ Len(Tail(p)) = n
      BY <2>1, HeadTail
    <2>3. Update(v, p \o q, x) = WithChild(v, Head(p), Update(c, Tail(p) \o q, x))
      <3>1. /\ p \o q \in Pointer /\ p \o q # <<>>
            /\ Head(p \o q) = Head(p) /\ Tail(p \o q) = Tail(p) \o q
        BY <2>1, ConcatHeadTail, Zenon
      <3>2. Update(v, p \o q, x) =
                WithChild(v, Head(p \o q), Update(Child(v, Head(p \o q)), Tail(p \o q), x))
        BY <3>1, UpdateCons, Zenon
      <3> QED
        BY <3>1, <3>2, Zenon
    <2>4. Get(v, p) = Get(c, Tail(p))
      BY <2>1, GetCons
    <2>5. Update(v, p, y) = WithChild(v, Head(p), Update(c, Tail(p), y))
      BY <2>1, UpdateCons, Zenon
    <2>h. \A r \in Pointer : Len(r) = n => \A w, z : \A s \in Pointer :
              Update(w, r \o s, z) = Update(w, r, Update(Get(w, r), s, z))
      BY <1>2
    <2>6. Update(c, Tail(p) \o q, x) = Update(c, Tail(p), Update(Get(c, Tail(p)), q, x))
      <3> HIDE DEF c, S
      <3>1. \A w, z : \A s \in Pointer :
                Update(w, Tail(p) \o s, z) = Update(w, Tail(p), Update(Get(w, Tail(p)), s, z))
        BY <2>2, <2>h, Zenon
      <3> QED
        BY <3>1, Zenon
    <2> QED
      BY <2>3, <2>4, <2>5, <2>6
  <1> HIDE DEF S
  <1>3. \A n \in Nat : n \in S
    BY <1>1, <1>2, SetInduction
  <1>4. \A p \in Pointer : Len(p) \in S
    BY <1>3 DEF Pointer
  <1> QED
    BY <1>4 DEF S

(***************************************************************************)
(* Documents that every array of which can be indexed.                     *)
(***************************************************************************)
Shape(v) == Node(v) /\ (v.tag = "array" => Len(v.seq) <= Len(Index))
Shaped(v) == \A p \in Pointer : Shape(Get(v, p))

\* There is nothing in what is missing.
LEMMA GetMissing ==
    \A p \in Pointer : Get(Missing, p) = Missing
  <1> DEFINE S == {n \in Nat : \A p \in Pointer : Len(p) = n => Get(Missing, p) = Missing}
  <1>1. 0 \in S
    <2> SUFFICES ASSUME NEW p \in Pointer, Len(p) = 0 PROVE Get(Missing, p) = Missing
      OBVIOUS
    <2>1. p = <<>>
      BY DEF Pointer
    <2> QED
      BY <2>1, GetNil
  <1>2. ASSUME NEW n \in Nat, n \in S PROVE n + 1 \in S
    <2> SUFFICES ASSUME NEW p \in Pointer, Len(p) = n + 1 PROVE Get(Missing, p) = Missing
      OBVIOUS
    <2>1. p # <<>>
      BY DEF Pointer
    <2>2. Tail(p) \in Pointer /\ Len(Tail(p)) = n
      BY <2>1, HeadTail
    <2>3. Child(Missing, Head(p)) = Missing
      BY DEF Child, Missing
    <2>4. Get(Missing, p) = Get(Missing, Tail(p))
      BY <2>1, <2>3, GetCons
    <2> QED
      BY <1>2, <2>2, <2>4
  <1> HIDE DEF S
  <1>3. \A n \in Nat : n \in S
    BY <1>1, <1>2, SetInduction
  <1>4. \A p \in Pointer : Len(p) \in S
    BY <1>3 DEF Pointer
  <1> QED
    BY <1>4 DEF S

\* One segment.
LEMMA GetOne ==
    ASSUME NEW s \in Segment
    PROVE  <<s>> \in Pointer /\ <<s>> # <<>> /\ \A v : Get(v, <<s>>) = Child(v, s)
  <1>1. <<s>> \in Pointer /\ <<s>> # <<>> /\ Head(<<s>>) = s /\ Tail(<<s>>) = <<>>
    BY DEF Pointer
  <1>2. \A v : Get(v, <<s>>) = Get(Child(v, s), <<>>)
    BY <1>1, GetCons
  <1> QED
    BY <1>1, <1>2, GetNil

\* What is in a shaped document is shaped.
LEMMA ShapedGet ==
    ASSUME NEW v, Shaped(v), NEW p \in Pointer
    PROVE  Shaped(Get(v, p)) /\ Shape(Get(v, p)) /\ Node(Get(v, p))
  <1>1. \A q \in Pointer : p \o q \in Pointer
    BY DEF Pointer
  <1> QED
    BY <1>1, GetConcat DEF Shaped, Shape

\* So are its top level and its children.
LEMMA ShapedTop ==
    ASSUME NEW v, Shaped(v)
    PROVE  Shape(v) /\ Node(v) /\ \A s \in Segment : Shaped(Child(v, s))
  <1>0. <<>> \in Pointer
    BY DEF Pointer
  <1>1. Shape(v) /\ Node(v)
    BY <1>0, GetNil DEF Shaped, Shape
  <1>2. \A s \in Segment : Shaped(Child(v, s))
    BY GetOne, ShapedGet
  <1> QED
    BY <1>1, <1>2

\* What is missing is shaped: there is nothing in it.
LEMMA ShapedMissing ==
    Shaped(Missing)
  <1>1. Shape(Missing)
    BY DEF Shape, Node, Missing
  <1> QED
    BY <1>1, GetMissing DEF Shaped

\* A level with shaped children is shaped.
LEMMA ShapedCons ==
    ASSUME NEW v, Shape(v), \A s \in Segment : Shaped(Child(v, s))
    PROVE  Shaped(v)
  <1> SUFFICES ASSUME NEW p \in Pointer PROVE Shape(Get(v, p))
    BY DEF Shaped
  <1>1. CASE p = <<>>
    BY <1>1, GetNil
  <1>2. CASE p # <<>>
    <2>1. Head(p) \in Segment /\ Tail(p) \in Pointer
      BY <1>2, HeadTail
    <2>2. Get(v, p) = Get(Child(v, Head(p)), Tail(p))
      BY <1>2, GetCons
    <2> QED
      BY <2>1, <2>2 DEF Shaped
  <1> QED
    BY <1>1, <1>2

(***************************************************************************)
(* What Update does to a document that has something at the pointer.       *)
(***************************************************************************)
Updates(v, p, x) ==
    /\ Update(v, p, x) # Missing
    /\ Get(Update(v, p, x), p) = x
    /\ Shaped(x) => Shaped(Update(v, p, x))
    /\ \A y : Update(Update(v, p, x), p, y) = Update(v, p, y)
    /\ Update(v, p, Get(v, p)) = v

\* What is written is read back, the last writing counts, and writing what
\* is there changes nothing.
LEMMA UpdateFacts ==
    \A p \in Pointer : \A v, x :
        Shaped(v) /\ Get(v, p) # Missing /\ x # Missing => Updates(v, p, x)
  <1> DEFINE S == {n \in Nat : \A p \in Pointer : Len(p) = n => \A v, x :
                      Shaped(v) /\ Get(v, p) # Missing /\ x # Missing => Updates(v, p, x)}
  <1>1. 0 \in S
    <2> SUFFICES ASSUME NEW p \in Pointer, Len(p) = 0, NEW v, NEW x, x # Missing
                 PROVE  Updates(v, p, x)
      OBVIOUS
    <2>1. p = <<>>
      BY DEF Pointer
    <2> QED
      BY <2>1, GetNil, UpdateNil DEF Updates
  <1>2. ASSUME NEW n \in Nat, n \in S PROVE n + 1 \in S
    <2> SUFFICES ASSUME NEW p \in Pointer, Len(p) = n + 1, NEW v, NEW x, Shaped(v),
                        Get(v, p) # Missing, x # Missing
                 PROVE  Updates(v, p, x)
      OBVIOUS
    <2> DEFINE h == Head(p)
               q == Tail(p)
               c == Child(v, h)
               u == Update(c, q, x)
               U == WithChild(v, h, u)
    <2>1. p # <<>>
      BY DEF Pointer
    <2>2. q \in Pointer /\ Len(q) = n /\ h \in Segment
      BY <2>1, HeadTail
    <2>3. Get(v, p) = Get(c, q) /\ Get(U, p) = Get(Child(U, h), q)
      BY <2>1, GetCons, Zenon
    <2>4. c # Missing
      BY <2>2, <2>3, GetMissing
    <2>5. Shaped(c) /\ Shape(v) /\ Node(v)
      BY <2>2, ShapedTop
    <2>h. \A r \in Pointer : Len(r) = n => \A w, z :
              Shaped(w) /\ Get(w, r) # Missing /\ z # Missing => Updates(w, r, z)
      BY <1>2
    <2>6. Updates(c, q, x)
      <3> HIDE DEF c, q, S
      <3> QED
        BY <2>2, <2>3, <2>5, <2>h, Zenon
    <2>7. \A y : Update(v, p, y) = WithChild(v, h, Update(c, q, y))
      BY <2>1, UpdateCons, Zenon
    <2>8. \A y : Update(U, p, y) = WithChild(U, h, Update(Child(U, h), q, y))
      BY <2>1, UpdateCons, Zenon
    <2> HIDE DEF S, h, q
    <2>9. u # Missing /\ Get(u, q) = x /\ (Shaped(x) => Shaped(u)) /\ Update(c, q, Get(c, q)) = c
          /\ \A y : Update(u, q, y) = Update(c, q, y)
      BY <2>6 DEF Updates
    <2> HIDE DEF c
    <2>c. c = Child(v, h)
      BY DEF c
    <2> HIDE DEF u
    <2>10. /\ Node(U) /\ U # Missing /\ U.tag = v.tag
           /\ v.tag = "array" => Len(U.seq) = Len(v.seq)
           /\ Child(U, h) = u
           /\ \A r : r # h => Child(U, r) = Child(v, r)
           /\ \A y : WithChild(U, h, y) = WithChild(v, h, y)
           /\ WithChild(v, h, c) = v
      BY <2>2, <2>4, <2>5, <2>9, <2>c, WithChildFacts
    <2>11. Update(v, p, x) = U
      BY <2>7 DEF u
    <2> HIDE DEF U
    <2>12. Get(U, p) = x
      BY <2>3, <2>9, <2>10
    <2>13. ASSUME NEW y PROVE Update(U, p, y) = Update(v, p, y)
      BY <2>7, <2>8, <2>9, <2>10
    <2>14. Update(v, p, Get(v, p)) = v
      BY <2>3, <2>7, <2>9, <2>10
    <2>15. ASSUME Shaped(x) PROVE Shaped(U)
      <3>1. Shape(U)
        BY <2>5, <2>10 DEF Shape
      <3>2. ASSUME NEW s \in Segment PROVE Shaped(Child(U, s))
        <4>1. CASE s = h
          BY <2>9, <2>10, <2>15, <4>1
        <4>2. CASE s # h
          BY <2>10, <4>2, ShapedTop
        <4> QED
          BY <4>1, <4>2
      <3> QED
        BY <3>1, <3>2, ShapedCons
    <2> QED
      BY <2>10, <2>11, <2>12, <2>13, <2>14, <2>15 DEF Updates
  <1> HIDE DEF S
  <1>3. \A n \in Nat : n \in S
    BY <1>1, <1>2, SetInduction
  <1>4. \A p \in Pointer : Len(p) \in S
    BY <1>3 DEF Pointer
  <1> QED
    BY <1>4 DEF S

(***************************************************************************)
(* Pointers apart.                                                         *)
(***************************************************************************)

\* Two pointers with one head and one tail are one.
LEMMA ConsEqual ==
    ASSUME NEW p \in Pointer, NEW q \in Pointer, p # <<>>, q # <<>>,
           Head(p) = Head(q), Tail(p) = Tail(q)
    PROVE  p = q
  <1>1. /\ Len(p) \in Nat /\ Len(Tail(p)) = Len(p) - 1 /\ Len(p) > 0 /\ Head(p) = p[1]
        /\ \A i \in 1..(Len(p) - 1) : Tail(p)[i] = p[i + 1]
    BY HeadTail, Zenon
  <1>q. /\ Len(q) \in Nat /\ Len(Tail(q)) = Len(q) - 1 /\ Len(q) > 0 /\ Head(q) = q[1]
        /\ \A i \in 1..(Len(q) - 1) : Tail(q)[i] = q[i + 1]
    BY HeadTail, Zenon
  <1>2. Len(p) = Len(q)
    <2> DEFINE a == Len(Tail(p))
               m == Len(p)
               n == Len(q)
    <2>1. m \in Nat /\ n \in Nat /\ a = m - 1 /\ a = n - 1
      BY <1>1, <1>q, Zenon
    <2> HIDE DEF a, m, n
    <2>2. m = n
      BY <2>1
    <2> QED
      BY <2>2 DEF m, n
  <1>3. ASSUME NEW i \in 1..Len(p) PROVE p[i] = q[i]
    <2>1. CASE i = 1
      BY <1>1, <1>q, <2>1
    <2>2. CASE i # 1
      <3>1. i - 1 \in 1..(Len(p) - 1) /\ (i - 1) + 1 = i
        BY <1>1, <2>2
      <3> QED
        BY <1>1, <1>q, <1>2, <3>1
    <2> QED
      BY <2>1, <2>2, SMTT(40)
  <1> QED
    BY <1>2, <1>3, SeqEqual DEF Pointer

\* One pointer is at or below another if it goes on where that ends.
LEMMA PrefixConcat ==
    ASSUME NEW p \in Pointer, NEW q \in Pointer
    PROVE  /\ IsPrefix(p, q) => Below(q, p) \in Pointer /\ q = p \o Below(q, p)
           /\ \A r \in Pointer : q = p \o r => IsPrefix(p, q) /\ Below(q, p) = r
  <1> DEFINE m == Len(p)
             n == Len(q)
             b == SubSeq(q, m + 1, n)
  <1>1. p \in Seq(Segment) /\ q \in Seq(Segment) /\ m \in Nat /\ n \in Nat
    BY DEF Pointer
  <1>2. SubSeq(p, 1, m) = p
    BY <1>1, SubSeqFull, ZenonT(40)
  <1>3. ASSUME IsPrefix(p, q) PROVE b \in Pointer /\ q = p \o b
    <2>1. m <= n /\ p = SubSeq(q, 1, m)
      BY <1>2, <1>3 DEF IsPrefix
    <2>2. SubSeq(q, 1, m) \o SubSeq(q, m + 1, n) = SubSeq(q, 1, n)
      <3>1. 1 \in 1..(n + 1) /\ m \in (1 - 1)..n /\ n \in m..n
        BY <1>1, <2>1
      <3> QED
        BY <1>1, <3>1, ConcatAdjacentSubSeq, Zenon
    <2>3. SubSeq(q, 1, n) = q
      BY <1>1, SubSeqFull, Zenon
    <2>4. b \in Seq(Segment)
      BY <1>1, <2>1
    <2> QED
      BY <2>1, <2>2, <2>3, <2>4 DEF Pointer
  <1>4. ASSUME NEW r \in Pointer, q = p \o r PROVE IsPrefix(p, q) /\ b = r
    <2> DEFINE a == SubSeq(q, 1, m)
    <2>1. r \in Seq(Segment) /\ Len(r) \in Nat /\ n = m + Len(r)
      BY <1>1, <1>4 DEF Pointer
    <2>2. /\ \A i \in 1..m : q[i] = p[i]
          /\ \A i \in 1..Len(r) : q[m + i] = r[i]
      BY <1>1, <1>4, <2>1
    <2>3. a \in Seq(Segment) /\ Len(a) = m /\ \A i \in 1..m : a[i] = q[i]
      BY <1>1, <2>1
    <2>4. b \in Seq(Segment) /\ Len(b) = Len(r) /\ \A i \in 1..Len(r) : b[i] = q[m + i]
      BY <1>1, <2>1
    <2> HIDE DEF a, b
    <2>5. a = p
      BY <1>1, <2>2, <2>3, SeqEqual
    <2>6. b = r
      BY <2>1, <2>2, <2>4, SeqEqual
    <2>7. m <= n
      BY <1>1, <2>1
    <2> QED
      BY <1>2, <2>5, <2>6, <2>7 DEF IsPrefix, a
  <1> QED
    BY <1>3, <1>4 DEF Below

\* What is at a pointer that neither contains the one written nor is in it
\* stays.
LEMMA UpdateElsewhere ==
    \A p \in Pointer : \A q \in Pointer : \A v, x :
        /\ ~IsPrefix(p, q) /\ ~IsPrefix(q, p)
        /\ Shaped(v) /\ Get(v, p) # Missing /\ x # Missing
        => Get(Update(v, p, x), q) = Get(v, q)
  <1> DEFINE S == {n \in Nat : \A p \in Pointer : Len(p) = n => \A q \in Pointer : \A v, x :
                      /\ ~IsPrefix(p, q) /\ ~IsPrefix(q, p)
                      /\ Shaped(v) /\ Get(v, p) # Missing /\ x # Missing
                      => Get(Update(v, p, x), q) = Get(v, q)}
  <1>0. \A q \in Pointer : IsPrefix(<<>>, q)
    BY ConcatNothing, PrefixConcat
  <1>1. 0 \in S
    <2> SUFFICES ASSUME NEW p \in Pointer, Len(p) = 0, NEW q \in Pointer, ~IsPrefix(p, q)
                 PROVE  FALSE
      OBVIOUS
    <2>1. p = <<>>
      BY DEF Pointer
    <2> QED
      BY <1>0, <2>1
  <1>2. ASSUME NEW n \in Nat, n \in S PROVE n + 1 \in S
    <2> SUFFICES ASSUME NEW p \in Pointer, Len(p) = n + 1, NEW q \in Pointer, NEW v, NEW x,
                        ~IsPrefix(p, q), ~IsPrefix(q, p),
                        Shaped(v), Get(v, p) # Missing, x # Missing
                 PROVE  Get(Update(v, p, x), q) = Get(v, q)
      OBVIOUS
    <2> DEFINE h == Head(p)
               t == Tail(p)
               c == Child(v, h)
               u == Update(c, t, x)
               U == WithChild(v, h, u)
    <2>1. p # <<>> /\ q # <<>>
      BY <1>0 DEF Pointer
    <2>2. t \in Pointer /\ Len(t) = n /\ h \in Segment /\ Tail(q) \in Pointer /\ Head(q) \in Segment
      BY <2>1, HeadTail
    <2>3. /\ Get(v, p) = Get(c, t)
          /\ Get(v, q) = Get(Child(v, Head(q)), Tail(q))
          /\ Get(U, q) = Get(Child(U, Head(q)), Tail(q))
      BY <2>1, GetCons, Zenon
    <2>4. c # Missing
      BY <2>2, <2>3, GetMissing
    <2>5. Shaped(c) /\ Shape(v) /\ Node(v)
      BY <2>2, ShapedTop
    <2>6. Update(v, p, x) = U
      BY <2>1, UpdateCons, Zenon
    <2>h. \A r \in Pointer : Len(r) = n => \A s \in Pointer : \A w, z :
              /\ ~IsPrefix(r, s) /\ ~IsPrefix(s, r)
              /\ Shaped(w) /\ Get(w, r) # Missing /\ z # Missing
              => Get(Update(w, r, z), s) = Get(w, s)
      BY <1>2
    <2>7. u # Missing
      BY <2>2, <2>3, <2>5, UpdateFacts DEF Updates
    <2> HIDE DEF u
    <2>8. Child(U, h) = u /\ \A r : r # h => Child(U, r) = Child(v, r)
      BY <2>2, <2>4, <2>5, <2>7, WithChildFacts
    <2> HIDE DEF U, S
    <2>9. CASE Head(q) # h
      BY <2>3, <2>6, <2>8, <2>9
    <2>10. CASE Head(q) = h
      <3>1. ~IsPrefix(t, Tail(q))
        <4> SUFFICES ASSUME IsPrefix(t, Tail(q)) PROVE FALSE
          OBVIOUS
        <4>1. PICK r \in Pointer : Tail(q) = t \o r
          BY <2>2, PrefixConcat
        <4>2. p \o r \in Pointer /\ p \o r # <<>> /\ Head(p \o r) = h /\ Tail(p \o r) = t \o r
          BY <2>1, ConcatHeadTail
        <4>3. q = p \o r
          BY <2>1, <2>10, <4>1, <4>2, ConsEqual
        <4> QED
          BY <4>3, PrefixConcat
      <3>2. ~IsPrefix(Tail(q), t)
        <4> SUFFICES ASSUME IsPrefix(Tail(q), t) PROVE FALSE
          OBVIOUS
        <4>1. PICK r \in Pointer : t = Tail(q) \o r
          BY <2>2, PrefixConcat
        <4>2. /\ q \o r \in Pointer /\ q \o r # <<>> /\ Head(q \o r) = Head(q)
              /\ Tail(q \o r) = Tail(q) \o r
          BY <2>1, ConcatHeadTail
        <4>3. p = q \o r
          BY <2>1, <2>10, <4>1, <4>2, ConsEqual
        <4> QED
          BY <4>3, PrefixConcat
      <3> HIDE DEF t, c
      <3>3. Get(Update(c, t, x), Tail(q)) = Get(c, Tail(q))
        <4>1. \A s \in Pointer : \A w, z :
                  /\ ~IsPrefix(t, s) /\ ~IsPrefix(s, t)
                  /\ Shaped(w) /\ Get(w, t) # Missing /\ z # Missing
                  => Get(Update(w, t, z), s) = Get(w, s)
          BY <2>2, <2>h, Zenon
        <4>2. Get(c, t) # Missing
          BY <2>3
        <4> QED
          BY <2>2, <2>5, <3>1, <3>2, <4>1, <4>2, Zenon
      <3> QED
        BY <2>3, <2>6, <2>8, <2>10, <3>3 DEF c, u
    <2> QED
      BY <2>9, <2>10
  <1> HIDE DEF S
  <1>3. \A n \in Nat : n \in S
    BY <1>1, <1>2, SetInduction
  <1>4. \A p \in Pointer : Len(p) \in S
    BY <1>3 DEF Pointer
  <1> QED
    BY <1>4 DEF S

(***************************************************************************)
(* The last segment of a pointer and the rest.                             *)
(***************************************************************************)
LEMMA FrontLast ==
    ASSUME NEW p \in Pointer, p # <<>>
    PROVE  Front(p) \in Pointer /\ Last(p) \in Segment /\ p = Append(Front(p), Last(p))
  <1> DEFINE n == Len(p)
             f == Front(p)
  <1>1. p \in Seq(Segment) /\ n \in Nat /\ n > 0
    BY DEF Pointer
  <1>2. f \in Seq(Segment) /\ Len(f) = n - 1 /\ \A i \in 1..(n - 1) : f[i] = p[i]
    BY <1>1 DEF Front
  <1>3. Last(p) \in Segment /\ Last(p) = p[n]
    BY <1>1 DEF Last
  <1> HIDE DEF f
  <1> DEFINE a == Append(f, Last(p))
  <1>4. /\ a \in Seq(Segment) /\ Len(a) = Len(f) + 1
        /\ \A i \in 1..Len(f) : a[i] = f[i] /\ a[Len(f) + 1] = Last(p)
    BY <1>2, <1>3
  <1> HIDE DEF a
  <1>5. Len(a) = Len(p)
    BY <1>1, <1>2, <1>4
  <1>6. ASSUME NEW i \in 1..Len(p) PROVE a[i] = p[i]
    <2>1. CASE i = n
      <3>1. CASE n = 1
        <4>1. f = <<>>
          BY <1>1, <1>2, <3>1
        <4> QED
          BY <1>3, <2>1, <3>1, <4>1 DEF a
      <3>2. CASE n # 1
        <4>1. 1 \in 1..Len(f) /\ Len(f) + 1 = n
          BY <1>1, <1>2, <3>2
        <4> QED
          BY <1>3, <1>4, <2>1, <4>1
      <3> QED
        BY <3>1, <3>2
    <2>2. CASE i # n
      <3>1. i \in 1..(n - 1)
        BY <1>1, <2>2
      <3> QED
        BY <1>2, <1>4, <3>1
    <2> QED
      BY <2>1, <2>2
  <1>7. a = p
    BY <1>1, <1>4, <1>5, <1>6, SeqEqual
  <1> QED
    BY <1>2, <1>3, <1>7 DEF f, a, Pointer

\* A pointer to a child, taken apart again.
LEMMA AppendFront ==
    ASSUME NEW q \in Pointer, NEW s \in Segment
    PROVE  /\ Append(q, s) \in Pointer /\ Append(q, s) # <<>>
           /\ Front(Append(q, s)) = q /\ Last(Append(q, s)) = s
           /\ Append(q, s) = q \o <<s>> /\ <<s>> \in Pointer
           /\ \A v : Get(v, Append(q, s)) = Child(Get(v, q), s)
  <1> DEFINE a == Append(q, s)
  <1>1. q \in Seq(Segment) /\ <<s>> \in Pointer
    BY DEF Pointer
  <1>2. /\ a \in Seq(Segment) /\ a # <<>> /\ Len(a) = Len(q) + 1
        /\ \A i \in 1..Len(q) : a[i] = q[i]
        /\ a[Len(q) + 1] = s
    BY <1>1, AppendProperties
  <1>3. a = q \o <<s>>
    BY <1>1, AppendIsConcat
  <1>4. Last(a) = s
    BY <1>2 DEF Last
  <1>5. Front(a) \in Pointer /\ Last(a) \in Segment /\ a = Append(Front(a), Last(a))
    BY <1>2, FrontLast DEF Pointer
  <1>6. Front(a) = q
    BY <1>1, <1>5, AppendInjective DEF Pointer
  <1>7. \A v : Get(v, a) = Child(Get(v, q), s)
    BY <1>1, <1>3, GetConcat, GetOne
  <1> QED
    BY <1>1, <1>2, <1>3, <1>4, <1>6, <1>7 DEF Pointer

\* A pointer to a child below another pointer.
LEMMA ConcatAppend ==
    ASSUME NEW p \in Pointer, NEW q \in Pointer, NEW s \in Segment
    PROVE  p \o Append(q, s) = Append(p \o q, s) /\ p \o q \in Pointer
  <1>1. p \in Seq(Segment) /\ q \in Seq(Segment) /\ <<s>> \in Seq(Segment) /\ p \o q \in Seq(Segment)
    BY DEF Pointer
  <1>2. Append(q, s) = q \o <<s>> /\ Append(p \o q, s) = (p \o q) \o <<s>>
    BY <1>1, AppendIsConcat
  <1>3. (p \o q) \o <<s>> = p \o (q \o <<s>>)
    <2> DEFINE t == <<s>>
    <2>1. t \in Seq(Segment)
      BY <1>1
    <2> HIDE DEF t
    <2>2. (p \o q) \o t = p \o (q \o t)
      BY <1>1, <2>1, ConcatAssociative
    <2> QED
      BY <2>2 DEF t
  <1> QED
    BY <1>1, <1>2, <1>3 DEF Pointer

(***************************************************************************)
(* Shaped values from shaped parts.                                        *)
(***************************************************************************)
LEMMA ShapedElements ==
    ASSUME NEW v, Shaped(v), v.tag = "array"
    PROVE  /\ Len(v.seq) \in Nat /\ Len(v.seq) <= Len(Index)
           /\ v.seq \in Seq({y \in Range(v.seq) : Shaped(y) /\ y # Missing})
           /\ \A i \in 1..Len(v.seq) :
                 /\ Index[i] \in Segment /\ Child(v, Index[i]) = v.seq[i]
                 /\ Shaped(v.seq[i]) /\ v.seq[i] # Missing
  <1>1. Node(v) /\ Len(v.seq) <= Len(Index)
    BY ShapedTop DEF Shape
  <1>2. /\ Len(v.seq) \in Nat /\ v.seq \in Seq(Range(v.seq))
        /\ \A i \in 1..Len(v.seq) : v.seq[i] \in Range(v.seq) /\ v.seq[i] # Missing
    BY <1>1, NodeArr
  <1>3. ASSUME NEW i \in 1..Len(v.seq)
        PROVE  /\ Index[i] \in Segment /\ Child(v, Index[i]) = v.seq[i]
               /\ Shaped(v.seq[i])
    <2>1. i \in 1..Len(Index) /\ Index[i] \in Segment
      BY <1>1, <1>2, IndexAssumption
    <2>2. Position(Index[i]) = i /\ InRange(Index[i], Len(v.seq))
      BY <1>2, <2>1, RangePlace
    <2>3. Child(v, Index[i]) = v.seq[i]
      BY <2>2, ChildArr
    <2> QED
      BY <2>1, <2>3, ShapedTop
  <1>4. v.seq \in [1..Len(v.seq) -> {y \in Range(v.seq) : Shaped(y) /\ y # Missing}]
    BY <1>2, <1>3
  <1> QED
    BY <1>1, <1>2, <1>3, <1>4

\* An array of shaped values that has an index for each is shaped.
LEMMA ShapedArr ==
    ASSUME NEW S, NEW w \in Seq(S), \A y \in S : Shaped(y) /\ y # Missing, Len(w) <= Len(Index)
    PROVE  Shaped(Arr(w)) /\ Arr(w).tag = "array" /\ Arr(w).seq = w /\ Arr(w) # Missing
  <1>1. Node(Arr(w)) /\ Arr(w).tag = "array" /\ Arr(w).seq = w /\ Arr(w) # Missing
    BY ArrNode
  <1>2. Shape(Arr(w))
    BY <1>1 DEF Shape
  <1>3. ASSUME NEW s \in Segment PROVE Shaped(Child(Arr(w), s))
    <2>1. CASE InRange(s, Len(w))
      <3>1. Len(w) \in Nat
        OBVIOUS
      <3>2. Position(s) \in 1..Len(w)
        BY <2>1, <3>1, Positions
      <3>3. Child(Arr(w), s) = w[Position(s)]
        BY <1>1, <2>1, ChildArr
      <3>4. w[Position(s)] \in S
        BY <3>2
      <3> QED
        BY <3>3, <3>4
    <2>2. CASE ~InRange(s, Len(w))
      BY <1>1, <2>2, ChildArr, ShapedMissing
    <2> QED
      BY <2>1, <2>2
  <1> QED
    BY <1>1, <1>2, <1>3, ShapedCons

\* The members of a shaped object.
LEMMA ShapedMembers ==
    ASSUME NEW v, Shaped(v), v.tag = "object"
    PROVE  /\ v = Obj(v.map) /\ DOMAIN v.map \in SUBSET Segment /\ IsFiniteSet(DOMAIN v.map)
           /\ v.map = [k \in DOMAIN v.map |-> v.map[k]]
           /\ \A k \in DOMAIN v.map :
                 Child(v, k) = v.map[k] /\ Shaped(v.map[k]) /\ v.map[k] # Missing
  <1>1. Node(v) /\ \A s \in Segment : Shaped(Child(v, s))
    BY ShapedTop
  <1>2. /\ v = Obj(v.map) /\ DOMAIN v.map \in SUBSET Segment /\ IsFiniteSet(DOMAIN v.map)
        /\ v.map = [k \in DOMAIN v.map |-> v.map[k]]
        /\ \A k \in DOMAIN v.map : v.map[k] # Missing
    BY <1>1, NodeObj
  <1>3. \A k \in DOMAIN v.map : Child(v, k) = v.map[k]
    BY ChildObj
  <1> QED
    BY <1>1, <1>2, <1>3

\* An object of shaped values is shaped.
LEMMA ShapedObj ==
    ASSUME NEW D \in SUBSET Segment, IsFiniteSet(D), NEW f, f = [k \in D |-> f[k]],
           \A k \in D : Shaped(f[k]) /\ f[k] # Missing
    PROVE  Shaped(Obj(f)) /\ Obj(f).tag = "object" /\ Obj(f).map = f /\ Obj(f) # Missing
  <1>1. Node(Obj(f)) /\ Obj(f).tag = "object" /\ Obj(f).map = f /\ Obj(f) # Missing /\ DOMAIN f = D
    BY ObjNode
  <1>2. Shape(Obj(f))
    BY <1>1 DEF Shape
  <1>3. \A s \in Segment : Shaped(Child(Obj(f), s))
    BY <1>1, ChildObj, ShapedMissing
  <1> QED
    BY <1>1, <1>2, <1>3, ShapedCons

\* A child more, if there is an index for it, keeps the shape.
LEMMA ShapedAdd ==
    ASSUME NEW v, Shaped(v), NEW s \in Segment, NEW x, Shaped(x), x # Missing,
           AddChild(v, s, x) # Missing, v.tag = "array" => Len(v.seq) < Len(Index)
    PROVE  Shaped(AddChild(v, s, x))
  <1> DEFINE A == AddChild(v, s, x)
  <1>0. Node(v)
    BY ShapedTop
  <1>1. CASE v.tag = "array"
    <2> DEFINE T == {y \in Range(v.seq) : Shaped(y) /\ y # Missing}
               S == T \cup {x}
               w == InsertAt(v.seq, Position(s), x)
    <2>1. InRange(s, Len(v.seq) + 1) /\ Node(A) /\ A.tag = "array" /\ A.seq = w
          /\ Len(w) = Len(v.seq) + 1
      BY <1>0, <1>1, AddChildArr
    <2>2. Len(v.seq) \in Nat /\ v.seq \in Seq(T)
      BY <1>1, ShapedElements
    <2>3. v.seq \in Seq(S) /\ x \in S
      BY <2>2, SeqMonotonic
    <2>4. \A y \in S : Shaped(y) /\ y # Missing
      OBVIOUS
    <2> HIDE DEF S
    <2>5. Position(s) \in 1..(Len(v.seq) + 1)
      BY <2>1, <2>2, Positions
    <2>6. w \in Seq(S)
      BY <2>3, <2>5, Inserted
    <2>7. A = Arr(w)
      BY <2>1, NodeArr
    <2> HIDE DEF w, A
    <2>8. Len(w) <= Len(Index)
      BY <1>1, <2>1, <2>2, IndexAssumption
    <2>9. Shaped(Arr(w))
      BY <2>4, <2>6, <2>8, ShapedArr
    <2> QED
      BY <2>7, <2>9 DEF A
  <1>2. CASE v.tag = "object"
    <2>1. /\ Node(A) /\ A.tag = "object" /\ Child(A, s) = x
          /\ \A q : q # s => Child(A, q) = Child(v, q)
      BY <1>0, <1>2, AddChildObj
    <2>2. Shape(A)
      BY <2>1 DEF Shape
    <2>3. \A q \in Segment : Shaped(Child(A, q))
      BY <2>1, ShapedTop
    <2> QED
      BY <2>2, <2>3, ShapedCons
  <1> QED
    BY <1>1, <1>2, AddChildOther

\* So does a child less.
LEMMA ShapedDrop ==
    ASSUME NEW v, Shaped(v), NEW s \in Segment, Child(v, s) # Missing
    PROVE  Shaped(DropChild(v, s)) /\ DropChild(v, s) # Missing
  <1> DEFINE A == DropChild(v, s)
  <1>0. Node(v)
    BY ShapedTop
  <1>1. CASE v.tag = "array"
    <2> DEFINE T == {y \in Range(v.seq) : Shaped(y) /\ y # Missing}
               w == RemoveAt(v.seq, Position(s))
    <2>1. Node(A) /\ A.tag = "array" /\ A.seq = w /\ Len(w) = Len(v.seq) - 1
      BY <1>0, <1>1, DropChildArr
    <2>2. Len(v.seq) \in Nat /\ v.seq \in Seq(T) /\ Len(v.seq) <= Len(Index)
      BY <1>1, ShapedElements
    <2>4. \A y \in T : Shaped(y) /\ y # Missing
      OBVIOUS
    <2> HIDE DEF T
    <2>5. Position(s) \in 1..Len(v.seq)
      BY <1>1, <2>2, ChildHas, Positions
    <2>6. w \in Seq(T)
      BY <2>2, <2>5, Removed
    <2>7. A = Arr(w)
      BY <2>1, NodeArr
    <2> HIDE DEF w, A
    <2>8. Len(w) <= Len(Index)
      BY <1>1, <2>1, <2>2, IndexAssumption
    <2>9. Shaped(Arr(w)) /\ Arr(w) # Missing
      BY <2>4, <2>6, <2>8, ShapedArr
    <2> QED
      BY <2>7, <2>9 DEF A
  <1>2. CASE v.tag = "object"
    <2>1. /\ Node(A) /\ A.tag = "object" /\ Child(A, s) = Missing
          /\ \A q : q # s => Child(A, q) = Child(v, q)
      BY <1>0, <1>2, DropChildObj
    <2>2. Shape(A) /\ A # Missing
      BY <2>1 DEF Shape, Missing
    <2>3. \A q \in Segment : Shaped(Child(A, q))
      BY <2>1, ShapedTop, ShapedMissing
    <2> QED
      BY <2>2, <2>3, ShapedCons
  <1> QED
    BY <1>1, <1>2, ChildHas

(***************************************************************************)
(* Operations that find what they are for: add and remove have a parent,   *)
(* replace replaces something.                                             *)
(***************************************************************************)
Adds(d, o, e, q, s, x) ==
    /\ q \in Pointer /\ s \in Segment /\ Shaped(x) /\ x # Missing
    /\ o = AddOp(Append(q, s), x) /\ AddChild(Get(d, q), s, x) # Missing
    /\ e = Update(d, q, AddChild(Get(d, q), s, x))

Removes(d, o, e, q, s) ==
    /\ q \in Pointer /\ s \in Segment
    /\ o = RemoveOp(Append(q, s)) /\ Child(Get(d, q), s) # Missing
    /\ e = Update(d, q, DropChild(Get(d, q), s))

Replaces(d, o, e, p, x) ==
    /\ p \in Pointer /\ Shaped(x) /\ x # Missing
    /\ o = ReplaceOp(p, x) /\ Get(d, p) # Missing
    /\ e = Update(d, p, x)

Step(d, o, e) ==
    /\ Shaped(d) /\ d # Missing /\ Shaped(e) /\ e # Missing
    /\ \/ \E q, s, x : Adds(d, o, e, q, s, x)
       \/ \E q, s : Removes(d, o, e, q, s)
       \/ \E p, x : Replaces(d, o, e, p, x)

\* An operation on the way to T that adds to an array, or removes from one,
\* does so where T has an array too.
Sited(T, d, o) ==
    \/ o.op = "replace"
    \/ \E q \in Pointer, s \in Segment :
          o.path = Append(q, s) /\ (Get(d, q).tag = "array" => Get(T, q).tag = "array")

\* What running an operation gives.
LEMMA RunAdd ==
    ASSUME NEW d, NEW q \in Pointer, NEW s \in Segment, NEW x,
           AddChild(Get(d, q), s, x) # Missing
    PROVE  Run(d, AddOp(Append(q, s), x)) =
              Done(Update(d, q, AddChild(Get(d, q), s, x)),
                   IF Get(d, q).tag = "object" THEN Child(Get(d, q), s) ELSE Missing)
  <1>1. /\ AddOp(Append(q, s), x).op = "add" /\ AddOp(Append(q, s), x).path = Append(q, s)
        /\ AddOp(Append(q, s), x).value = x
    BY DEF AddOp
  <1>2. Run(d, AddOp(Append(q, s), x)) = Add(d, Append(q, s), x)
    BY <1>1 DEF Run
  <1>3. Append(q, s) # <<>> /\ Front(Append(q, s)) = q /\ Last(Append(q, s)) = s
    BY AppendFront
  <1> QED
    BY <1>2, <1>3 DEF Add

\* A removal of what is there.
LEMMA RunRemove ==
    ASSUME NEW d, NEW q \in Pointer, NEW s \in Segment, Child(Get(d, q), s) # Missing
    PROVE  Run(d, RemoveOp(Append(q, s))) =
              Done(Update(d, q, DropChild(Get(d, q), s)), Child(Get(d, q), s))
  <1>1. RemoveOp(Append(q, s)).op = "remove" /\ RemoveOp(Append(q, s)).path = Append(q, s)
    BY DEF RemoveOp
  <1>2. Run(d, RemoveOp(Append(q, s))) = Delete(d, Append(q, s))
    BY <1>1 DEF Run
  <1>3. /\ Append(q, s) # <<>> /\ Front(Append(q, s)) = q /\ Last(Append(q, s)) = s
        /\ Get(d, Append(q, s)) = Child(Get(d, q), s)
    BY AppendFront
  <1> QED
    BY <1>2, <1>3 DEF Delete

\* A replacement of what is there.
LEMMA RunReplace ==
    ASSUME NEW d, NEW p \in Pointer, NEW x, Get(d, p) # Missing
    PROVE  Run(d, ReplaceOp(p, x)) = Done(Update(d, p, x), Get(d, p))
  <1>1. ReplaceOp(p, x).op = "replace" /\ ReplaceOp(p, x).path = p /\ ReplaceOp(p, x).value = x
    BY DEF ReplaceOp
  <1> QED
    BY <1>1 DEF Run, Replace

\* An operation that finds what it is for gives the document it leads to.
LEMMA StepRuns ==
    ASSUME NEW d, NEW o, NEW e, Step(d, o, e)
    PROVE  Run(d, o).ok /\ Run(d, o).doc = e
  <1>0. \A new, prev : Done(new, prev).ok /\ Done(new, prev).doc = new
    BY DEF Done
  <1>1. ASSUME NEW q, NEW s, NEW x, Adds(d, o, e, q, s, x) PROVE Run(d, o).ok /\ Run(d, o).doc = e
    BY <1>0, <1>1, RunAdd DEF Adds
  <1>2. ASSUME NEW q, NEW s, Removes(d, o, e, q, s) PROVE Run(d, o).ok /\ Run(d, o).doc = e
    BY <1>0, <1>2, RunRemove DEF Removes
  <1>3. ASSUME NEW p, NEW x, Replaces(d, o, e, p, x) PROVE Run(d, o).ok /\ Run(d, o).doc = e
    BY <1>0, <1>3, RunReplace DEF Replaces
  <1> QED
    BY <1>1, <1>2, <1>3 DEF Step

\* The undo of an operation gives the document before it.
LEMMA StepUndone ==
    ASSUME NEW d, NEW o, NEW e, Step(d, o, e)
    PROVE  Run(e, UndoOf(o, Run(d, o).prev)).doc = d
  <1>0. /\ \A new, prev : Done(new, prev).doc = new /\ Done(new, prev).prev = prev
        /\ Shaped(d) /\ d # Missing
    BY DEF Done, Step
  <1>1. ASSUME NEW q, NEW s, NEW x, Adds(d, o, e, q, s, x)
        PROVE  Run(e, UndoOf(o, Run(d, o).prev)).doc = d
    <2> DEFINE P == Get(d, q)
               A == AddChild(P, s, x)
               was == IF P.tag = "object" THEN Child(P, s) ELSE Missing
    <2>1. /\ q \in Pointer /\ s \in Segment /\ x # Missing /\ o = AddOp(Append(q, s), x)
          /\ A # Missing /\ e = Update(d, q, A)
      BY <1>1 DEF Adds
    <2>2. Run(d, o).prev = was
      BY <1>0, <2>1, RunAdd
    <2>3. Node(P)
      BY <1>0, <2>1, ShapedGet
    <2>4. P # Missing
      BY <2>1 DEF AddChild, Missing
    <2>5. Updates(d, q, A)
      BY <1>0, <2>1, <2>4, UpdateFacts
    <2>6. Get(e, q) = A /\ Update(e, q, P) = d
      BY <2>1, <2>5 DEF Updates
    <2>7. o.op = "add" /\ o.path = Append(q, s)
      BY <2>1 DEF AddOp
    <2>8. CASE was = Missing
      <3>1. UndoOf(o, was) = RemoveOp(Append(q, s))
        BY <2>7, <2>8 DEF UndoOf
      <3>2. DropChild(A, s) = P /\ Child(A, s) = x
        <4>1. CASE P.tag = "array"
          BY <2>1, <2>3, <4>1, AddChildArr
        <4>2. CASE P.tag = "object"
          BY <2>1, <2>3, <2>8, <4>2, AddChildObj
        <4> QED
          BY <2>1, <4>1, <4>2, AddChildOther
      <3> HIDE DEF A, P
      <3>3. Run(e, RemoveOp(Append(q, s))).doc = Update(e, q, DropChild(A, s))
        BY <1>0, <2>1, <2>6, <3>2, RunRemove
      <3> QED
        BY <2>2, <2>6, <3>1, <3>2, <3>3
    <2>9. CASE was # Missing
      <3>1. UndoOf(o, was) = AddOp(Append(q, s), was)
        BY <2>7, <2>9 DEF UndoOf
      <3>2. AddChild(A, s, was) = P /\ was = Child(P, s)
        BY <2>1, <2>3, <2>9, AddChildObj
      <3> HIDE DEF A, P, was
      <3>3. Run(e, AddOp(Append(q, s), was)).doc = Update(e, q, AddChild(A, s, was))
        BY <1>0, <2>1, <2>4, <2>6, <3>2, RunAdd
      <3> QED
        BY <2>2, <2>6, <3>1, <3>2, <3>3
    <2> QED
      BY <2>8, <2>9
  <1>2. ASSUME NEW q, NEW s, Removes(d, o, e, q, s)
        PROVE  Run(e, UndoOf(o, Run(d, o).prev)).doc = d
    <2> DEFINE P == Get(d, q)
               A == DropChild(P, s)
               was == Child(P, s)
    <2>1. /\ q \in Pointer /\ s \in Segment /\ o = RemoveOp(Append(q, s))
          /\ was # Missing /\ e = Update(d, q, A)
      BY <1>2 DEF Removes
    <2>2. Run(d, o).prev = was
      BY <1>0, <2>1, RunRemove
    <2>3. Node(P) /\ Shaped(P)
      BY <1>0, <2>1, ShapedGet
    <2>4. P # Missing /\ A # Missing
      BY <2>1, <2>3, ShapedDrop DEF Child, Missing
    <2>5. Updates(d, q, A)
      BY <1>0, <2>1, <2>4, UpdateFacts
    <2>6. Get(e, q) = A /\ Update(e, q, P) = d
      BY <2>1, <2>5 DEF Updates
    <2>7. UndoOf(o, was) = AddOp(Append(q, s), was)
      BY <2>1 DEF UndoOf, RemoveOp
    <2>8. AddChild(A, s, was) = P
      BY <2>1, <2>3, ChildHas, DropChildArr, DropChildObj
    <2> HIDE DEF A, P, was
    <2>9. Run(e, AddOp(Append(q, s), was)).doc = Update(e, q, AddChild(A, s, was))
      BY <1>0, <2>1, <2>4, <2>6, <2>8, RunAdd
    <2> QED
      BY <2>2, <2>6, <2>7, <2>8, <2>9
  <1>3. ASSUME NEW p, NEW x, Replaces(d, o, e, p, x)
        PROVE  Run(e, UndoOf(o, Run(d, o).prev)).doc = d
    <2> DEFINE was == Get(d, p)
    <2>1. /\ p \in Pointer /\ x # Missing /\ o = ReplaceOp(p, x) /\ was # Missing
          /\ e = Update(d, p, x)
      BY <1>3 DEF Replaces
    <2>2. Run(d, o).prev = was
      BY <1>0, <2>1, RunReplace
    <2>3. Updates(d, p, x)
      BY <1>0, <2>1, UpdateFacts
    <2>4. Get(e, p) = x /\ Update(e, p, was) = d
      BY <2>1, <2>3 DEF Updates
    <2>5. UndoOf(o, was) = ReplaceOp(p, was)
      BY <2>1 DEF UndoOf, ReplaceOp
    <2> HIDE DEF was
    <2>6. Run(e, ReplaceOp(p, was)).doc = Update(e, p, was)
      BY <1>0, <2>1, <2>4, RunReplace
    <2> QED
      BY <2>2, <2>4, <2>5, <2>6
  <1> QED
    BY <1>1, <1>2, <1>3 DEF Step

\* An update of a part is an update of what contains it.
LEMMA UpdateBelow ==
    ASSUME NEW p \in Pointer, NEW q \in Pointer, NEW v, NEW y
    PROVE  Update(v, p \o q, y) = Update(v, p, Update(Get(v, p), q, y))
  BY UpdateConcat

\* An operation further down.
LEMMA Repath ==
    ASSUME NEW ptr, NEW p, NEW x
    PROVE  /\ [AddOp(p, x) EXCEPT !.path = ptr \o @] = AddOp(ptr \o p, x)
           /\ [RemoveOp(p) EXCEPT !.path = ptr \o @] = RemoveOp(ptr \o p)
           /\ [ReplaceOp(p, x) EXCEPT !.path = ptr \o @] = ReplaceOp(ptr \o p, x)
  <1>1. [AddOp(p, x) EXCEPT !.path = ptr \o @] = AddOp(ptr \o p, x)
    BY SMTT(40) DEF AddOp
  <1>2. [RemoveOp(p) EXCEPT !.path = ptr \o @] = RemoveOp(ptr \o p)
    BY SMTT(40) DEF RemoveOp
  <1>3. [ReplaceOp(p, x) EXCEPT !.path = ptr \o @] = ReplaceOp(ptr \o p, x)
    BY SMTT(40) DEF ReplaceOp
  <1> QED
    BY <1>1, <1>2, <1>3

\* An operation on what is at a pointer, as an operation on the document.
LEMMA StepPrepended ==
    ASSUME NEW d, NEW o, NEW e, Step(d, o, e),
           NEW v, Shaped(v), NEW ptr \in Pointer, Get(v, ptr) = d
    PROVE  Step(v, [o EXCEPT !.path = ptr \o @], Update(v, ptr, e))
  <1> DEFINE oo == [o EXCEPT !.path = ptr \o @]
             ee == Update(v, ptr, e)
  <1>0. Shaped(d) /\ d # Missing /\ Shaped(e) /\ e # Missing
    BY DEF Step
  <1>1. Shaped(ee) /\ ee # Missing
    BY <1>0, UpdateFacts DEF Updates
  <1>2. v # Missing
    BY <1>0, GetMissing
  <1>3. ASSUME NEW q, NEW s, NEW x, Adds(d, o, e, q, s, x)
        PROVE  Adds(v, oo, ee, ptr \o q, s, x)
    <2>1. /\ q \in Pointer /\ s \in Segment /\ Shaped(x) /\ x # Missing
          /\ o = AddOp(Append(q, s), x) /\ AddChild(Get(d, q), s, x) # Missing
          /\ e = Update(d, q, AddChild(Get(d, q), s, x))
      BY <1>3 DEF Adds
    <2>2. ptr \o q \in Pointer /\ ptr \o Append(q, s) = Append(ptr \o q, s)
      BY <2>1, ConcatAppend
    <2>3. oo = AddOp(ptr \o Append(q, s), x)
      BY <2>1, Repath
    <2>4. Get(v, ptr \o q) = Get(d, q)
      BY <2>1, GetConcat
    <2>5. Update(v, ptr \o q, AddChild(Get(d, q), s, x)) = ee
      <3>1. \A y : Update(v, ptr \o q, y) = Update(v, ptr, Update(Get(v, ptr), q, y))
        <4>1. q \in Pointer
          BY <2>1
        <4> QED
          BY <4>1, UpdateBelow
      <3> QED
        BY <2>1, <3>1
    <2> QED
      BY <2>1, <2>2, <2>3, <2>4, <2>5 DEF Adds
  <1>4. ASSUME NEW q, NEW s, Removes(d, o, e, q, s)
        PROVE  Removes(v, oo, ee, ptr \o q, s)
    <2>1. /\ q \in Pointer /\ s \in Segment
          /\ o = RemoveOp(Append(q, s)) /\ Child(Get(d, q), s) # Missing
          /\ e = Update(d, q, DropChild(Get(d, q), s))
      BY <1>4 DEF Removes
    <2>2. ptr \o q \in Pointer /\ ptr \o Append(q, s) = Append(ptr \o q, s)
      BY <2>1, ConcatAppend
    <2>3. oo = RemoveOp(ptr \o Append(q, s))
      BY <2>1, Repath
    <2>4. Get(v, ptr \o q) = Get(d, q)
      BY <2>1, GetConcat
    <2>5. Update(v, ptr \o q, DropChild(Get(d, q), s)) = ee
      <3>1. \A y : Update(v, ptr \o q, y) = Update(v, ptr, Update(Get(v, ptr), q, y))
        <4>1. q \in Pointer
          BY <2>1
        <4> QED
          BY <4>1, UpdateBelow
      <3> QED
        BY <2>1, <3>1
    <2> QED
      BY <2>1, <2>2, <2>3, <2>4, <2>5 DEF Removes
  <1>5. ASSUME NEW p, NEW x, Replaces(d, o, e, p, x)
        PROVE  Replaces(v, oo, ee, ptr \o p, x)
    <2>1. /\ p \in Pointer /\ Shaped(x) /\ x # Missing /\ o = ReplaceOp(p, x)
          /\ Get(d, p) # Missing /\ e = Update(d, p, x)
      BY <1>5 DEF Replaces
    <2>2. ptr \o p \in Pointer
      BY <2>1 DEF Pointer
    <2>3. oo = ReplaceOp(ptr \o p, x)
      BY <2>1, Repath
    <2>4. Get(v, ptr \o p) = Get(d, p)
      BY <2>1, GetConcat
    <2>5. Update(v, ptr \o p, x) = ee
      <3>1. Update(v, ptr \o p, x) = Update(v, ptr, Update(Get(v, ptr), p, x))
        <4>1. p \in Pointer
          BY <2>1
        <4> QED
          BY <4>1, UpdateBelow
      <3> QED
        BY <2>1, <3>1
    <2> QED
      BY <2>1, <2>2, <2>3, <2>4, <2>5 DEF Replaces
  <1> QED
    BY <1>1, <1>2, <1>3, <1>4, <1>5 DEF Step

(***************************************************************************)
(* Scoping.                                                                *)
(***************************************************************************)
NoIndex(s) == \A i \in 1..Len(Index) : s # Index[i]

\* Keyed, by the ways to split the pointer in two.
KeyedSplit(v, p) ==
    \A q \in Pointer, r \in Pointer :
        p = q \o r /\ r # <<>> /\ ~NoIndex(Head(r)) => Get(v, q).tag # "array"

\* The one says what the other says.
LEMMA KeyedSplits ==
    ASSUME NEW v, NEW p \in Pointer
    PROVE  Keyed(v, p) <=> KeyedSplit(v, p)
  <1>1. ASSUME Keyed(v, p), NEW q \in Pointer, NEW r \in Pointer,
               p = q \o r, r # <<>>, ~NoIndex(Head(r))
        PROVE  Get(v, q).tag # "array"
    <2> DEFINE m == Len(q) + 1
    <2>1. /\ q \in Seq(Segment) /\ r \in Seq(Segment) /\ Len(q) \in Nat /\ Len(r) \in Nat /\ Len(r) # 0
          /\ Len(p) = Len(q) + Len(r)
      BY <1>1 DEF Pointer
    <2>2. m \in 1..Len(p) /\ m - 1 = Len(q)
      BY <2>1
    <2>3. p[m] = Head(r)
      BY <1>1, <2>1
    <2>4. SubSeq(p, 1, m - 1) = q
      BY <1>1, <2>1, <2>2
    <2>5. \E i \in 1..Len(Index) : p[m] = Index[i]
      BY <1>1, <2>3 DEF NoIndex
    <2> HIDE DEF m
    <2> QED
      BY <1>1, <2>2, <2>4, <2>5 DEF Keyed
  <1>2. ASSUME KeyedSplit(v, p), NEW m \in 1..Len(p), \E i \in 1..Len(Index) : p[m] = Index[i]
        PROVE  Get(v, SubSeq(p, 1, m - 1)).tag # "array"
    <2> DEFINE q == SubSeq(p, 1, m - 1)
               r == SubSeq(p, m, Len(p))
    <2>1. p \in Seq(Segment) /\ Len(p) \in Nat /\ m \in Nat /\ 1 <= m /\ m <= Len(p)
      BY DEF Pointer
    <2>2. q \in Pointer /\ r \in Pointer
      BY <2>1 DEF Pointer
    <2>3. r # <<>> /\ Head(r) = p[m]
      <3>1. Len(r) = Len(p) - m + 1 /\ r[1] = p[m]
        BY <2>1
      <3>2. Len(r) # 0
        BY <2>1, <3>1
      <3>3. r # <<>> /\ Head(r) = r[1]
        BY <2>2, <3>2, HeadTail
      <3> QED
        BY <3>1, <3>3
    <2>4. p = q \o r
      BY <2>1
    <2>5. ~NoIndex(Head(r))
      BY <1>2, <2>3 DEF NoIndex
    <2> HIDE DEF q, r
    <2>6. Get(v, q).tag # "array"
      BY <1>2, <2>2, <2>3, <2>4, <2>5 DEF KeyedSplit
    <2> QED
      BY <2>6 DEF q
  <1> QED
    BY <1>1, <1>2 DEF Keyed, KeyedSplit

\* The pointer p does not go from what is at q into an array.
Avoids(d, q, p) ==
    \A r \in Pointer : p = q \o r /\ r # <<>> => NoIndex(Head(r)) \/ Get(d, q).tag # "array"

\* A pointer that goes through a segment, from the parent.
LEMMA AvoidsChild ==
    ASSUME NEW d, NEW q \in Pointer, NEW s \in Segment, NEW r \in Pointer,
           Avoids(d, q, Append(q, s) \o r)
    PROVE  NoIndex(s) \/ Get(d, q).tag # "array"
  <1> DEFINE one == <<s>>
             t == one \o r
  <1>1. Append(q, s) = q \o one /\ one \in Pointer /\ one # <<>> /\ Head(one) = s
    BY AppendFront
  <1> HIDE DEF one
  <1>2. t \in Pointer /\ t # <<>> /\ Head(t) = s
    BY <1>1, ConcatHeadTail
  <1>3. (q \o one) \o r = q \o t
    BY <1>1, ConcatAssociative, SMTT(40) DEF Pointer
  <1> HIDE DEF t
  <1> QED
    BY <1>1, <1>2, <1>3 DEF Avoids

\* An array has nothing at such a segment, and can have nothing there.
LEMMA NoIndexChild ==
    ASSUME NEW v, v.tag = "array", NEW s, NoIndex(s)
    PROVE  Child(v, s) = Missing /\ \A x : AddChild(v, s, x) = Missing
  <1>1. \A n : ~InRange(s, n)
    BY DEF InRange, NoIndex
  <1> QED
    BY <1>1 DEF Child, AddChild

\* A change of a child is not seen elsewhere.
LEMMA ChangeElsewhere ==
    ASSUME NEW d, Shaped(d), NEW q \in Pointer, NEW s \in Segment, Get(d, q) # Missing,
           NEW N, N # Missing,
           \A k \in Segment : (NoIndex(k) \/ Get(d, q).tag # "array") /\ k # s
              => Child(N, k) = Child(Get(d, q), k),
           NEW p \in Pointer, Avoids(d, q, p), ~IsPrefix(p, Append(q, s)), ~IsPrefix(Append(q, s), p)
    PROVE  Get(Update(d, q, N), p) = Get(d, p)
  <1> DEFINE e == Update(d, q, N)
             P == Get(d, q)
  <1>1. Append(q, s) = q \o <<s>> /\ <<s>> \in Pointer /\ Append(q, s) \in Pointer
    BY AppendFront
  <1>2. Get(e, q) = N
    BY UpdateFacts DEF Updates
  <1>3. ~IsPrefix(p, q)
    <2> SUFFICES ASSUME IsPrefix(p, q) PROVE FALSE
      OBVIOUS
    <2>1. PICK r \in Pointer : q = p \o r
      BY PrefixConcat
    <2>2. Append(q, s) = p \o Append(r, s) /\ Append(r, s) \in Pointer
      BY <2>1, ConcatAppend, AppendFront, ZenonT(40)
    <2> QED
      BY <1>1, <2>2, PrefixConcat
  <1>4. CASE ~IsPrefix(q, p)
    BY <1>3, <1>4, UpdateElsewhere
  <1>5. CASE IsPrefix(q, p)
    <2>1. PICK r \in Pointer : p = q \o r
      BY <1>5, PrefixConcat
    <2>2. r # <<>>
      <3> SUFFICES ASSUME r = <<>> PROVE FALSE
        OBVIOUS
      <3>1. p = q
        BY <2>1, ConcatNothing
      <3> QED
        BY <1>3, <1>5, <3>1
    <2>3. Head(r) \in Segment /\ Tail(r) \in Pointer
      BY <2>2, HeadTail
    <2>4. Head(r) # s
      <3> SUFFICES ASSUME Head(r) = s PROVE FALSE
        OBVIOUS
      <3> DEFINE one == <<s>>
      <3>1. one \in Pointer /\ one # <<>> /\ Head(one) = s /\ Tail(one) = <<>>
        BY <1>1
      <3>2. Append(q, s) = q \o one
        BY <1>1
      <3> HIDE DEF one
      <3>3. /\ one \o Tail(r) \in Pointer /\ one \o Tail(r) # <<>>
            /\ Head(one \o Tail(r)) = s /\ Tail(one \o Tail(r)) = <<>> \o Tail(r)
        <4>1. /\ one \o Tail(r) \in Pointer /\ one \o Tail(r) # <<>>
              /\ Head(one \o Tail(r)) = Head(one) /\ Tail(one \o Tail(r)) = Tail(one) \o Tail(r)
          <5>1. one \in Pointer /\ one # <<>> /\ Tail(r) \in Pointer
            BY <2>3, <3>1
          <5> QED
            BY <5>1, ConcatHeadTail
        <4> QED
          BY <3>1, <4>1
      <3>4. <<>> \o Tail(r) = Tail(r)
        BY <2>3, ConcatNothing
      <3>5. one \o Tail(r) = r
        BY <2>2, <3>3, <3>4, ConsEqual
      <3>6. (q \o one) \o Tail(r) = q \o (one \o Tail(r))
        <4>1. q \in Seq(Segment) /\ one \in Seq(Segment) /\ Tail(r) \in Seq(Segment)
          BY <2>3, <3>1 DEF Pointer
        <4> DEFINE t == Tail(r)
        <4> HIDE DEF t
        <4>2. t \in Seq(Segment)
          BY <4>1 DEF t
        <4>3. (q \o one) \o t = q \o (one \o t)
          BY <4>1, <4>2, ConcatAssociative, SMTT(40)
        <4> QED
          BY <4>3 DEF t
      <3>7. p = Append(q, s) \o Tail(r)
        BY <2>1, <3>2, <3>5, <3>6
      <3> QED
        BY <1>1, <2>3, <3>7, PrefixConcat
    <2>5. NoIndex(Head(r)) \/ P.tag # "array"
      BY <2>1, <2>2 DEF Avoids
    <2>6. Child(N, Head(r)) = Child(P, Head(r))
      BY <2>3, <2>4, <2>5
    <2>7. Get(N, r) = Get(P, r)
      BY <2>2, <2>6, GetCons
    <2>8. Get(d, p) = Get(P, r) /\ Get(e, p) = Get(N, r)
      BY <1>2, <2>1, GetConcat
    <2> QED
      BY <2>7, <2>8
  <1> QED
    BY <1>4, <1>5

\* The arms of for_path.
LEMMA ScopedAdd ==
    ASSUME NEW path, NEW x, NEW p
    PROVE  Scoped(AddOp(path, x), p) =
              IF IsPrefix(p, path) THEN <<AddOp(Below(path, p), x)>>
              ELSE IF IsPrefix(path, p) THEN <<AddOp(<<>>, OrNull(Get(x, Below(p, path))))>>
              ELSE <<>>
  <1> DEFINE o == AddOp(path, x)
  <1>1. o.op = "add" /\ o.op # "remove" /\ o.path = path /\ o.value = x
    BY DEF AddOp
  <1>2. ASSUME NEW y PROVE [o EXCEPT !.path = y] = AddOp(y, x)
    BY DEF AddOp
  <1>4. ASSUME NEW y, NEW z PROVE [op |-> o.op, path |-> y, value |-> z] = AddOp(y, z)
    BY <1>1 DEF AddOp
  <1> HIDE DEF o
  <1>3. Scoped(o, p) = IF IsPrefix(p, path) THEN <<AddOp(Below(path, p), x)>>
              ELSE IF IsPrefix(path, p) THEN <<AddOp(<<>>, OrNull(Get(x, Below(p, path))))>>
              ELSE <<>>
    BY <1>1, <1>2, <1>4 DEF Scoped
  <1> QED
    BY <1>3 DEF o

\* What for_path makes of a replacement.
LEMMA ScopedReplace ==
    ASSUME NEW path, NEW x, NEW p
    PROVE  Scoped(ReplaceOp(path, x), p) =
              IF IsPrefix(p, path) THEN <<ReplaceOp(Below(path, p), x)>>
              ELSE IF IsPrefix(path, p) THEN <<ReplaceOp(<<>>, OrNull(Get(x, Below(p, path))))>>
              ELSE <<>>
  <1> DEFINE o == ReplaceOp(path, x)
  <1>1. o.op = "replace" /\ o.op # "remove" /\ o.path = path /\ o.value = x
    BY DEF ReplaceOp
  <1>2. ASSUME NEW y PROVE [o EXCEPT !.path = y] = ReplaceOp(y, x)
    BY DEF ReplaceOp
  <1>4. ASSUME NEW y, NEW z PROVE [op |-> o.op, path |-> y, value |-> z] = ReplaceOp(y, z)
    BY <1>1 DEF ReplaceOp
  <1> HIDE DEF o
  <1>3. Scoped(o, p) = IF IsPrefix(p, path) THEN <<ReplaceOp(Below(path, p), x)>>
              ELSE IF IsPrefix(path, p) THEN <<ReplaceOp(<<>>, OrNull(Get(x, Below(p, path))))>>
              ELSE <<>>
    BY <1>1, <1>2, <1>4 DEF Scoped
  <1> QED
    BY <1>3 DEF o

\* What for_path makes of a removal.
LEMMA ScopedRemove ==
    ASSUME NEW path, NEW p
    PROVE  Scoped(RemoveOp(path), p) =
              IF IsPrefix(path, p) THEN <<ReplaceOp(<<>>, Null)>>
              ELSE IF IsPrefix(p, path) THEN <<RemoveOp(Below(path, p))>>
              ELSE <<>>
  <1>1. RemoveOp(path).op = "remove" /\ RemoveOp(path).path = path
    BY DEF RemoveOp
  <1> QED
    BY <1>1 DEF Scoped

\* A value that is there reads as it is.
LEMMA OrNullFacts ==
    ASSUME NEW v
    PROVE  /\ v # Missing => OrNull(v) = v
           /\ OrNull(Missing) = Null /\ OrNull(v) # Missing
  BY DEF OrNull, Null, Missing

\* An operation on the whole value.
LEMMA RunWhole ==
    ASSUME NEW v, NEW x, v # Missing
    PROVE  /\ Run(v, AddOp(<<>>, x)).ok /\ Run(v, AddOp(<<>>, x)).doc = x
           /\ Run(v, ReplaceOp(<<>>, x)).ok /\ Run(v, ReplaceOp(<<>>, x)).doc = x
  <1>1. AddOp(<<>>, x).op = "add" /\ AddOp(<<>>, x).path = <<>> /\ AddOp(<<>>, x).value = x
    BY DEF AddOp
  <1>2. Run(v, AddOp(<<>>, x)) = Done(x, v)
    BY <1>1 DEF Run, Add
  <1>3. <<>> \in Pointer /\ Get(v, <<>>) = v /\ Update(v, <<>>, x) = x
    BY GetNil, UpdateNil DEF Pointer
  <1>4. Run(v, ReplaceOp(<<>>, x)) = Done(x, v)
    BY <1>3, RunReplace
  <1> QED
    BY <1>2, <1>4 DEF Done

\* A change below a pointer is seen there as the change relative to it.
LEMMA ChangeBelow ==
    ASSUME NEW d, Shaped(d), NEW p \in Pointer, NEW r \in Pointer, NEW N, N # Missing,
           Get(d, p \o r) # Missing
    PROVE  /\ Get(d, p) # Missing /\ Get(Get(d, p), r) = Get(d, p \o r)
           /\ Get(Update(d, p \o r, N), p) = Update(Get(d, p), r, N)
           /\ Update(Get(d, p), r, N) # Missing
  <1>1. Get(Get(d, p), r) = Get(d, p \o r)
    BY GetConcat
  <1>2. Get(d, p) # Missing
    BY <1>1, GetMissing
  <1>3. Shaped(Get(d, p))
    BY ShapedGet
  <1>4. Update(Get(d, p), r, N) # Missing
    BY <1>1, <1>3, UpdateFacts DEF Updates
  <1>5. Update(d, p \o r, N) = Update(d, p, Update(Get(d, p), r, N))
    BY UpdateBelow
  <1>6. Get(Update(d, p, Update(Get(d, p), r, N)), p) = Update(Get(d, p), r, N)
    BY <1>2, <1>4, UpdateFacts DEF Updates
  <1> QED
    BY <1>1, <1>2, <1>4, <1>5, <1>6

Follows(ops, v, w) ==
    \/ ops = <<>> /\ v = w
    \/ \E o : ops = <<o>> /\ Run(v, o).ok /\ Run(v, o).doc = w

\* Scoped to a watched pointer, an addition leads its view on.
LEMMA AddScoped ==
    ASSUME NEW d, Shaped(d), NEW o, NEW e, NEW q, NEW s, NEW x, Adds(d, o, e, q, s, x),
           NEW p \in Pointer, Avoids(d, q, p)
    PROVE  Follows(Scoped(o, p), OrNull(Get(d, p)), OrNull(Get(e, p)))
  <1> DEFINE P == Get(d, q)
             A == AddChild(P, s, x)
             path == Append(q, s)
  <1>1. /\ q \in Pointer /\ s \in Segment /\ Shaped(x) /\ x # Missing
        /\ o = AddOp(path, x) /\ A # Missing /\ e = Update(d, q, A)
    BY DEF Adds
  <1>2. Node(P)
    BY <1>1, ShapedGet
  <1>3. P # Missing
    BY <1>1 DEF AddChild, Missing
  <1>4. Get(e, q) = A
    BY <1>1, <1>3, UpdateFacts DEF Updates
  <1>5. path \in Pointer /\ Get(e, path) = Child(A, s) /\ Get(d, path) = Child(P, s)
    <2>1. q \in Pointer /\ s \in Segment
      BY <1>1
    <2>2. path \in Pointer /\ \A v : Get(v, path) = Child(Get(v, q), s)
      BY <2>1, AppendFront
    <2> QED
      BY <1>4, <2>2
  <1>6. NoIndex(s) \/ P.tag # "array" => P.tag = "object" /\ Child(A, s) = x
    <2>1. NoIndex(s) \/ P.tag # "array" => P.tag = "object"
      BY <1>1, AddChildOther, NoIndexChild
    <2> QED
      BY <1>1, <1>2, <2>1, AddChildObj
  <1>7. \A k \in Segment : (NoIndex(k) \/ P.tag # "array") /\ k # s => Child(A, k) = Child(P, k)
    <2> SUFFICES ASSUME NEW k \in Segment, NoIndex(k) \/ P.tag # "array", k # s
                 PROVE  Child(A, k) = Child(P, k)
      OBVIOUS
    <2>1. CASE P.tag = "array"
      <3>1. A.tag = "array"
        BY <1>1, <1>2, <2>1, AddChildArr
      <3> QED
        BY <2>1, <3>1, NoIndexChild
    <2>2. CASE P.tag = "object"
      BY <1>1, <1>2, <2>2, AddChildObj
    <2> QED
      BY <1>1, <2>1, <2>2, AddChildOther
  <1> HIDE DEF A, P, path
  <1>8. CASE IsPrefix(p, path)
    <2> DEFINE r == Below(path, p)
    <2>1. r \in Pointer /\ path = p \o r
      BY <1>5, <1>8, PrefixConcat
    <2>2. Scoped(o, p) = <<AddOp(r, x)>>
      BY <1>1, <1>8, ScopedAdd
    <2> HIDE DEF r
    <2>3. CASE r = <<>>
      <3>1. path = p
        BY <2>1, <2>3, ConcatNothing
      <3>2. NoIndex(s) \/ P.tag # "array"
        <4>1. path \o <<>> = path /\ <<>> \in Pointer
          BY <1>5, ConcatNothing
        <4> QED
          BY <1>1, <3>1, <4>1, AvoidsChild DEF path, P
      <3>3. OrNull(Get(e, p)) = x
        BY <1>1, <1>5, <1>6, <3>1, <3>2, OrNullFacts
      <3>4. OrNull(Get(d, p)) # Missing
        BY OrNullFacts
      <3> QED
        BY <2>2, <2>3, <3>3, <3>4, RunWhole DEF Follows
    <2>4. CASE r # <<>>
      <3>1. PICK t \in Pointer : r = Append(t, s) /\ q = p \o t
        <4>1. /\ q \in Pointer /\ s \in Segment /\ r \in Pointer /\ r # <<>>
              /\ Append(q, s) = p \o r
          BY <1>1, <2>1, <2>4 DEF path
        <4> DEFINE f == Front(r)
                   l == Last(r)
        <4>2. f \in Pointer /\ l \in Segment /\ r = Append(f, l)
          BY <4>1, FrontLast
        <4> HIDE DEF f, l
        <4>3. p \o Append(f, l) = Append(p \o f, l) /\ p \o f \in Pointer
          BY <4>2, ConcatAppend
        <4> DEFINE a == p \o f
        <4>4. a \in Seq(Segment) /\ q \in Seq(Segment) /\ Append(q, s) = Append(a, l)
          BY <4>1, <4>2, <4>3 DEF Pointer
        <4> HIDE DEF a
        <4>5. q = a /\ s = l
          BY <4>1, <4>2, <4>4, AppendInjective
        <4> QED
          BY <4>2, <4>5 DEF a
      <3>2. /\ Get(d, p) # Missing /\ Get(Get(d, p), t) = P
            /\ Get(e, p) = Update(Get(d, p), t, A) /\ Update(Get(d, p), t, A) # Missing
        <4>1. Get(d, p \o t) = P /\ P # Missing /\ A # Missing
          BY <1>1, <1>3, <3>1 DEF P
        <4>2. /\ Get(d, p) # Missing /\ Get(Get(d, p), t) = Get(d, p \o t)
              /\ Get(Update(d, p \o t, A), p) = Update(Get(d, p), t, A)
              /\ Update(Get(d, p), t, A) # Missing
          BY <4>1, ChangeBelow
        <4> QED
          BY <1>1, <3>1, <4>1, <4>2
      <3> DEFINE w == Get(d, p)
      <3>3. OrNull(w) = w /\ OrNull(Get(e, p)) = Update(w, t, A)
        BY <3>2, OrNullFacts
      <3> HIDE DEF w
      <3>4. AddChild(Get(w, t), s, x) = A /\ A # Missing
        BY <1>1, <3>2 DEF A, w
      <3>5. Run(w, AddOp(Append(t, s), x)) =
                Done(Update(w, t, AddChild(Get(w, t), s, x)),
                     IF Get(w, t).tag = "object" THEN Child(Get(w, t), s) ELSE Missing)
        BY <1>1, <3>4, RunAdd
      <3>6. Run(w, AddOp(r, x)).ok /\ Run(w, AddOp(r, x)).doc = Update(w, t, A)
        BY <3>1, <3>4, <3>5 DEF Done
      <3> QED
        BY <2>2, <3>3, <3>6 DEF Follows, w
    <2> QED
      BY <2>3, <2>4
  <1>9. CASE ~IsPrefix(p, path) /\ IsPrefix(path, p)
    <2> DEFINE r == Below(p, path)
    <2>1. r \in Pointer /\ p = path \o r
      BY <1>5, <1>9, PrefixConcat
    <2>2. Scoped(o, p) = <<AddOp(<<>>, OrNull(Get(x, r)))>>
      BY <1>1, <1>9, ScopedAdd
    <2> HIDE DEF r
    <2>3. NoIndex(s) \/ P.tag # "array"
      BY <1>1, <2>1, AvoidsChild DEF path, P
    <2>4. Get(e, p) = Get(x, r)
      BY <1>5, <1>6, <2>1, <2>3, GetConcat
    <2>5. OrNull(Get(d, p)) # Missing
      BY OrNullFacts
    <2> QED
      BY <2>2, <2>4, <2>5, RunWhole DEF Follows
  <1>10. CASE ~IsPrefix(p, path) /\ ~IsPrefix(path, p)
    <2>1. Scoped(o, p) = <<>>
      BY <1>1, <1>10, ScopedAdd
    <2>2. Get(Update(d, q, A), p) = Get(d, p)
      BY <1>1, <1>3, <1>7, <1>10, ChangeElsewhere DEF P, path
    <2> QED
      BY <1>1, <2>1, <2>2 DEF Follows
  <1> QED
    BY <1>8, <1>9, <1>10

\* So does a removal.
LEMMA RemoveScoped ==
    ASSUME NEW d, Shaped(d), NEW o, NEW e, NEW q, NEW s, Removes(d, o, e, q, s),
           NEW p \in Pointer, Avoids(d, q, p)
    PROVE  Follows(Scoped(o, p), OrNull(Get(d, p)), OrNull(Get(e, p)))
  <1> DEFINE P == Get(d, q)
             A == DropChild(P, s)
             path == Append(q, s)
  <1>1. /\ q \in Pointer /\ s \in Segment /\ Child(P, s) # Missing
        /\ o = RemoveOp(path) /\ e = Update(d, q, A)
    BY DEF Removes
  <1>2. Node(P) /\ Shaped(P)
    BY <1>1, ShapedGet
  <1>3. P # Missing /\ A # Missing
    BY <1>1, <1>2, ShapedDrop DEF Child, Missing
  <1>4. Get(e, q) = A
    BY <1>1, <1>3, UpdateFacts DEF Updates
  <1>5. path \in Pointer /\ Get(e, path) = Child(A, s) /\ Get(d, path) = Child(P, s)
    <2>1. q \in Pointer /\ s \in Segment
      BY <1>1
    <2>2. path \in Pointer /\ \A v : Get(v, path) = Child(Get(v, q), s)
      BY <2>1, AppendFront
    <2> QED
      BY <1>4, <2>2
  <1>6. NoIndex(s) \/ P.tag # "array" => Child(A, s) = Missing
    <2>1. NoIndex(s) \/ P.tag # "array" => P.tag = "object"
      BY <1>1, ChildHas, NoIndexChild
    <2> QED
      BY <1>1, <1>2, <2>1, DropChildObj
  <1>7. \A k \in Segment : (NoIndex(k) \/ P.tag # "array") /\ k # s => Child(A, k) = Child(P, k)
    <2> SUFFICES ASSUME NEW k \in Segment, NoIndex(k) \/ P.tag # "array", k # s
                 PROVE  Child(A, k) = Child(P, k)
      OBVIOUS
    <2>1. CASE P.tag = "array"
      <3>1. A.tag = "array"
        BY <1>1, <1>2, <2>1, DropChildArr
      <3> QED
        BY <2>1, <3>1, NoIndexChild
    <2>2. CASE P.tag = "object"
      BY <1>1, <1>2, <2>2, DropChildObj
    <2> QED
      BY <1>1, <2>1, <2>2, ChildHas
  <1> HIDE DEF A, P, path
  <1>8. CASE ~IsPrefix(path, p) /\ IsPrefix(p, path)
    <2> DEFINE r == Below(path, p)
    <2>1. r \in Pointer /\ path = p \o r
      BY <1>5, <1>8, PrefixConcat
    <2>2. Scoped(o, p) = <<RemoveOp(r)>>
      BY <1>1, <1>8, ScopedRemove
    <2> HIDE DEF r
    <2>4. r # <<>>
      <3> SUFFICES ASSUME r = <<>> PROVE FALSE
        OBVIOUS
      <3>1. path = p
        BY <2>1, ConcatNothing
      <3> QED
        BY <1>8, <3>1
    <2>5. PICK t \in Pointer : r = Append(t, s) /\ q = p \o t
      <3>1. /\ q \in Pointer /\ s \in Segment /\ r \in Pointer /\ r # <<>>
            /\ Append(q, s) = p \o r
        BY <1>1, <2>1, <2>4 DEF path
      <3> DEFINE f == Front(r)
                 l == Last(r)
      <3>2. f \in Pointer /\ l \in Segment /\ r = Append(f, l)
        BY <3>1, FrontLast
      <3> HIDE DEF f, l
      <3>3. p \o Append(f, l) = Append(p \o f, l) /\ p \o f \in Pointer
        BY <3>2, ConcatAppend
      <3> DEFINE a == p \o f
      <3>4. a \in Seq(Segment) /\ q \in Seq(Segment) /\ Append(q, s) = Append(a, l)
        BY <3>1, <3>2, <3>3 DEF Pointer
      <3> HIDE DEF a
      <3>5. q = a /\ s = l
        BY <3>1, <3>2, <3>4, AppendInjective
      <3> QED
        BY <3>2, <3>5 DEF a
    <2>6. /\ Get(d, p) # Missing /\ Get(Get(d, p), t) = P
          /\ Get(e, p) = Update(Get(d, p), t, A) /\ Update(Get(d, p), t, A) # Missing
      <3>1. Get(d, p \o t) = P /\ P # Missing /\ A # Missing
        BY <1>1, <1>3, <2>5 DEF P
      <3>2. /\ Get(d, p) # Missing /\ Get(Get(d, p), t) = Get(d, p \o t)
            /\ Get(Update(d, p \o t, A), p) = Update(Get(d, p), t, A)
            /\ Update(Get(d, p), t, A) # Missing
        BY <3>1, ChangeBelow
      <3> QED
        BY <1>1, <2>5, <3>1, <3>2
    <2> DEFINE w == Get(d, p)
    <2>7. OrNull(w) = w /\ OrNull(Get(e, p)) = Update(w, t, A)
      BY <2>6, OrNullFacts
    <2> HIDE DEF w
    <2>8. DropChild(Get(w, t), s) = A /\ Child(Get(w, t), s) # Missing
      BY <1>1, <2>6 DEF A, w
    <2>9. Run(w, RemoveOp(Append(t, s))) =
              Done(Update(w, t, DropChild(Get(w, t), s)), Child(Get(w, t), s))
      BY <1>1, <2>8, RunRemove
    <2>10. Run(w, RemoveOp(r)).ok /\ Run(w, RemoveOp(r)).doc = Update(w, t, A)
      BY <2>5, <2>8, <2>9 DEF Done
    <2> QED
      BY <2>2, <2>7, <2>10 DEF Follows, w
  <1>9. CASE IsPrefix(path, p)
    <2> DEFINE r == Below(p, path)
    <2>1. r \in Pointer /\ p = path \o r
      BY <1>5, <1>9, PrefixConcat
    <2>2. Scoped(o, p) = <<ReplaceOp(<<>>, Null)>>
      BY <1>1, <1>9, ScopedRemove
    <2> HIDE DEF r
    <2>3. NoIndex(s) \/ P.tag # "array"
      BY <1>1, <2>1, AvoidsChild DEF path, P
    <2>4. Get(e, p) = Missing
      BY <1>5, <1>6, <2>1, <2>3, GetConcat, GetMissing
    <2>5. OrNull(Get(d, p)) # Missing /\ OrNull(Get(e, p)) = Null
      BY <2>4, OrNullFacts
    <2> QED
      BY <2>2, <2>5, RunWhole DEF Follows
  <1>10. CASE ~IsPrefix(p, path) /\ ~IsPrefix(path, p)
    <2>1. Scoped(o, p) = <<>>
      BY <1>1, <1>10, ScopedRemove
    <2>2. Get(Update(d, q, A), p) = Get(d, p)
      BY <1>1, <1>3, <1>7, <1>10, ChangeElsewhere DEF P, path
    <2> QED
      BY <1>1, <2>1, <2>2 DEF Follows
  <1> QED
    BY <1>8, <1>9, <1>10

\* So does a replacement.
LEMMA ReplaceScoped ==
    ASSUME NEW d, Shaped(d), NEW o, NEW e, NEW path, NEW x, Replaces(d, o, e, path, x),
           NEW p \in Pointer
    PROVE  Follows(Scoped(o, p), OrNull(Get(d, p)), OrNull(Get(e, p)))
  <1>1. /\ path \in Pointer /\ Shaped(x) /\ x # Missing
        /\ o = ReplaceOp(path, x) /\ Get(d, path) # Missing /\ e = Update(d, path, x)
    BY DEF Replaces
  <1>2. Get(e, path) = x
    BY <1>1, UpdateFacts DEF Updates
  <1>3. CASE IsPrefix(p, path)
    <2> DEFINE r == Below(path, p)
               w == Get(d, p)
    <2>1. r \in Pointer /\ path = p \o r
      BY <1>1, <1>3, PrefixConcat
    <2>2. Scoped(o, p) = <<ReplaceOp(r, x)>>
      BY <1>1, <1>3, ScopedReplace
    <2> HIDE DEF r
    <2>3. /\ w # Missing /\ Get(w, r) = Get(d, path)
          /\ Get(e, p) = Update(w, r, x) /\ Update(w, r, x) # Missing
      BY <1>1, <2>1, ChangeBelow
    <2>4. OrNull(w) = w /\ OrNull(Get(e, p)) = Update(w, r, x)
      BY <2>3, OrNullFacts
    <2> HIDE DEF w
    <2>5. Run(w, ReplaceOp(r, x)) = Done(Update(w, r, x), Get(w, r))
      BY <1>1, <2>1, <2>3, RunReplace
    <2>6. Run(w, ReplaceOp(r, x)).ok /\ Run(w, ReplaceOp(r, x)).doc = Update(w, r, x)
      BY <2>5 DEF Done
    <2> QED
      BY <2>2, <2>4, <2>6 DEF Follows, w
  <1>4. CASE ~IsPrefix(p, path) /\ IsPrefix(path, p)
    <2> DEFINE r == Below(p, path)
    <2>1. r \in Pointer /\ p = path \o r
      BY <1>1, <1>4, PrefixConcat
    <2>2. Scoped(o, p) = <<ReplaceOp(<<>>, OrNull(Get(x, r)))>>
      BY <1>1, <1>4, ScopedReplace
    <2> HIDE DEF r
    <2>3. Get(e, p) = Get(x, r)
      BY <1>1, <1>2, <2>1, GetConcat
    <2>4. OrNull(Get(d, p)) # Missing
      BY OrNullFacts
    <2> QED
      BY <2>2, <2>3, <2>4, RunWhole DEF Follows
  <1>5. CASE ~IsPrefix(p, path) /\ ~IsPrefix(path, p)
    <2>1. Scoped(o, p) = <<>>
      BY <1>1, <1>5, ScopedReplace
    <2>2. Get(e, p) = Get(d, p)
      BY <1>1, <1>5, UpdateElsewhere
    <2> QED
      BY <2>1, <2>2 DEF Follows
  <1> QED
    BY <1>3, <1>4, <1>5

\* What for_path leaves of an operation makes of the part at the pointer what
\* the operation makes of it.
LEMMA StepScoped ==
    ASSUME NEW d, NEW o, NEW e, Step(d, o, e), NEW T, Sited(T, d, o),
           NEW p \in Pointer, Keyed(T, p)
    PROVE  Follows(Scoped(o, p), OrNull(Get(d, p)), OrNull(Get(e, p)))
  <1>0. Shaped(d)
    BY DEF Step
  <1>1. ASSUME NEW q \in Pointer, NEW s \in Segment, o.path = Append(q, s), o.op # "replace"
        PROVE  Avoids(d, q, p)
    <2>1. PICK u \in Pointer, k \in Segment :
             o.path = Append(u, k) /\ (Get(d, u).tag = "array" => Get(T, u).tag = "array")
      BY <1>1 DEF Sited
    <2>2. u = q
      <3>1. u \in Seq(Segment) /\ q \in Seq(Segment) /\ Append(u, k) = Append(q, s)
        BY <1>1, <2>1 DEF Pointer
      <3> QED
        BY <3>1, AppendInjective
    <2> QED
      BY <2>1, <2>2, KeyedSplits DEF KeyedSplit, Avoids
  <1>2. ASSUME NEW q, NEW s, NEW x, Adds(d, o, e, q, s, x)
        PROVE  Follows(Scoped(o, p), OrNull(Get(d, p)), OrNull(Get(e, p)))
    <2>1. q \in Pointer /\ s \in Segment /\ o.path = Append(q, s) /\ o.op # "replace"
      BY <1>2 DEF Adds, AddOp
    <2> QED
      BY <1>0, <1>1, <1>2, <2>1, AddScoped
  <1>3. ASSUME NEW q, NEW s, Removes(d, o, e, q, s)
        PROVE  Follows(Scoped(o, p), OrNull(Get(d, p)), OrNull(Get(e, p)))
    <2>1. q \in Pointer /\ s \in Segment /\ o.path = Append(q, s) /\ o.op # "replace"
      BY <1>3 DEF Removes, RemoveOp
    <2> QED
      BY <1>0, <1>1, <1>3, <2>1, RemoveScoped
  <1> QED
    BY <1>0, <1>2, <1>3, ReplaceScoped DEF Step

(***************************************************************************)
(* Courses of documents.                                                   *)
(***************************************************************************)
\* The equation of the function in Course, on 0..m.
Courses(f, v, ops, m) ==
    f = [n \in 0..m |-> IF n = 0 THEN v ELSE Run(f[n - 1], ops[n]).doc]

\* The equation has a solution, of any length.
LEMMA CourseExists ==
    ASSUME NEW v, NEW ops
    PROVE  \A m \in Nat : \E f : Courses(f, v, ops, m)
  <1> DEFINE S == {m \in Nat : \E f : Courses(f, v, ops, m)}
  <1>1. 0 \in S
    <2> DEFINE f == [n \in 0..0 |-> v]
    <2>1. Courses(f, v, ops, 0)
      BY DEF Courses
    <2> QED
      BY <2>1
  <1>2. ASSUME NEW m \in Nat, m \in S PROVE m + 1 \in S
    <2>1. PICK f : Courses(f, v, ops, m)
      BY <1>2
    <2> DEFINE last == Run(f[m], ops[(m + 1)]).doc
               g == [n \in 0..(m + 1) |-> IF n = m + 1 THEN last ELSE f[n]]
    <2>2. \A n \in 0..m : f[n] = IF n = 0 THEN v ELSE Run(f[n - 1], ops[n]).doc
      BY <2>1 DEF Courses
    <2>3. ASSUME NEW n \in 0..(m + 1)
          PROVE  g[n] = IF n = 0 THEN v ELSE Run(g[n - 1], ops[n]).doc
      <3>1. CASE n = m + 1
        <4>1. g[n] = Run(f[m], ops[n]).doc /\ n # 0 /\ n - 1 = m
          BY <3>1
        <4>2. m \in 0..(m + 1) /\ m # m + 1
          OBVIOUS
        <4>3. g[m] = f[m]
          BY <4>2
        <4> QED
          BY <4>1, <4>3
      <3>2. CASE n # m + 1
        <4>1. n \in 0..m /\ g[n] = f[n]
          BY <3>2
        <4>2. n # 0 => g[n - 1] = f[n - 1]
          BY <4>1
        <4> QED
          BY <2>2, <4>1, <4>2
      <3> QED
        BY <3>1, <3>2
    <2>4. Courses(g, v, ops, m + 1)
      <3>1. g = [n \in 0..(m + 1) |-> g[n]]
        OBVIOUS
      <3> HIDE DEF g
      <3> QED
        BY <2>3, <3>1 DEF Courses
    <2> QED
      BY <2>4
  <1> HIDE DEF S
  <1>3. \A m \in Nat : m \in S
    BY <1>1, <1>2, SetInduction
  <1> QED
    BY <1>3 DEF S

\* docs are what the operations make of v, one after the other.
Unfolds(docs, v, ops) ==
    /\ Len(ops) \in Nat /\ docs[0] = v
    /\ \A n \in 1..Len(ops) : docs[n] = Run(docs[n - 1], ops[n]).doc

\* Course is what the operations lead to one after the other.
LEMMA CourseFollows ==
    ASSUME NEW v, NEW ops, NEW docs, Unfolds(docs, v, ops)
    PROVE  \A n \in 0..Len(ops) : Course(v, ops)[n] = docs[n]
  <1> USE DEF Unfolds
  <1> DEFINE at == CHOOSE f : f = [n \in 0..Len(ops) |->
                                      IF n = 0 THEN v ELSE Run(f[n - 1], ops[n]).doc]
             L == Len(ops)
  <1>1. \E f : f = [n \in 0..Len(ops) |-> IF n = 0 THEN v ELSE Run(f[n - 1], ops[n]).doc]
    <2>1. PICK f : Courses(f, v, ops, Len(ops))
      BY CourseExists
    <2> QED
      BY <2>1 DEF Courses
  <1>2. at = [n \in 0..Len(ops) |-> IF n = 0 THEN v ELSE Run(at[n - 1], ops[n]).doc]
    BY <1>1
  <1>3. Course(v, ops) = at
    BY DEF Course
  <1> HIDE DEF at
  <1>4. \A n \in 0..L : at[n] = IF n = 0 THEN v ELSE Run(at[n - 1], ops[n]).doc
    BY <1>2
  <1> DEFINE S == {n \in Nat : n <= L => at[n] = docs[n]}
  <1>5. 0 \in S
    BY <1>4
  <1>6. ASSUME NEW n \in Nat, n \in S PROVE n + 1 \in S
    <2> SUFFICES ASSUME n + 1 <= L PROVE at[n + 1] = docs[n + 1]
      OBVIOUS
    <2>1. at[n] = docs[n]
      BY <1>6
    <2>2. n + 1 \in 0..L /\ n + 1 \in 1..L /\ n + 1 # 0 /\ (n + 1) - 1 = n
      OBVIOUS
    <2>3. at[n + 1] = Run(at[n], ops[n + 1]).doc
      BY <1>4, <2>2
    <2>4. docs[n + 1] = Run(docs[n], ops[n + 1]).doc
      BY <2>2
    <2> QED
      BY <2>1, <2>3, <2>4
  <1> HIDE DEF S
  <1>7. \A n \in Nat : n \in S
    BY <1>5, <1>6, SetInduction
  <1> QED
    BY <1>3, <1>7 DEF S

\* An operation that succeeds; on the way to a document T, one that finds what
\* it is for.
Move(T, d, o, e) ==
    Run(d, o).ok /\ Run(d, o).doc = e /\ (T # Missing => Step(d, o, e) /\ Sited(T, d, o))

Trace(T, docs, ops, v, w) ==
    /\ docs[0] = v /\ docs[Len(ops)] = w
    /\ \A n \in 1..Len(ops) : Move(T, docs[n - 1], ops[n], docs[n])

Leads(T, ops, v, w) ==
    /\ ops \in Seq(Range(ops))
    /\ \E docs : Trace(T, docs, ops, v, w)

\* No operations lead from a document to itself.
LEMMA LeadsNone ==
    ASSUME NEW T, NEW v
    PROVE  Leads(T, <<>>, v, v)
  <1> DEFINE docs == [n \in 0..0 |-> v]
  <1>1. Len(<<>>) = 0 /\ <<>> \in Seq(Range(<<>>))
    OBVIOUS
  <1>2. Trace(T, docs, <<>>, v, v)
    BY <1>1 DEF Trace
  <1> QED
    BY <1>1, <1>2 DEF Leads

\* One operation.
LEMMA LeadsOne ==
    ASSUME NEW T, NEW v, NEW o, NEW w, Move(T, v, o, w)
    PROVE  Leads(T, <<o>>, v, w)
  <1> DEFINE docs == [n \in 0..1 |-> IF n = 0 THEN v ELSE w]
             ops == <<o>>
  <1>1. Len(ops) = 1 /\ ops[1] = o /\ ops \in Seq({o})
    OBVIOUS
  <1>2. docs[0] = v /\ docs[1] = w
    OBVIOUS
  <1> HIDE DEF docs, ops
  <1>3. Trace(T, docs, ops, v, w)
    BY <1>1, <1>2 DEF Trace
  <1>4. ops \in Seq(Range(ops))
    BY <1>1, SeqOfRange
  <1>5. Leads(T, ops, v, w)
    BY <1>3, <1>4 DEF Leads
  <1> QED
    BY <1>5 DEF ops

\* Operations after operations.
LEMMA LeadsConcat ==
    ASSUME NEW T, NEW a, NEW b, NEW u, NEW v, NEW w,
           Leads(T, a, u, v), Leads(T, b, v, w)
    PROVE  Leads(T, a \o b, u, w)
  <1>1. PICK f : Trace(T, f, a, u, v)
    BY DEF Leads
  <1>2. PICK g : Trace(T, g, b, v, w)
    BY DEF Leads
  <1> DEFINE S == Range(a) \cup Range(b)
             m == Len(a)
             n == Len(b)
             c == a \o b
  <1>3. a \in Seq(S) /\ b \in Seq(S)
    BY SeqMonotonic DEF Leads
  <1> HIDE DEF S
  <1>4. /\ m \in Nat /\ n \in Nat /\ c \in Seq(S) /\ Len(c) = m + n
        /\ \A i \in 1..(m + n) : c[i] = IF i <= m THEN a[i] ELSE b[i - m]
    BY <1>3, ConcatProperties
  <1> DEFINE docs == [i \in 0..(m + n) |-> IF i <= m THEN f[i] ELSE g[i - m]]
  <1>5. f[0] = u /\ f[m] = v /\ \A i \in 1..m : Move(T, f[i - 1], a[i], f[i])
    BY <1>1 DEF Trace
  <1>6. g[0] = v /\ g[n] = w /\ \A i \in 1..n : Move(T, g[i - 1], b[i], g[i])
    BY <1>2 DEF Trace
  <1>7. \A i \in 0..(m + n) : docs[i] = IF i <= m THEN f[i] ELSE g[i - m]
    OBVIOUS
  <1> HIDE DEF docs, c, m, n
  <1>8. docs[0] = u
    BY <1>4, <1>5, <1>7
  <1>9. docs[m + n] = w
    <2>1. CASE n = 0
      <3>1. m + n = m /\ m + n <= m /\ m + n \in 0..(m + n)
        BY <1>4, <2>1
      <3> QED
        BY <1>5, <1>6, <1>7, <2>1, <3>1
    <2>2. CASE n # 0
      <3>1. ~(m + n <= m) /\ (m + n) - m = n /\ m + n \in 0..(m + n)
        BY <1>4, <2>2
      <3> QED
        BY <1>6, <1>7, <3>1
    <2> QED
      BY <2>1, <2>2
  <1>10. ASSUME NEW i \in 1..(m + n) PROVE Move(T, docs[i - 1], c[i], docs[i])
    <2>1. CASE i <= m
      <3>1. /\ i \in 1..m /\ i \in 0..(m + n) /\ i - 1 \in 0..(m + n) /\ i - 1 <= m
        BY <1>4, <2>1
      <3>2. docs[i] = f[i] /\ docs[i - 1] = f[i - 1] /\ c[i] = a[i]
        BY <1>4, <1>7, <2>1, <3>1
      <3> QED
        BY <1>5, <3>1, <3>2
    <2>2. CASE ~(i <= m)
      <3>1. /\ i - m \in 1..n /\ i \in 0..(m + n) /\ i - 1 \in 0..(m + n) /\ (i - 1) - m = (i - m) - 1
        BY <1>4, <2>2
      <3>2. docs[i] = g[i - m] /\ c[i] = b[i - m]
        BY <1>4, <1>7, <2>2, <3>1
      <3>3. docs[i - 1] = g[(i - m) - 1]
        <4>1. CASE i - 1 <= m
          <5>1. i - 1 = m /\ (i - m) - 1 = 0
            BY <1>4, <2>2, <4>1
          <5> QED
            BY <1>5, <1>6, <1>7, <3>1, <4>1, <5>1
        <4>2. CASE ~(i - 1 <= m)
          BY <1>7, <3>1, <4>2
        <4> QED
          BY <4>1, <4>2
      <3> QED
        BY <1>6, <3>1, <3>2, <3>3
    <2> QED
      BY <2>1, <2>2
  <1>11. Trace(T, docs, c, u, w)
    BY <1>4, <1>8, <1>9, <1>10 DEF Trace
  <1>12. c \in Seq(Range(c))
    BY <1>4, SeqOfRange
  <1> QED
    BY <1>11, <1>12 DEF Leads, c

\* The first that fails ends a patch; if none does, all are done.
LEMMA LeadsPatch ==
    ASSUME NEW T, NEW ops, NEW v, NEW w, Leads(T, ops, v, w)
    PROVE  ApplyPatches(v, ops).ok /\ ApplyPatches(v, ops).doc = w
  <1>1. PICK docs : Trace(T, docs, ops, v, w)
    BY DEF Leads
  <1> DEFINE N == Len(ops)
             at == Course(v, ops)
             bad == {n \in 1..N : ~Run(at[n - 1], ops[n]).ok}
  <1>2. N \in Nat
    BY DEF Leads
  <1>3. \A n \in 1..N : Run(docs[n - 1], ops[n]).ok /\ docs[n] = Run(docs[n - 1], ops[n]).doc
    BY <1>1 DEF Trace, Move
  <1>4. docs[0] = v /\ docs[N] = w
    BY <1>1 DEF Trace
  <1>5. \A n \in 0..N : at[n] = docs[n]
    <2>1. Unfolds(docs, v, ops)
      BY <1>2, <1>3, <1>4 DEF Unfolds
    <2> QED
      BY <2>1, CourseFollows
  <1>6. bad = {}
    <2> SUFFICES ASSUME NEW n \in 1..N PROVE Run(at[n - 1], ops[n]).ok
      OBVIOUS
    <2>1. n - 1 \in 0..N
      BY <1>2
    <2> QED
      BY <1>3, <1>5, <2>1
  <1>7. at[N] = w
    BY <1>2, <1>4, <1>5
  <1> QED
    BY <1>6, <1>7 DEF ApplyPatches

\* The undo of a patch of operations that found what they were for.
LEMMA LeadsUndone ==
    ASSUME NEW T, T # Missing, NEW ops, NEW v, NEW w, Leads(T, ops, v, w)
    PROVE  UndoAll(w, ApplyPatches(v, ops).undo) = v
  <1>1. PICK docs : Trace(T, docs, ops, v, w)
    BY DEF Leads
  <1> DEFINE N == Len(ops)
             at == Course(v, ops)
             bad == {n \in 1..N : ~Run(at[n - 1], ops[n]).ok}
             undone == [n \in 1..N |-> UndoOf(ops[n], Run(at[n - 1], ops[n]).prev)]
             rev == Reverse(undone)
             back == [k \in 0..N |-> docs[N - k]]
  <1>2. N \in Nat
    BY DEF Leads
  <1>3. \A n \in 1..N : /\ Run(docs[n - 1], ops[n]).ok
                         /\ docs[n] = Run(docs[n - 1], ops[n]).doc
                         /\ Step(docs[n - 1], ops[n], docs[n])
    BY <1>1 DEF Trace, Move
  <1>4. docs[0] = v /\ docs[N] = w
    BY <1>1 DEF Trace
  <1>5. \A n \in 0..N : at[n] = docs[n]
    <2>1. Unfolds(docs, v, ops)
      BY <1>2, <1>3, <1>4 DEF Unfolds
    <2> QED
      BY <2>1, CourseFollows
  <1>6. bad = {}
    <2> SUFFICES ASSUME NEW n \in 1..N PROVE Run(at[n - 1], ops[n]).ok
      OBVIOUS
    <2>1. n - 1 \in 0..N
      BY <1>2
    <2> QED
      BY <1>3, <1>5, <2>1
  <1>7. ApplyPatches(v, ops).undo = undone
    BY <1>6 DEF ApplyPatches
  <1> HIDE DEF at, bad
  <1>8. Len(undone) = N
    BY <1>2
  <1>9. \A n \in 1..N : undone[n] = UndoOf(ops[n], Run(docs[n - 1], ops[n]).prev)
    <2> TAKE n \in 1..N
    <2>1. n - 1 \in 0..N
      BY <1>2
    <2> QED
      BY <1>5, <2>1
  <1> HIDE DEF undone
  <1>10. Len(rev) = N /\ \A k \in 1..N : rev[k] = undone[(N - k) + 1]
    BY <1>2, <1>8 DEF Reverse
  <1>11. \A k \in 0..N : back[k] = docs[N - k]
    OBVIOUS
  <1> HIDE DEF rev, back, N
  <1>12. ASSUME NEW k \in 1..N PROVE back[k] = Run(back[k - 1], rev[k]).doc
    <2> DEFINE n == (N - k) + 1
    <2>1. /\ n \in 1..N /\ k \in 0..N /\ k - 1 \in 0..N /\ N - k = n - 1 /\ N - (k - 1) = n
      BY <1>2
    <2>2. rev[k] = UndoOf(ops[n], Run(docs[n - 1], ops[n]).prev)
      BY <1>9, <1>10, <2>1
    <2>3. back[k] = docs[n - 1] /\ back[k - 1] = docs[n]
      BY <1>11, <2>1
    <2> HIDE DEF n
    <2>4. Step(docs[n - 1], ops[n], docs[n])
      BY <1>3, <2>1
    <2> QED
      BY <2>2, <2>3, <2>4, StepUndone
  <1>13. back[0] = w /\ back[N] = v
    BY <1>2, <1>4, <1>11
  <1>14. Course(w, rev)[N] = back[N]
    <2>1. Len(rev) \in Nat /\ \A k \in 1..Len(rev) : back[k] = Run(back[k - 1], rev[k]).doc
      BY <1>2, <1>10, <1>12
    <2>2. Unfolds(back, w, rev)
      BY <1>13, <2>1 DEF Unfolds
    <2>3. \A k \in 0..Len(rev) : Course(w, rev)[k] = back[k]
      BY <2>2, CourseFollows
    <2> QED
      BY <1>2, <1>10, <2>3
  <1> QED
    BY <1>7, <1>8, <1>13, <1>14 DEF UndoAll, rev

\* The equation of the function in FlattenSeq, on 1..m.
Flattens(f, seqs, m) ==
    f = [i \in 1..m |-> IF i = 1 THEN seqs[i] ELSE f[i - 1] \o seqs[i]]

\* The equation has a solution, of any length.
LEMMA FlattenExists ==
    ASSUME NEW seqs
    PROVE  \A m \in Nat : \E f : Flattens(f, seqs, m)
  <1> DEFINE S == {m \in Nat : \E f : Flattens(f, seqs, m)}
  <1>1. 0 \in S
    <2> DEFINE f == [n \in 1..0 |-> seqs]
    <2>1. 1..0 = {}
      OBVIOUS
    <2>2. Flattens(f, seqs, 0)
      BY <2>1 DEF Flattens
    <2> QED
      BY <2>2
  <1>2. ASSUME NEW m \in Nat, m \in S PROVE m + 1 \in S
    <2>1. PICK f : Flattens(f, seqs, m)
      BY <1>2
    <2> DEFINE last == IF m + 1 = 1 THEN seqs[m + 1] ELSE f[m] \o seqs[m + 1]
               g == [n \in 1..(m + 1) |-> IF n = m + 1 THEN last ELSE f[n]]
    <2>2. \A n \in 1..m : f[n] = IF n = 1 THEN seqs[n] ELSE f[n - 1] \o seqs[n]
      BY <2>1 DEF Flattens
    <2>3. ASSUME NEW n \in 1..(m + 1)
          PROVE  g[n] = IF n = 1 THEN seqs[n] ELSE g[n - 1] \o seqs[n]
      <3>1. CASE n = m + 1
        <4>1. g[n] = IF n = 1 THEN seqs[n] ELSE f[m] \o seqs[n]
          BY <3>1
        <4>2. n # 1 => n - 1 = m /\ m \in 1..(m + 1) /\ m # m + 1
          BY <3>1
        <4>3. n # 1 => g[n - 1] = f[m]
          BY <4>2
        <4> QED
          BY <4>1, <4>3
      <3>2. CASE n # m + 1
        <4>1. n \in 1..m /\ g[n] = f[n]
          BY <3>2
        <4>2. n # 1 => g[n - 1] = f[n - 1]
          BY <4>1
        <4> QED
          BY <2>2, <4>1, <4>2
      <3> QED
        BY <3>1, <3>2
    <2>4. Flattens(g, seqs, m + 1)
      <3>1. g = [n \in 1..(m + 1) |-> g[n]]
        OBVIOUS
      <3> HIDE DEF g
      <3> QED
        BY <2>3, <3>1 DEF Flattens
    <2> QED
      BY <2>4
  <1> HIDE DEF S
  <1>3. \A m \in Nat : m \in S
    BY <1>1, <1>2, SetInduction
  <1> QED
    BY <1>3 DEF S

\* Patches put together.
LEMMA LeadsFlatten ==
    ASSUME NEW T, NEW X, NEW seqs \in Seq(X), NEW D,
           \A i \in 1..Len(seqs) : Leads(T, seqs[i], D[i - 1], D[i])
    PROVE  Leads(T, FlattenSeq(seqs), D[0], D[Len(seqs)])
  <1> DEFINE N == Len(seqs)
  <1>0. N \in Nat
    OBVIOUS
  <1>1. CASE N = 0
    <2>1. seqs = <<>> /\ FlattenSeq(seqs) = seqs
      BY <1>1 DEF FlattenSeq
    <2> QED
      BY <1>1, <2>1, LeadsNone
  <1>2. CASE N # 0
    <2> DEFINE flat == CHOOSE f : f = [i \in 1..Len(seqs) |->
                                         IF i = 1 THEN seqs[i] ELSE f[i - 1] \o seqs[i]]
    <2>1. \E f : f = [i \in 1..Len(seqs) |-> IF i = 1 THEN seqs[i] ELSE f[i - 1] \o seqs[i]]
      <3>1. PICK f : Flattens(f, seqs, Len(seqs))
        BY <1>0, FlattenExists, ZenonT(30)
      <3> QED
        BY <3>1, ZenonT(30) DEF Flattens
    <2>2. flat = [i \in 1..Len(seqs) |-> IF i = 1 THEN seqs[i] ELSE flat[i - 1] \o seqs[i]]
      BY <2>1
    <2>3. FlattenSeq(seqs) = flat[N]
      BY <1>2 DEF FlattenSeq
    <2> HIDE DEF flat
    <2>4. \A i \in 1..N : flat[i] = IF i = 1 THEN seqs[i] ELSE flat[i - 1] \o seqs[i]
      BY <2>2
    <2> HIDE DEF N
    <2>l. \A i \in 1..N : Leads(T, seqs[i], D[i - 1], D[i])
      BY DEF N
    <2> DEFINE S == {n \in Nat : n + 1 <= N => Leads(T, flat[n + 1], D[0], D[n + 1])}
    <2>5. 0 \in S
      <3>1. 1 \in 1..N /\ 1 - 1 = 0
        BY <1>0, <1>2
      <3>2. flat[1] = seqs[1] /\ Leads(T, seqs[1], D[0], D[1])
        BY <2>4, <2>l, <3>1
      <3> QED
        BY <3>2
    <2>6. ASSUME NEW n \in Nat, n \in S PROVE n + 1 \in S
      <3> SUFFICES ASSUME (n + 1) + 1 <= N
                   PROVE  Leads(T, flat[(n + 1) + 1], D[0], D[(n + 1) + 1])
        OBVIOUS
      <3>1. Leads(T, flat[n + 1], D[0], D[n + 1])
        BY <1>0, <2>6
      <3>2. (n + 1) + 1 \in 1..N /\ (n + 1) + 1 # 1 /\ ((n + 1) + 1) - 1 = n + 1
        BY <1>0
      <3>3. flat[(n + 1) + 1] = flat[n + 1] \o seqs[(n + 1) + 1]
        BY <2>4, <3>2
      <3>4. Leads(T, seqs[(n + 1) + 1], D[n + 1], D[(n + 1) + 1])
        BY <2>l, <3>2
      <3> QED
        BY <3>1, <3>3, <3>4, LeadsConcat
    <2> HIDE DEF S
    <2>7. \A n \in Nat : n \in S
      BY <2>5, <2>6, SetInduction
    <2>8. N - 1 \in Nat /\ (N - 1) + 1 = N
      BY <1>0, <1>2
    <2>9. Leads(T, flat[N], D[0], D[N])
      <3> DEFINE k == N - 1
      <3>1. k \in Nat /\ k + 1 = N /\ k + 1 <= N
        BY <1>0, <2>8
      <3> HIDE DEF k
      <3>2. k + 1 <= N => Leads(T, flat[k + 1], D[0], D[k + 1])
        BY <2>7, <3>1 DEF S
      <3> QED
        BY <3>1, <3>2
    <2> QED
      BY <2>3, <2>9 DEF N
  <1> QED
    BY <1>1, <1>2

\* What for_path leaves of a patch makes of the part at the pointer what the
\* patch makes of it.
LEMMA LeadsScoped ==
    ASSUME NEW T, T # Missing, NEW ops, NEW v, NEW w, Leads(T, ops, v, w),
           NEW p \in Pointer, Keyed(T, p)
    PROVE  Leads(Missing, ForPath(ops, p), OrNull(Get(v, p)), OrNull(Get(w, p)))
  <1>1. PICK docs : Trace(T, docs, ops, v, w)
    BY DEF Leads
  <1> DEFINE N == Len(ops)
             seqs == [i \in 1..N |-> Scoped(ops[i], p)]
             X == {Scoped(ops[i], p) : i \in 1..N}
             D == [n \in 0..N |-> OrNull(Get(docs[n], p))]
  <1>2. N \in Nat
    BY DEF Leads
  <1>3. /\ docs[0] = v /\ docs[N] = w
        /\ \A n \in 1..N : Step(docs[n - 1], ops[n], docs[n]) /\ Sited(T, docs[n - 1], ops[n])
    BY <1>1 DEF Trace, Move
  <1>4. seqs \in Seq(X) /\ Len(seqs) = N
    <2>1. seqs \in [1..N -> X]
      OBVIOUS
    <2> HIDE DEF seqs, X
    <2> QED
      BY <1>2, <2>1, FunctionIsSeq
  <1>5. \A n \in 0..N : D[n] = OrNull(Get(docs[n], p))
    OBVIOUS
  <1>6. \A i \in 1..N : seqs[i] = Scoped(ops[i], p)
    OBVIOUS
  <1>7. ForPath(ops, p) = FlattenSeq(seqs)
    BY DEF ForPath
  <1> HIDE DEF seqs, X, D
  <1>8. ASSUME NEW i \in 1..N PROVE Leads(Missing, seqs[i], D[i - 1], D[i])
    <2>1. i \in 0..N /\ i - 1 \in 0..N
      BY <1>2
    <2>2. Step(docs[i - 1], ops[i], docs[i]) /\ Sited(T, docs[i - 1], ops[i])
      BY <1>3
    <2>3. Follows(Scoped(ops[i], p), OrNull(Get(docs[i - 1], p)), OrNull(Get(docs[i], p)))
      BY <2>2, StepScoped
    <2>4. Follows(seqs[i], D[i - 1], D[i])
      BY <1>5, <1>6, <2>1, <2>3
    <2>5. CASE seqs[i] = <<>> /\ D[i - 1] = D[i]
      BY <2>5, LeadsNone
    <2>6. ASSUME NEW o, seqs[i] = <<o>>, Run(D[i - 1], o).ok, Run(D[i - 1], o).doc = D[i]
          PROVE  Leads(Missing, seqs[i], D[i - 1], D[i])
      <3>1. Move(Missing, D[i - 1], o, D[i])
        BY <2>6 DEF Move
      <3> QED
        BY <2>6, <3>1, LeadsOne
    <2> QED
      BY <2>4, <2>5, <2>6 DEF Follows
  <1>9. Leads(Missing, FlattenSeq(seqs), D[0], D[Len(seqs)])
    BY <1>4, <1>8, LeadsFlatten
  <1>10. D[0] = OrNull(Get(v, p)) /\ D[N] = OrNull(Get(w, p))
    BY <1>2, <1>3, <1>5
  <1> QED
    BY <1>4, <1>7, <1>9, <1>10

\* An operation on what is at a pointer, on the way to what will be there.
LEMMA SitedPrepended ==
    ASSUME NEW d, NEW o, NEW e, Step(d, o, e), NEW T, Sited(T, d, o),
           NEW v, NEW w, NEW ptr \in Pointer, Get(v, ptr) = d, Get(w, ptr) = T
    PROVE  Sited(w, v, [o EXCEPT !.path = ptr \o @])
  <1> DEFINE oo == [o EXCEPT !.path = ptr \o @]
  <1>1. ASSUME o.op # "replace", oo.path = ptr \o o.path
        PROVE  Sited(w, v, oo)
    <2>1. PICK q \in Pointer, s \in Segment :
             o.path = Append(q, s) /\ (Get(d, q).tag = "array" => Get(T, q).tag = "array")
      BY <1>1 DEF Sited
    <2>2. ptr \o q \in Pointer /\ ptr \o Append(q, s) = Append(ptr \o q, s)
      BY <2>1, ConcatAppend
    <2>3. Get(v, ptr \o q) = Get(d, q) /\ Get(w, ptr \o q) = Get(T, q)
      BY <2>1, GetConcat
    <2> HIDE DEF oo
    <2> QED
      BY <1>1, <2>1, <2>2, <2>3 DEF Sited
  <1>2. ASSUME NEW q, NEW s, NEW x, Adds(d, o, e, q, s, x) PROVE Sited(w, v, oo)
    <2>1. o = AddOp(Append(q, s), x)
      BY <1>2 DEF Adds
    <2>2. oo = AddOp(ptr \o Append(q, s), x)
      BY <2>1, Repath
    <2>3. o.op # "replace" /\ o.path = Append(q, s) /\ oo.path = ptr \o Append(q, s)
      BY <2>1, <2>2 DEF AddOp
    <2> QED
      BY <1>1, <2>3
  <1>3. ASSUME NEW q, NEW s, Removes(d, o, e, q, s) PROVE Sited(w, v, oo)
    <2>1. o = RemoveOp(Append(q, s))
      BY <1>3 DEF Removes
    <2>2. oo = RemoveOp(ptr \o Append(q, s))
      BY <2>1, Repath
    <2>3. o.op # "replace" /\ o.path = Append(q, s) /\ oo.path = ptr \o Append(q, s)
      BY <2>1, <2>2 DEF RemoveOp
    <2> QED
      BY <1>1, <2>3
  <1>4. ASSUME NEW p, NEW x, Replaces(d, o, e, p, x) PROVE Sited(w, v, oo)
    <2>1. o = ReplaceOp(p, x)
      BY <1>4 DEF Replaces
    <2>2. oo = ReplaceOp(ptr \o p, x)
      BY <2>1, Repath
    <2>3. oo.op = "replace"
      BY <2>2 DEF ReplaceOp
    <2> HIDE DEF oo
    <2> QED
      BY <2>3 DEF Sited
  <1> QED
    BY <1>2, <1>3, <1>4 DEF Step

\* A patch of what is at a pointer, as a patch of the document.
LEMMA LeadsPrepended ==
    ASSUME NEW T, Shaped(T), T # Missing, NEW ops, NEW d, NEW e, Leads(T, ops, d, e),
           d # Missing, e # Missing, NEW v, Shaped(v), NEW ptr \in Pointer, Get(v, ptr) = d
    PROVE  Leads(Update(v, ptr, T), Prepend(ops, ptr), v, Update(v, ptr, e))
  <1>1. PICK docs : Trace(T, docs, ops, d, e)
    BY DEF Leads
  <1> DEFINE N == Len(ops)
             pre == Prepend(ops, ptr)
             X == {[ops[i] EXCEPT !.path = ptr \o @] : i \in 1..N}
             D == [n \in 0..N |-> Update(v, ptr, docs[n])]
             U == Update(v, ptr, T)
  <1>2. N \in Nat
    BY DEF Leads
  <1>3. /\ docs[0] = d /\ docs[N] = e
        /\ \A n \in 1..N : Step(docs[n - 1], ops[n], docs[n]) /\ Sited(T, docs[n - 1], ops[n])
    BY <1>1 DEF Trace, Move
  <1>4. pre \in Seq(X) /\ Len(pre) = N
    <2>1. pre \in [1..N -> X]
      BY DEF Prepend
    <2> HIDE DEF pre, X
    <2> QED
      BY <1>2, <2>1, FunctionIsSeq
  <1>5. \A n \in 0..N : D[n] = Update(v, ptr, docs[n])
    OBVIOUS
  <1>6. \A i \in 1..N : pre[i] = [ops[i] EXCEPT !.path = ptr \o @]
    BY DEF Prepend
  <1>u. Get(U, ptr) = T
    BY UpdateFacts DEF Updates
  <1> HIDE DEF pre, X, D, U
  <1>7. D[0] = v
    <2>1. Update(v, ptr, Get(v, ptr)) = v
      BY UpdateFacts DEF Updates
    <2> QED
      BY <1>2, <1>3, <1>5, <2>1
  <1>8. D[N] = Update(v, ptr, e)
    BY <1>2, <1>3, <1>5
  <1>9. ASSUME NEW n \in 1..N PROVE Move(U, D[n - 1], pre[n], D[n])
    <2> DEFINE a == docs[n - 1]
               b == docs[n]
    <2>1. n \in 0..N /\ n - 1 \in 0..N
      BY <1>2
    <2>2. Step(a, ops[n], b) /\ Sited(T, a, ops[n]) /\ Shaped(a) /\ a # Missing
      BY <1>3 DEF Step
    <2>3. D[n - 1] = Update(v, ptr, a) /\ D[n] = Update(v, ptr, b)
      BY <1>5, <2>1
    <2> HIDE DEF a, b
    <2>4. Updates(v, ptr, a)
      BY <2>2, UpdateFacts
    <2>5. Shaped(D[n - 1]) /\ Get(D[n - 1], ptr) = a /\ Update(D[n - 1], ptr, b) = D[n]
      BY <2>2, <2>3, <2>4 DEF Updates
    <2>6. Step(D[n - 1], pre[n], D[n])
      <3>1. Step(D[n - 1], [ops[n] EXCEPT !.path = ptr \o @], Update(D[n - 1], ptr, b))
        BY <2>2, <2>5, StepPrepended
      <3> QED
        BY <1>6, <2>5, <3>1
    <2>7. Sited(U, D[n - 1], pre[n])
      <3>1. Sited(U, D[n - 1], [ops[n] EXCEPT !.path = ptr \o @])
        BY <1>u, <2>2, <2>5, SitedPrepended
      <3> QED
        BY <1>6, <3>1
    <2> QED
      BY <2>6, <2>7, StepRuns DEF Move
  <1>10. Trace(U, D, pre, v, Update(v, ptr, e))
    BY <1>4, <1>7, <1>8, <1>9 DEF Trace
  <1>11. pre \in Seq(Range(pre))
    BY <1>4, SeqOfRange
  <1> QED
    BY <1>10, <1>11 DEF Leads, pre, U

(***************************************************************************)
(* Patches of what is at a pointer.                                        *)
(***************************************************************************)
\* The operations make b of the a that is at the pointer, whatever is around it.
Changes(T, ops, to, a, b) ==
    /\ Shaped(a) /\ a # Missing /\ Shaped(b) /\ b # Missing
    /\ \A v : Shaped(v) /\ Get(v, to) = a => Leads(T, ops, v, Update(v, to, b))

\* A document with something in it, and what replaces it.
LEMMA Around ==
    ASSUME NEW v, Shaped(v), NEW to \in Pointer, Get(v, to) # Missing,
           NEW x, Shaped(x), x # Missing
    PROVE  /\ v # Missing /\ Shaped(Update(v, to, x)) /\ Update(v, to, x) # Missing
           /\ Get(Update(v, to, x), to) = x
           /\ Update(v, to, Get(v, to)) = v
           /\ \A y : Update(Update(v, to, x), to, y) = Update(v, to, y)
  <1>1. v # Missing
    BY GetMissing
  <1>2. Updates(v, to, x)
    BY UpdateFacts
  <1> QED
    BY <1>1, <1>2 DEF Updates

\* No operations change nothing.
LEMMA ChangesNone ==
    ASSUME NEW T, NEW to \in Pointer, NEW a, Shaped(a), a # Missing
    PROVE  Changes(T, <<>>, to, a, a)
  <1> SUFFICES ASSUME NEW v, Shaped(v), Get(v, to) = a
               PROVE  Leads(T, <<>>, v, Update(v, to, a))
    BY DEF Changes
  <1>1. Update(v, to, a) = v
    BY Around
  <1> QED
    BY <1>1, LeadsNone

\* A change after a change of the same part.
LEMMA ChangesConcat ==
    ASSUME NEW T, NEW to \in Pointer, NEW p, NEW q, NEW a, NEW b, NEW c,
           Changes(T, p, to, a, b), Changes(T, q, to, b, c)
    PROVE  Changes(T, p \o q, to, a, c)
  <1>0. /\ Shaped(a) /\ a # Missing /\ Shaped(b) /\ b # Missing /\ Shaped(c) /\ c # Missing
    BY DEF Changes
  <1> SUFFICES ASSUME NEW v, Shaped(v), Get(v, to) = a
               PROVE  Leads(T, p \o q, v, Update(v, to, c))
    BY <1>0 DEF Changes
  <1>1. Leads(T, p, v, Update(v, to, b))
    BY DEF Changes
  <1> DEFINE w == Update(v, to, b)
  <1>2. Shaped(w) /\ Get(w, to) = b /\ Update(w, to, c) = Update(v, to, c)
    BY <1>0, Around
  <1> HIDE DEF w
  <1>3. Leads(T, q, w, Update(w, to, c))
    BY <1>2 DEF Changes
  <1>4. Leads(T, p, v, w)
    BY <1>1 DEF w
  <1> QED
    BY <1>2, <1>3, <1>4, LeadsConcat

\* Any number of changes of the same part, one after the other.
LEMMA ChangesFlatten ==
    ASSUME NEW T, NEW to \in Pointer, NEW X, NEW seqs \in Seq(X), NEW D, Shaped(D[0]), D[0] # Missing,
           \A i \in 1..Len(seqs) : Changes(T, seqs[i], to, D[i - 1], D[i])
    PROVE  Changes(T, FlattenSeq(seqs), to, D[0], D[Len(seqs)])
  <1> DEFINE N == Len(seqs)
  <1>0. N \in Nat
    OBVIOUS
  <1>1. \A i \in 0..N : Shaped(D[i]) /\ D[i] # Missing
    <2> TAKE i \in 0..N
    <2>1. CASE i = 0
      BY <2>1
    <2>2. CASE i # 0
      <3>1. i \in 1..N
        BY <1>0, <2>2
      <3> QED
        BY <3>1 DEF Changes
    <2> QED
      BY <2>1, <2>2
  <1>2. D[N] # Missing /\ Shaped(D[N])
    BY <1>0, <1>1
  <1> SUFFICES ASSUME NEW v, Shaped(v), Get(v, to) = D[0]
               PROVE  Leads(T, FlattenSeq(seqs), v, Update(v, to, D[N]))
    BY <1>2 DEF Changes
  <1> DEFINE E == [i \in 0..N |-> Update(v, to, D[i])]
  <1>3. \A i \in 0..N : E[i] = Update(v, to, D[i])
    OBVIOUS
  <1> HIDE DEF E
  <1>4. ASSUME NEW i \in 1..N PROVE Leads(T, seqs[i], E[i - 1], E[i])
    <2>1. i - 1 \in 0..N /\ i \in 0..N
      BY <1>0
    <2> DEFINE w == Update(v, to, D[i - 1])
               a == D[i - 1]
               b == D[i]
    <2>2. Changes(T, seqs[i], to, a, b)
      OBVIOUS
    <2>3. Shaped(a) /\ a # Missing
      BY <1>1, <2>1
    <2>6. E[i - 1] = w /\ E[i] = Update(v, to, b)
      BY <1>3, <2>1
    <2>7. w = Update(v, to, a)
      OBVIOUS
    <2> HIDE DEF a, b, w
    <2>4. Shaped(w) /\ Get(w, to) = a /\ Update(w, to, b) = Update(v, to, b)
      BY <2>3, <2>7, Around
    <2>5. Leads(T, seqs[i], w, Update(w, to, b))
      BY <2>2, <2>4 DEF Changes
    <2> QED
      BY <2>4, <2>5, <2>6
  <1>5. Leads(T, FlattenSeq(seqs), E[0], E[Len(seqs)])
    BY <1>4, LeadsFlatten
  <1>6. E[0] = v /\ E[N] = Update(v, to, D[N])
    <2>1. Update(v, to, D[0]) = v
      BY Around
    <2> QED
      BY <1>0, <1>3, <2>1
  <1> QED
    BY <1>5, <1>6

\* One operation.
LEMMA ChangesStep ==
    ASSUME NEW T, NEW to \in Pointer, NEW a, NEW b, NEW o,
           Shaped(a), a # Missing, Shaped(b), b # Missing,
           \A v : Shaped(v) /\ Get(v, to) = a /\ v # Missing =>
                \/ \E q, s, x : Adds(v, o, Update(v, to, b), q, s, x)
                \/ \E q, s : Removes(v, o, Update(v, to, b), q, s)
                \/ \E p, x : Replaces(v, o, Update(v, to, b), p, x),
           \A v : Get(v, to) = a => Sited(T, v, o)
    PROVE  Changes(T, <<o>>, to, a, b)
  <1> SUFFICES ASSUME NEW v, Shaped(v), Get(v, to) = a
               PROVE  Leads(T, <<o>>, v, Update(v, to, b))
    BY DEF Changes
  <1>1. v # Missing /\ Shaped(Update(v, to, b)) /\ Update(v, to, b) # Missing
    BY Around
  <1>2. Step(v, o, Update(v, to, b))
    BY <1>1 DEF Step
  <1>3. Move(T, v, o, Update(v, to, b))
    BY <1>2, StepRuns DEF Move
  <1> QED
    BY <1>3, LeadsOne

\* Adding a child changes the part it is added to.
LEMMA ChangesAdd ==
    ASSUME NEW T, NEW to \in Pointer, NEW a, Shaped(a), a # Missing, NEW s \in Segment,
           NEW x, Shaped(x), x # Missing, NEW b, Shaped(b), b # Missing, b = AddChild(a, s, x),
           a.tag = "array" => Get(T, to).tag = "array"
    PROVE  Changes(T, <<AddOp(Append(to, s), x)>>, to, a, b)
  <1>1. \A v : Get(v, to) = a => Adds(v, AddOp(Append(to, s), x), Update(v, to, b), to, s, x)
    BY DEF Adds
  <1>2. AddOp(Append(to, s), x).path = Append(to, s)
    BY DEF AddOp
  <1>3. \A v : Get(v, to) = a => Sited(T, v, AddOp(Append(to, s), x))
    BY <1>2 DEF Sited
  <1> QED
    BY <1>1, <1>3, ChangesStep

\* So does removing one.
LEMMA ChangesRemove ==
    ASSUME NEW T, NEW to \in Pointer, NEW a, Shaped(a), a # Missing, NEW s \in Segment,
           Child(a, s) # Missing, NEW b, b = DropChild(a, s),
           a.tag = "array" => Get(T, to).tag = "array"
    PROVE  Changes(T, <<RemoveOp(Append(to, s))>>, to, a, b)
  <1>1. \A v : Get(v, to) = a => Removes(v, RemoveOp(Append(to, s)), Update(v, to, b), to, s)
    BY DEF Removes
  <1>2. Shaped(b) /\ b # Missing
    BY ShapedDrop
  <1>3. RemoveOp(Append(to, s)).path = Append(to, s)
    BY DEF RemoveOp
  <1>4. \A v : Get(v, to) = a => Sited(T, v, RemoveOp(Append(to, s)))
    BY <1>3 DEF Sited
  <1> QED
    BY <1>1, <1>2, <1>4, ChangesStep

\* Replacing the part makes it what replaces it.
LEMMA ChangesReplace ==
    ASSUME NEW T, NEW to \in Pointer, NEW a, Shaped(a), a # Missing, NEW b, Shaped(b), b # Missing
    PROVE  Changes(T, <<ReplaceOp(to, b)>>, to, a, b)
  <1>1. \A v : Get(v, to) = a => Replaces(v, ReplaceOp(to, b), Update(v, to, b), to, b)
    BY DEF Replaces
  <1>2. ReplaceOp(to, b).op = "replace"
    BY DEF ReplaceOp
  <1>3. \A v : Sited(T, v, ReplaceOp(to, b))
    BY <1>2 DEF Sited
  <1> QED
    BY <1>1, <1>3, ChangesStep

\* Update at one segment.
LEMMA UpdateOne ==
    ASSUME NEW s \in Segment, NEW v, NEW x
    PROVE  Update(v, <<s>>, x) = WithChild(v, s, x)
  <1> DEFINE p == <<s>>
  <1>1. p \in Pointer /\ p # <<>> /\ Head(p) = s /\ Tail(p) = <<>>
    BY DEF Pointer
  <1> HIDE DEF p
  <1>2. Update(v, p, x) = WithChild(v, Head(p), Update(Child(v, Head(p)), Tail(p), x))
    BY <1>1, UpdateCons
  <1>3. Update(Child(v, s), <<>>, x) = x
    BY UpdateNil
  <1>4. Update(v, p, x) = WithChild(v, s, x)
    BY <1>1, <1>2, <1>3
  <1> QED
    BY <1>4 DEF p

\* A change of a child is a change of its parent.
LEMMA ChangesChild ==
    ASSUME NEW T, NEW to \in Pointer, NEW a, Shaped(a), NEW s \in Segment, NEW ops, NEW x, NEW y,
           Changes(T, ops, Append(to, s), x, y), Child(a, s) = x,
           NEW b, b = WithChild(a, s, y)
    PROVE  Changes(T, ops, to, a, b)
  <1>0. Shaped(x) /\ x # Missing /\ Shaped(y) /\ y # Missing /\ a # Missing
    BY DEF Changes, Child, Missing
  <1>1. Append(to, s) \in Pointer /\ Append(to, s) = to \o <<s>> /\ <<s>> \in Pointer
    BY AppendFront
  <1>2. Update(a, <<s>>, y) = b /\ Get(a, <<s>>) = x
    BY GetOne, UpdateOne
  <1>3. Shaped(b) /\ b # Missing
    BY <1>0, <1>1, <1>2, Around
  <1> SUFFICES ASSUME NEW v, Shaped(v), Get(v, to) = a
               PROVE  Leads(T, ops, v, Update(v, to, b))
    BY <1>0, <1>3 DEF Changes
  <1>4. Get(v, Append(to, s)) = x
    <2>1. Get(v, to \o <<s>>) = Get(Get(v, to), <<s>>)
      BY <1>1, GetConcat
    <2> QED
      BY <1>1, <1>2, <2>1
  <1>5. Update(v, Append(to, s), y) = Update(v, to, b)
    <2>1. Update(v, to \o <<s>>, y) = Update(v, to, Update(Get(v, to), <<s>>, y))
      BY <1>1, UpdateBelow
    <2> QED
      BY <1>1, <1>2, <2>1
  <1>6. Leads(T, ops, v, Update(v, Append(to, s), y))
    BY <1>4 DEF Changes
  <1> QED
    BY <1>5, <1>6

(***************************************************************************)
(* The object arm of diff.                                                 *)
(***************************************************************************)
\* SetToSeq lists every element of a finite set once.
LEMMA Listed ==
    ASSUME NEW S, IsFiniteSet(S)
    PROVE  /\ SetToSeq(S) \in Seq(S) /\ Len(SetToSeq(S)) \in Nat
           /\ \A i \in 1..Len(SetToSeq(S)), j \in 1..Len(SetToSeq(S)) :
                 SetToSeq(S)[i] = SetToSeq(S)[j] => i = j
           /\ \A x \in S : \E i \in 1..Len(SetToSeq(S)) : SetToSeq(S)[i] = x
  <1> DEFINE n == Cardinality(S)
             q == SetToSeq(S)
  <1>1. n \in Nat /\ ExistsBijection(1..n, S)
    BY FS_CardinalityType
  <1>2. \E f \in [1..n -> S] : IsInjective(f)
    BY <1>1 DEF ExistsBijection, Bijection, Injection
  <1>3. q \in [1..n -> S] /\ IsInjective(q)
    BY <1>2 DEF SetToSeq
  <1> HIDE DEF q
  <1>4. q \in Injection(1..n, S)
    BY <1>3 DEF Injection
  <1>5. IsFiniteSet(1..n) /\ Cardinality(1..n) = n
    BY <1>1, FS_Interval
  <1>6. q \in Surjection(1..n, S)
    BY <1>4, <1>5, FS_Injection
  <1>7. \A x \in S : \E i \in 1..n : q[i] = x
    BY <1>6 DEF Surjection
  <1>8. q \in Seq(S) /\ Len(q) = n
    BY <1>1, <1>3, FunctionIsSeq
  <1>9. \A i \in 1..n, j \in 1..n : q[i] = q[j] => i = j
    BY <1>3 DEF IsInjective
  <1>10. /\ q \in Seq(S) /\ Len(q) \in Nat
         /\ \A i \in 1..Len(q), j \in 1..Len(q) : q[i] = q[j] => i = j
         /\ \A x \in S : \E i \in 1..Len(q) : q[i] = x
    BY <1>1, <1>7, <1>8, <1>9
  <1> QED
    BY <1>10 DEF q

\* The object on the way from f to t: the keys in K are done.
Mixed(f, t, K) ==
    [k \in (DOMAIN f \ K) \cup (DOMAIN t \cap K) |-> IF k \in K THEN t[k] ELSE f[k]]

\* A map of an object in a document.
Members(f) ==
    /\ DOMAIN f \in SUBSET Segment /\ IsFiniteSet(DOMAIN f)
    /\ f = [k \in DOMAIN f |-> f[k]]
    /\ \A k \in DOMAIN f : Shaped(f[k]) /\ f[k] # Missing

\* An object with some keys done already is a document.
LEMMA MixedShaped ==
    ASSUME NEW f, Members(f), NEW t, Members(t), NEW K
    PROVE  /\ Shaped(Obj(Mixed(f, t, K))) /\ Obj(Mixed(f, t, K)) # Missing
           /\ Obj(Mixed(f, t, K)).tag = "object" /\ Obj(Mixed(f, t, K)).map = Mixed(f, t, K)
  <1> DEFINE D == (DOMAIN f \ K) \cup (DOMAIN t \cap K)
             m == Mixed(f, t, K)
  <1>1. D \in SUBSET Segment
    BY DEF Members
  <1>2. IsFiniteSet(D)
    <2>1. IsFiniteSet(DOMAIN f \cup DOMAIN t)
      BY FS_Union DEF Members
    <2>2. D \in SUBSET (DOMAIN f \cup DOMAIN t)
      OBVIOUS
    <2> QED
      BY <2>1, <2>2, FS_Subset
  <1>3. m = [k \in D |-> m[k]] /\ \A k \in D : m[k] = IF k \in K THEN t[k] ELSE f[k]
    BY DEF Mixed
  <1> HIDE DEF m
  <1>4. \A k \in D : Shaped(m[k]) /\ m[k] # Missing
    BY <1>3 DEF Members
  <1> HIDE DEF D
  <1>5. Shaped(Obj(m)) /\ Obj(m).tag = "object" /\ Obj(m).map = m /\ Obj(m) # Missing
    BY <1>1, <1>2, <1>3, <1>4, ShapedObj
  <1> QED
    BY <1>5 DEF m

\* No key done, and every key done.
LEMMA MixedEnds ==
    ASSUME NEW f, Members(f), NEW t, Members(t)
    PROVE  Mixed(f, t, {}) = f /\ Mixed(f, t, DOMAIN f \cup DOMAIN t) = t
  <1>1. f = [k \in DOMAIN f |-> f[k]] /\ t = [k \in DOMAIN t |-> t[k]]
    BY DEF Members
  <1>2. Mixed(f, t, {}) = [k \in DOMAIN f |-> f[k]]
    BY DEF Mixed
  <1>3. Mixed(f, t, DOMAIN f \cup DOMAIN t) = [k \in DOMAIN t |-> t[k]]
    BY DEF Mixed
  <1> QED
    BY <1>1, <1>2, <1>3

\* One key more.
LEMMA MixedKey ==
    ASSUME NEW f, Members(f), NEW t, Members(t), NEW K, NEW key \in Segment, key \notin K
    PROVE  LET m == Obj(Mixed(f, t, K))
               n == Obj(Mixed(f, t, K \cup {key}))
           IN  /\ key \notin DOMAIN t => n = DropChild(m, key)
               /\ key \in DOMAIN t => n = AddChild(m, key, t[key])
               /\ key \in DOMAIN f /\ key \in DOMAIN t => n = WithChild(m, key, t[key])
               /\ key \in DOMAIN f /\ key \in DOMAIN t /\ f[key] = t[key] => n = m
               /\ key \in DOMAIN f => Child(m, key) = f[key]
  <1> DEFINE D == (DOMAIN f \ K) \cup (DOMAIN t \cap K)
             E == (DOMAIN f \ (K \cup {key})) \cup (DOMAIN t \cap (K \cup {key}))
             p == Mixed(f, t, K)
             q == Mixed(f, t, K \cup {key})
             m == Obj(p)
             n == Obj(q)
  <1>1. m.tag = "object" /\ m.map = p
    BY DEF Obj
  <1>2. p = [k \in D |-> p[k]] /\ DOMAIN p = D /\ \A k \in D : p[k] = IF k \in K THEN t[k] ELSE f[k]
    BY DEF Mixed
  <1>3. /\ q = [k \in E |-> q[k]] /\ DOMAIN q = E
        /\ \A k \in E : q[k] = IF k \in K \cup {key} THEN t[k] ELSE f[k]
    BY DEF Mixed
  <1> HIDE DEF p, q
  <1>4. \A k : k \in E /\ k # key => k \in D /\ q[k] = p[k]
    BY <1>2, <1>3
  <1>5. ASSUME key \notin DOMAIN t PROVE n = DropChild(m, key)
    <2>1. E = D \ {key}
      BY <1>5
    <2>2. q = [k \in D \ {key} |-> p[k]]
      BY <1>3, <1>4, <2>1
    <2>3. DropChild(m, key) = Obj([k \in D \ {key} |-> p[k]])
      BY <1>1, <1>2 DEF DropChild
    <2> QED
      BY <2>2, <2>3
  <1>6. ASSUME key \in DOMAIN t PROVE n = AddChild(m, key, t[key])
    <2>1. E = D \cup {key} /\ q[key] = t[key]
      BY <1>3, <1>6
    <2>2. q = [k \in D \cup {key} |-> IF k = key THEN t[key] ELSE p[k]]
      BY <1>3, <1>4, <2>1
    <2>3. AddChild(m, key, t[key]) = Obj([k \in D \cup {key} |-> IF k = key THEN t[key] ELSE p[k]])
      BY <1>1, <1>2 DEF AddChild
    <2> QED
      BY <2>2, <2>3
  <1>7. ASSUME key \in DOMAIN f PROVE key \in D /\ p[key] = f[key] /\ Child(m, key) = f[key]
    <2>1. key \in D /\ p[key] = f[key]
      BY <1>2, <1>7
    <2> QED
      BY <1>1, <1>2, <2>1, ChildObj
  <1>8. ASSUME key \in DOMAIN f, key \in DOMAIN t
        PROVE  /\ n = WithChild(m, key, t[key]) /\ (f[key] = t[key] => n = m)
    <2>1. E = D /\ q[key] = t[key] /\ key \in D /\ p[key] = f[key]
      BY <1>3, <1>7, <1>8
    <2>2. q = [p EXCEPT ![key] = t[key]]
      BY <1>2, <1>3, <1>4, <2>1
    <2>3. WithChild(m, key, t[key]) = Obj([p EXCEPT ![key] = t[key]])
      BY <1>1 DEF WithChild
    <2>4. ASSUME f[key] = t[key] PROVE q = p
      <3>1. \A k \in D : q[k] = p[k]
        BY <1>4, <2>1, <2>4
      <3> HIDE DEF D, E
      <3> QED
        BY <1>2, <1>3, <2>1, <3>1
    <2> QED
      BY <2>2, <2>3, <2>4
  <1> QED
    BY <1>5, <1>6, <1>7, <1>8 DEF p, q

\* What becomes of one key makes the object have the key done.
LEMMA KeyChanges ==
    ASSUME NEW T, NEW f, Members(f), NEW t, Members(t), NEW K, NEW key \in DOMAIN f \cup DOMAIN t,
           key \notin K, NEW from, NEW to \in Pointer, NEW deeper,
           key \in DOMAIN f \cap DOMAIN t =>
              Changes(T, deeper[Append(from, key)][Append(to, key)], Append(to, key), f[key], t[key])
    PROVE  Changes(T, DiffKey(deeper, f, t, from, to, key), to,
                   Obj(Mixed(f, t, K)), Obj(Mixed(f, t, K \cup {key})))
  <1> DEFINE m == Obj(Mixed(f, t, K))
             n == Obj(Mixed(f, t, K \cup {key}))
             ops == DiffKey(deeper, f, t, from, to, key)
             sub == deeper[Append(from, key)][Append(to, key)]
  <1>0. key \in Segment
    BY DEF Members
  <1>1. Shaped(m) /\ m # Missing /\ Shaped(n) /\ n # Missing
    BY MixedShaped
  <1>2. /\ key \notin DOMAIN t => n = DropChild(m, key)
        /\ key \in DOMAIN t => n = AddChild(m, key, t[key])
        /\ key \in DOMAIN f /\ key \in DOMAIN t => n = WithChild(m, key, t[key])
        /\ key \in DOMAIN f /\ key \in DOMAIN t /\ f[key] = t[key] => n = m
        /\ key \in DOMAIN f => Child(m, key) = f[key]
    BY <1>0, MixedKey
  <1>3. /\ key \in DOMAIN f => f[key] # Missing
        /\ key \in DOMAIN t => Shaped(t[key]) /\ t[key] # Missing
    BY DEF Members
  <1>4. /\ key \notin DOMAIN t => ops = <<RemoveOp(Append(to, key))>>
        /\ key \notin DOMAIN f /\ key \in DOMAIN t => ops = <<AddOp(Append(to, key), t[key])>>
        /\ key \in DOMAIN f /\ key \in DOMAIN t => ops = IF f[key] = t[key] THEN <<>> ELSE sub
    BY DEF DiffKey
  <1>5. key \in DOMAIN f /\ key \in DOMAIN t => Changes(T, sub, Append(to, key), f[key], t[key])
    OBVIOUS
  <1>t. m.tag # "array"
    BY DEF Obj
  <1> HIDE DEF m, n, ops, sub
  <1>6. CASE key \notin DOMAIN t
    <2>1. key \in DOMAIN f
      BY <1>6
    <2> QED
      BY <1>0, <1>1, <1>2, <1>3, <1>4, <1>6, <1>t, <2>1, ChangesRemove DEF m, n, ops
  <1>7. CASE key \notin DOMAIN f
    <2>1. key \in DOMAIN t
      BY <1>7
    <2> QED
      BY <1>0, <1>1, <1>2, <1>3, <1>4, <1>7, <1>t, <2>1, ChangesAdd DEF m, n, ops
  <1>8. CASE key \in DOMAIN f /\ key \in DOMAIN t /\ f[key] = t[key]
    <2>1. ops = <<>> /\ n = m
      BY <1>2, <1>4, <1>8
    <2>2. Changes(T, <<>>, to, m, m)
      BY <1>1, ChangesNone
    <2> QED
      BY <2>1, <2>2 DEF m, n, ops
  <1>9. CASE key \in DOMAIN f /\ key \in DOMAIN t /\ f[key] # t[key]
    <2>1. ops = sub /\ n = WithChild(m, key, t[key]) /\ Child(m, key) = f[key]
      BY <1>2, <1>4, <1>9
    <2>2. Changes(T, sub, Append(to, key), f[key], t[key])
      BY <1>5, <1>9
    <2>3. Changes(T, sub, to, m, n)
      BY <1>0, <1>1, <2>1, <2>2, ChangesChild
    <2> QED
      BY <2>1, <2>3 DEF m, n, ops
  <1> QED
    BY <1>6, <1>7, <1>8, <1>9

\* The object arm makes the new object of the old one.
LEMMA ObjectsChange ==
    ASSUME NEW T, NEW f, Members(f), NEW t, Members(t), NEW from, NEW to \in Pointer, NEW deeper,
           \A key \in DOMAIN f \cap DOMAIN t :
              Changes(T, deeper[Append(from, key)][Append(to, key)], Append(to, key), f[key], t[key])
    PROVE  Changes(T, DiffObjects(deeper, f, t, from, to), to, Obj(f), Obj(t))
  <1> DEFINE S == DOMAIN f \cup DOMAIN t
             keys == SetToSeq(S)
             N == Len(keys)
             K(i) == {keys[j] : j \in 1..i}
             D == [i \in 0..N |-> Obj(Mixed(f, t, K(i)))]
             seqs == [i \in 1..N |-> DiffKey(deeper, f, t, from, to, keys[i])]
             X == {DiffKey(deeper, f, t, from, to, keys[i]) : i \in 1..N}
  <1>1. IsFiniteSet(S)
    BY FS_Union DEF Members
  <1>2. /\ keys \in Seq(S) /\ N \in Nat
        /\ \A i \in 1..N, j \in 1..N : keys[i] = keys[j] => i = j
        /\ \A x \in S : \E i \in 1..N : keys[i] = x
    BY <1>1, Listed
  <1>3. DiffObjects(deeper, f, t, from, to) = FlattenSeq(seqs)
    BY DEF DiffObjects
  <1> HIDE DEF keys, N
  <1>k. \A i \in 1..N : keys[i] \in S
    BY <1>2 DEF N
  <1>4. seqs \in Seq(X) /\ Len(seqs) = N
    <2>1. seqs \in [1..N -> X]
      OBVIOUS
    <2> HIDE DEF seqs, X
    <2> QED
      BY <1>2, <2>1, FunctionIsSeq
  <1>5. /\ \A i \in 0..N : D[i] = Obj(Mixed(f, t, K(i)))
        /\ \A i \in 1..N : seqs[i] = DiffKey(deeper, f, t, from, to, keys[i])
    OBVIOUS
  <1>6. K(0) = {}
    OBVIOUS
  <1>7. K(N) = S
    BY <1>2, <1>k
  <1>8. \A i \in 1..N : K(i) = K(i - 1) \cup {keys[i]} /\ keys[i] \notin K(i - 1)
    <2> TAKE i \in 1..N
    <2>1. \A j : j \in 1..i <=> j \in 1..(i - 1) \/ j = i
      BY <1>2
    <2>2. keys[i] \notin K(i - 1)
      <3> SUFFICES ASSUME NEW j \in 1..(i - 1), keys[j] = keys[i] PROVE FALSE
        OBVIOUS
      <3>1. j \in 1..N /\ j # i
        BY <1>2
      <3> QED
        BY <1>2, <3>1
    <2>3. K(i) = K(i - 1) \cup {keys[i]}
      BY <2>1
    <2> QED
      BY <2>2, <2>3
  <1> HIDE DEF D, seqs, X, K
  <1>9. ASSUME NEW i \in 1..N PROVE Changes(T, seqs[i], to, D[i - 1], D[i])
    <2> DEFINE key == keys[i]
               L == K(i - 1)
    <2>1. i - 1 \in 0..N /\ i \in 0..N
      BY <1>2
    <2>2. key \in S /\ key \notin L /\ K(i) = L \cup {key}
      BY <1>k, <1>8
    <2>3. D[i - 1] = Obj(Mixed(f, t, L)) /\ D[i] = Obj(Mixed(f, t, L \cup {key}))
      BY <1>5, <2>1, <2>2
    <2>4. seqs[i] = DiffKey(deeper, f, t, from, to, key)
      BY <1>5
    <2> HIDE DEF key, L
    <2>5. Changes(T, DiffKey(deeper, f, t, from, to, key), to,
                  Obj(Mixed(f, t, L)), Obj(Mixed(f, t, L \cup {key})))
      BY <2>2, KeyChanges
    <2> QED
      BY <2>3, <2>4, <2>5
  <1>10. D[0] = Obj(f) /\ D[N] = Obj(t)
    <2>0. 0 \in 0..N /\ N \in 0..N
      BY <1>2
    <2>a. D[0] = Obj(Mixed(f, t, K(0))) /\ D[N] = Obj(Mixed(f, t, K(N)))
      BY <1>5, <2>0
    <2>1. D[0] = Obj(Mixed(f, t, {})) /\ D[N] = Obj(Mixed(f, t, S))
      BY <1>6, <1>7, <2>a
    <2>2. Mixed(f, t, {}) = f /\ Mixed(f, t, S) = t
      BY MixedEnds
    <2> QED
      BY <2>1, <2>2
  <1>11. Shaped(D[0]) /\ D[0] # Missing
    <2>1. Shaped(Obj(Mixed(f, t, {}))) /\ Obj(Mixed(f, t, {})) # Missing
      BY MixedShaped
    <2>2. Mixed(f, t, {}) = f
      BY MixedEnds
    <2> QED
      BY <1>10, <2>1, <2>2
  <1>12. Changes(T, FlattenSeq(seqs), to, D[0], D[Len(seqs)])
    BY <1>4, <1>9, <1>11, ChangesFlatten
  <1> QED
    BY <1>3, <1>4, <1>10, <1>12

(***************************************************************************)
(* The array arm of diff.                                                  *)
(***************************************************************************)
\* The elements of an array in a document.
Elements(s) ==
    /\ s \in Seq(Range(s))
    /\ \A i \in 1..Len(s) : Shaped(s[i]) /\ s[i] # Missing

\* The array on the way from f to t: t[1..ti-1] followed by f[fi..].
Patched(f, t, fi, ti) ==
    [j \in 1..((ti - 1) + (Len(f) - fi) + 1) |->
        IF j < ti THEN t[j] ELSE f[fi + (j - ti)]]

\* Two arrays for which there are indices enough, and a place in each.
Pair(f, t, fi, ti) ==
    /\ Elements(f) /\ Elements(t) /\ Len(f) + Len(t) <= Len(Index)
    /\ fi \in 1..(Len(f) + 1) /\ ti \in 1..(Len(t) + 1)

\* What the arrays on the way are made of.
Parts(f, t) == {f[i] : i \in 1..Len(f)} \cup {t[i] : i \in 1..Len(t)}

\* An array with some elements done already: the new ones up to ti, then the
\* old ones from fi on.
LEMMA PatchedFacts ==
    ASSUME NEW f, NEW t, NEW fi, NEW ti, Pair(f, t, fi, ti), NEW n,
           n = (ti - 1) + (Len(f) - fi) + 1, NEW P, P = Patched(f, t, fi, ti)
    PROVE  /\ P \in Seq(Parts(f, t)) /\ Len(P) = n /\ n \in Nat
           /\ \A j \in 1..n : P[j] = IF j < ti THEN t[j] ELSE f[fi + (j - ti)]
           /\ Shaped(Arr(P)) /\ Arr(P) # Missing /\ Arr(P).tag = "array" /\ Arr(P).seq = P
  <1> DEFINE S == Parts(f, t)
  <1>0. /\ Len(f) \in Nat /\ Len(t) \in Nat /\ Len(f) + Len(t) <= Len(Index) /\ Len(Index) \in Nat
        /\ fi \in 1..(Len(f) + 1) /\ ti \in 1..(Len(t) + 1)
    BY IndexAssumption DEF Pair, Elements
  <1>1. n \in Nat /\ n <= Len(Index)
    BY <1>0
  <1>2. \A y \in S : Shaped(y) /\ y # Missing
    BY DEF Pair, Elements, Parts
  <1>3. \A j \in 1..n : P[j] = IF j < ti THEN t[j] ELSE f[fi + (j - ti)]
    BY DEF Patched
  <1>4. \A j \in 1..n : P[j] \in S
    <2> TAKE j \in 1..n
    <2>1. CASE j < ti
      <3>1. j \in 1..Len(t) /\ P[j] = t[j]
        BY <1>0, <1>3, <2>1
      <3> QED
        BY <3>1 DEF Parts
    <2>2. CASE ~(j < ti)
      <3>1. fi + (j - ti) \in 1..Len(f) /\ P[j] = f[fi + (j - ti)]
        BY <1>0, <1>3, <2>2
      <3> QED
        BY <3>1 DEF Parts
    <2> QED
      BY <2>1, <2>2
  <1>5. P = [j \in 1..n |-> P[j]]
    BY DEF Patched
  <1> HIDE DEF S
  <1>6. P \in [1..n -> S]
    BY <1>4, <1>5
  <1>7. P \in Seq(S) /\ Len(P) = n
    BY <1>1, <1>6, FunctionIsSeq
  <1>8. Shaped(Arr(P)) /\ Arr(P) # Missing /\ Arr(P).tag = "array" /\ Arr(P).seq = P
    BY <1>1, <1>2, <1>7, ShapedArr
  <1> QED
    BY <1>1, <1>3, <1>7, <1>8 DEF S

\* Sequences are equal if their elements are.
LEMMA SamePlaces ==
    ASSUME NEW S, NEW a \in Seq(S), NEW b \in Seq(S), Len(a) = Len(b),
           \A j \in 1..Len(a) : a[j] = b[j]
    PROVE  a = b
  OBVIOUS

\* The ends of the way.
LEMMA PatchedEnds ==
    ASSUME NEW f, NEW t, Elements(f), Elements(t)
    PROVE  Patched(f, t, 1, 1) = f /\ Patched(f, t, Len(f) + 1, Len(t) + 1) = t
  <1>0. /\ Len(f) \in Nat /\ Len(t) \in Nat
        /\ f = [j \in 1..Len(f) |-> f[j]] /\ t = [j \in 1..Len(t) |-> t[j]]
    BY DEF Elements
  <1>1. Patched(f, t, 1, 1) = [j \in 1..Len(f) |-> f[j]]
    <2>1. (1 - 1) + (Len(f) - 1) + 1 = Len(f)
      BY <1>0
    <2>2. \A j \in 1..Len(f) : ~(j < 1) /\ 1 + (j - 1) = j
      BY <1>0
    <2> QED
      BY <2>1, <2>2 DEF Patched
  <1>2. Patched(f, t, Len(f) + 1, Len(t) + 1) = [j \in 1..Len(t) |-> t[j]]
    <2>1. ((Len(t) + 1) - 1) + (Len(f) - (Len(f) + 1)) + 1 = Len(t)
      BY <1>0
    <2>2. \A j \in 1..Len(t) : j < Len(t) + 1
      BY <1>0
    <2> QED
      BY <2>1, <2>2 DEF Patched
  <1> QED
    BY <1>0, <1>1, <1>2

\* The next element of t is put in.
LEMMA PatchedAdd ==
    ASSUME NEW f, NEW t, NEW fi, NEW ti, Pair(f, t, fi, ti), ti <= Len(t)
    PROVE  /\ Pair(f, t, fi, ti + 1) /\ Index[ti] \in Segment
           /\ Arr(Patched(f, t, fi, ti + 1)) = AddChild(Arr(Patched(f, t, fi, ti)), Index[ti], t[ti])
  <1> DEFINE P == Patched(f, t, fi, ti)
             Q == Patched(f, t, fi, ti + 1)
             S == Parts(f, t)
             n == (ti - 1) + (Len(f) - fi) + 1
             m == ((ti + 1) - 1) + (Len(f) - fi) + 1
  <1>0. /\ Len(f) \in Nat /\ Len(t) \in Nat /\ Len(f) + Len(t) <= Len(Index) /\ Len(Index) \in Nat
        /\ fi \in 1..(Len(f) + 1) /\ ti \in 1..(Len(t) + 1)
    BY IndexAssumption DEF Pair, Elements
  <1>1. Pair(f, t, fi, ti + 1)
    BY <1>0 DEF Pair
  <1>2. /\ P \in Seq(S) /\ Len(P) = n /\ n \in Nat
        /\ \A j \in 1..n : P[j] = IF j < ti THEN t[j] ELSE f[fi + (j - ti)]
        /\ Arr(P).tag = "array" /\ Arr(P).seq = P
    BY PatchedFacts
  <1>3. /\ Q \in Seq(S) /\ Len(Q) = m
        /\ \A j \in 1..m : Q[j] = IF j < ti + 1 THEN t[j] ELSE f[fi + (j - (ti + 1))]
    BY <1>1, PatchedFacts
  <1>4. m = n + 1 /\ ti \in 1..(n + 1) /\ ti \in 1..Len(Index) /\ n + 1 \in Nat
    BY <1>0, <1>2
  <1>5. Index[ti] \in Segment
    BY <1>4, IndexAssumption
  <1>6. Position(Index[ti]) = ti /\ InRange(Index[ti], n + 1)
    <2>1. ti <= n + 1
      BY <1>4
    <2> QED
      BY <1>4, <2>1, RangePlace
  <1>t. t[ti] \in S
    BY <1>0 DEF Parts
  <1>m. \A j \in 1..(n + 1) : /\ j < ti => j \in 1..n /\ j < ti + 1
                              /\ j > ti => /\ j - 1 \in 1..n /\ ~(j - 1 < ti) /\ ~(j < ti + 1)
                                           /\ (j - 1) - ti = j - (ti + 1)
                              /\ j = ti => j < ti + 1
    BY <1>0, <1>4
  <1>f. /\ \A j \in 1..n : j < ti => P[j] = t[j]
        /\ \A j \in 1..n : ~(j < ti) => P[j] = f[fi + (j - ti)]
        /\ \A j \in 1..(n + 1) : j < ti + 1 => Q[j] = t[j]
        /\ \A j \in 1..(n + 1) : ~(j < ti + 1) => Q[j] = f[fi + (j - (ti + 1))]
    BY <1>2, <1>3, <1>4
  <1> HIDE DEF P, Q, S, n, m
  <1>7. /\ InsertAt(P, ti, t[ti]) \in Seq(S) /\ Len(InsertAt(P, ti, t[ti])) = n + 1
        /\ \A j \in 1..(n + 1) : InsertAt(P, ti, t[ti])[j] =
              IF j < ti THEN P[j] ELSE IF j = ti THEN t[ti] ELSE P[j - 1]
    <2> DEFINE x == t[ti]
    <2>1. P \in Seq(S) /\ ti \in 1..(Len(P) + 1) /\ x \in S
      BY <1>2, <1>4, <1>t
    <2> HIDE DEF x
    <2>2. /\ InsertAt(P, ti, x) \in Seq(S) /\ Len(InsertAt(P, ti, x)) = Len(P) + 1
          /\ \A j \in 1..(Len(P) + 1) : InsertAt(P, ti, x)[j] =
                IF j < ti THEN P[j] ELSE IF j = ti THEN x ELSE P[j - 1]
      BY <2>1, Inserted
    <2> QED
      BY <1>2, <2>2 DEF x
  <1>8. ASSUME NEW j \in 1..(n + 1) PROVE InsertAt(P, ti, t[ti])[j] = Q[j]
    <2>1. CASE j < ti
      BY <1>7, <1>m, <1>f, <2>1
    <2>2. CASE j = ti
      BY <1>0, <1>7, <1>m, <1>f, <2>2
    <2>3. CASE j > ti
      <3>1. InsertAt(P, ti, t[ti])[j] = P[j - 1]
        BY <1>0, <1>7, <2>3
      <3>2. P[j - 1] = f[fi + ((j - 1) - ti)]
        BY <1>m, <1>f, <2>3
      <3>3. Q[j] = f[fi + (j - (ti + 1))]
        BY <1>m, <1>f, <2>3
      <3> QED
        BY <1>m, <2>3, <3>1, <3>2, <3>3
    <2> QED
      BY <1>0, <1>4, <2>1, <2>2, <2>3
  <1>9. InsertAt(P, ti, t[ti]) = Q
    BY <1>3, <1>4, <1>7, <1>8, SamePlaces
  <1>10. AddChild(Arr(P), Index[ti], t[ti]) = Arr(InsertAt(P, ti, t[ti]))
    BY <1>2, <1>6 DEF AddChild
  <1> QED
    BY <1>1, <1>5, <1>9, <1>10 DEF P, Q

\* The next element of f is taken out.
LEMMA PatchedRemove ==
    ASSUME NEW f, NEW t, NEW fi, NEW ti, Pair(f, t, fi, ti), fi <= Len(f)
    PROVE  /\ Pair(f, t, fi + 1, ti) /\ Index[ti] \in Segment
           /\ Child(Arr(Patched(f, t, fi, ti)), Index[ti]) = f[fi]
           /\ Arr(Patched(f, t, fi + 1, ti)) = DropChild(Arr(Patched(f, t, fi, ti)), Index[ti])
  <1> DEFINE P == Patched(f, t, fi, ti)
             Q == Patched(f, t, fi + 1, ti)
             S == Parts(f, t)
             n == (ti - 1) + (Len(f) - fi) + 1
             m == (ti - 1) + (Len(f) - (fi + 1)) + 1
  <1>0. /\ Len(f) \in Nat /\ Len(t) \in Nat /\ Len(f) + Len(t) <= Len(Index) /\ Len(Index) \in Nat
        /\ fi \in 1..(Len(f) + 1) /\ ti \in 1..(Len(t) + 1)
    BY IndexAssumption DEF Pair, Elements
  <1>1. Pair(f, t, fi + 1, ti)
    BY <1>0 DEF Pair
  <1>2. /\ P \in Seq(S) /\ Len(P) = n /\ n \in Nat
        /\ \A j \in 1..n : P[j] = IF j < ti THEN t[j] ELSE f[fi + (j - ti)]
        /\ Arr(P).tag = "array" /\ Arr(P).seq = P
    BY PatchedFacts
  <1>3. /\ Q \in Seq(S) /\ Len(Q) = m
        /\ \A j \in 1..m : Q[j] = IF j < ti THEN t[j] ELSE f[(fi + 1) + (j - ti)]
    BY <1>1, PatchedFacts
  <1>4. m = n - 1 /\ ti \in 1..n /\ ti \in 1..Len(Index)
    BY <1>0, <1>2
  <1>5. Index[ti] \in Segment
    BY <1>4, IndexAssumption
  <1>6. Position(Index[ti]) = ti /\ InRange(Index[ti], n)
    <2>1. ti <= n
      BY <1>4
    <2> QED
      BY <1>2, <1>4, <2>1, RangePlace
  <1>m. \A j \in 1..(n - 1) : /\ j \in 1..n /\ j + 1 \in 1..n
                              /\ ~(j < ti) => /\ ~(j + 1 < ti)
                                              /\ fi + ((j + 1) - ti) = (fi + 1) + (j - ti)
    BY <1>0, <1>4
  <1>f. /\ \A j \in 1..n : j < ti => P[j] = t[j]
        /\ \A j \in 1..n : ~(j < ti) => P[j] = f[fi + (j - ti)]
        /\ \A j \in 1..(n - 1) : j < ti => Q[j] = t[j]
        /\ \A j \in 1..(n - 1) : ~(j < ti) => Q[j] = f[(fi + 1) + (j - ti)]
    BY <1>2, <1>3, <1>4
  <1>c. P[ti] = f[fi]
    <2>1. fi + (ti - ti) = fi /\ ~(ti < ti)
      BY <1>0
    <2> HIDE DEF P, n
    <2> QED
      BY <1>4, <1>f, <2>1
  <1> HIDE DEF P, Q, S, n, m
  <1>7. /\ RemoveAt(P, ti) \in Seq(S) /\ Len(RemoveAt(P, ti)) = n - 1
        /\ \A j \in 1..(n - 1) : RemoveAt(P, ti)[j] = IF j < ti THEN P[j] ELSE P[j + 1]
    BY <1>2, <1>4, Removed
  <1>8. ASSUME NEW j \in 1..(n - 1) PROVE RemoveAt(P, ti)[j] = Q[j]
    <2>1. CASE j < ti
      BY <1>7, <1>m, <1>f, <2>1
    <2>3. CASE ~(j < ti)
      <3>1. RemoveAt(P, ti)[j] = P[j + 1]
        BY <1>7, <2>3
      <3>2. P[j + 1] = f[fi + ((j + 1) - ti)]
        BY <1>m, <1>f, <2>3
      <3>3. Q[j] = f[(fi + 1) + (j - ti)]
        BY <1>m, <1>f, <2>3
      <3> QED
        BY <1>m, <2>3, <3>1, <3>2, <3>3
    <2> QED
      BY <2>1, <2>3
  <1>9. RemoveAt(P, ti) = Q
    BY <1>3, <1>4, <1>7, <1>8, SamePlaces
  <1>10. DropChild(Arr(P), Index[ti]) = Arr(RemoveAt(P, ti))
    BY <1>2, <1>6 DEF DropChild
  <1>11. Child(Arr(P), Index[ti]) = P[ti]
    BY <1>2, <1>6, ChildArr
  <1> QED
    BY <1>1, <1>5, <1>9, <1>10, <1>11, <1>c DEF P, Q

\* The next element of f is made the next element of t.
LEMMA PatchedBoth ==
    ASSUME NEW f, NEW t, NEW fi, NEW ti, Pair(f, t, fi, ti), fi <= Len(f), ti <= Len(t)
    PROVE  /\ Pair(f, t, fi + 1, ti + 1)
           /\ Arr(Patched(f, t, fi + 1, ti + 1)) =
                 WithChild(Arr(Patched(f, t, fi, ti)), Index[ti], t[ti])
           /\ f[fi] = t[ti] => Patched(f, t, fi + 1, ti + 1) = Patched(f, t, fi, ti)
  <1> DEFINE P == Patched(f, t, fi, ti)
             Q == Patched(f, t, fi + 1, ti + 1)
             S == Parts(f, t)
             n == (ti - 1) + (Len(f) - fi) + 1
             m == ((ti + 1) - 1) + (Len(f) - (fi + 1)) + 1
  <1>0. /\ Len(f) \in Nat /\ Len(t) \in Nat /\ Len(f) + Len(t) <= Len(Index) /\ Len(Index) \in Nat
        /\ fi \in 1..(Len(f) + 1) /\ ti \in 1..(Len(t) + 1)
    BY IndexAssumption DEF Pair, Elements
  <1>1. Pair(f, t, fi + 1, ti + 1)
    BY <1>0 DEF Pair
  <1>2. /\ P \in Seq(S) /\ Len(P) = n /\ n \in Nat
        /\ \A j \in 1..n : P[j] = IF j < ti THEN t[j] ELSE f[fi + (j - ti)]
        /\ Arr(P).tag = "array" /\ Arr(P).seq = P
    BY PatchedFacts
  <1>3. /\ Q \in Seq(S) /\ Len(Q) = m
        /\ \A j \in 1..m : Q[j] = IF j < ti + 1 THEN t[j] ELSE f[(fi + 1) + (j - (ti + 1))]
    BY <1>1, PatchedFacts
  <1>4. m = n /\ ti \in 1..n /\ ti \in 1..Len(Index)
    BY <1>0, <1>2
  <1>6. Position(Index[ti]) = ti
    BY <1>2, <1>4, RangePlace
  <1>m. \A j \in 1..n : /\ j < ti => j < ti + 1
                        /\ j > ti => /\ ~(j < ti) /\ ~(j < ti + 1)
                                     /\ (fi + 1) + (j - (ti + 1)) = fi + (j - ti)
                        /\ j = ti => j < ti + 1
    BY <1>0, <1>4
  <1>f. /\ \A j \in 1..n : j < ti => P[j] = t[j]
        /\ \A j \in 1..n : ~(j < ti) => P[j] = f[fi + (j - ti)]
        /\ \A j \in 1..n : j < ti + 1 => Q[j] = t[j]
        /\ \A j \in 1..n : ~(j < ti + 1) => Q[j] = f[(fi + 1) + (j - (ti + 1))]
    BY <1>2, <1>3, <1>4
  <1>c. P[ti] = f[fi]
    <2>1. fi + (ti - ti) = fi /\ ~(ti < ti)
      BY <1>0
    <2> HIDE DEF P, n
    <2> QED
      BY <1>4, <1>f, <2>1
  <1>t. t[ti] \in S
    BY <1>0 DEF Parts
  <1> HIDE DEF P, Q, S, n, m
  <1>7. Q[ti] = t[ti]
    BY <1>4, <1>m, <1>f
  <1>8. ASSUME NEW j \in 1..n, j # ti PROVE P[j] = Q[j]
    <2>1. CASE j < ti
      BY <1>m, <1>f, <2>1
    <2>3. CASE j > ti
      <3>2. P[j] = f[fi + (j - ti)]
        BY <1>m, <1>f, <2>3
      <3>3. Q[j] = f[(fi + 1) + (j - (ti + 1))]
        BY <1>m, <1>f, <2>3
      <3> QED
        BY <1>m, <2>3, <3>2, <3>3
    <2> QED
      BY <1>0, <1>4, <1>8, <2>1, <2>3
  <1>9. [P EXCEPT ![ti] = t[ti]] = Q
    <2> DEFINE R == [P EXCEPT ![ti] = t[ti]]
    <2>1. R \in Seq(S) /\ Len(R) = n
      BY <1>2, <1>4, <1>t
    <2>2. \A j \in 1..n : R[j] = Q[j]
      BY <1>2, <1>4, <1>7, <1>8
    <2> HIDE DEF R
    <2>3. R = Q
      BY <1>3, <1>4, <2>1, <2>2, SamePlaces
    <2> QED
      BY <2>3 DEF R
  <1>10. WithChild(Arr(P), Index[ti], t[ti]) = Arr([P EXCEPT ![ti] = t[ti]])
    BY <1>2, <1>6 DEF WithChild
  <1>11. ASSUME f[fi] = t[ti] PROVE Q = P
    <2>1. \A j \in 1..n : Q[j] = P[j]
      BY <1>7, <1>8, <1>11, <1>c
    <2> QED
      BY <1>2, <1>3, <1>4, <2>1, SamePlaces
  <1> QED
    BY <1>1, <1>9, <1>10, <1>11 DEF P, Q

\* The places in both arrays after n rounds, and the operations so far.
Going(T, f, t, to, n, s) ==
    /\ Pair(f, t, s.fi, s.ti) /\ Get(T, to).tag = "array"
    /\ s.fi + s.ti >= n + 2 \/ (s.fi = Len(f) + 1 /\ s.ti = Len(t) + 1)
    /\ Changes(T, s.ops, to, Arr(f), Arr(Patched(f, t, s.fi, s.ti)))

\* The patches diff_mut finds for pairs of elements are right.
ElementsChange(T, deeper, f, t, from, to) ==
    \A i \in 1..Len(f), k \in 1..Len(t) :
        Changes(T, deeper[Append(from, Index[i])][Append(to, Index[k])],
                Append(to, Index[k]), f[i], t[k])

\* A round adds an element, ...
LEMMA RoundAdd ==
    ASSUME NEW T, NEW f, NEW t, NEW to \in Pointer, NEW n \in Nat, NEW s, Going(T, f, t, to, n, s),
           s.ti <= Len(t)
    PROVE  Going(T, f, t, to, n + 1,
                 [fi |-> s.fi + 0, ti |-> s.ti + 1,
                  ops |-> s.ops \o <<AddOp(Append(to, Index[s.ti]), t[s.ti])>>])
  <1> DEFINE fi == s.fi
             ti == s.ti
             o == AddOp(Append(to, Index[ti]), t[ti])
             a == Arr(Patched(f, t, fi, ti))
             b == Arr(Patched(f, t, fi, ti + 1))
             r == [fi |-> fi + 0, ti |-> ti + 1, ops |-> s.ops \o <<o>>]
  <1>0. fi \in Int /\ ti \in Int
    BY DEF Going, Pair
  <1>1. Pair(f, t, fi, ti) /\ ti <= Len(t)
    BY DEF Going
  <1>2. r.fi = fi /\ r.ti = ti + 1 /\ r.ops = s.ops \o <<o>>
    BY <1>0
  <1>3. fi + ti >= n + 2 \/ (fi = Len(f) + 1 /\ ti = Len(t) + 1)
    BY DEF Going
  <1>4. Changes(T, s.ops, to, Arr(f), a)
    BY DEF Going
  <1>t. Get(T, to).tag = "array"
    BY DEF Going
  <1> HIDE DEF fi, ti, r
  <1>5. Pair(f, t, fi, ti + 1) /\ Index[ti] \in Segment /\ b = AddChild(a, Index[ti], t[ti])
    BY <1>1, PatchedAdd
  <1>6. Shaped(a) /\ a # Missing /\ Shaped(b) /\ b # Missing
    BY <1>1, <1>5, PatchedFacts
  <1>7. /\ ti \in 1..Len(t) /\ Shaped(t[ti]) /\ t[ti] # Missing
        /\ fi \in Int /\ ti \in Int /\ Len(f) \in Int /\ Len(t) \in Int
    BY <1>1 DEF Pair, Elements
  <1> HIDE DEF a, b
  <1>8. Changes(T, <<o>>, to, a, b)
    BY <1>5, <1>6, <1>7, <1>t, ChangesAdd
  <1>9. Changes(T, s.ops \o <<o>>, to, Arr(f), b)
    BY <1>4, <1>8, ChangesConcat
  <1>10. fi + (ti + 1) >= (n + 1) + 2 \/ (fi = Len(f) + 1 /\ ti + 1 = Len(t) + 1)
    BY <1>1, <1>3, <1>7
  <1>11. Going(T, f, t, to, n + 1, r)
    BY <1>2, <1>5, <1>9, <1>10, <1>t DEF Going, b
  <1> QED
    BY <1>11 DEF r, fi, ti

\* ... or removes one, ...
LEMMA RoundRemove ==
    ASSUME NEW T, NEW f, NEW t, NEW to \in Pointer, NEW n \in Nat, NEW s, Going(T, f, t, to, n, s),
           s.fi <= Len(f)
    PROVE  Going(T, f, t, to, n + 1,
                 [fi |-> s.fi + 1, ti |-> s.ti + 0,
                  ops |-> s.ops \o <<RemoveOp(Append(to, Index[s.ti]))>>])
  <1> DEFINE fi == s.fi
             ti == s.ti
             o == RemoveOp(Append(to, Index[ti]))
             a == Arr(Patched(f, t, fi, ti))
             b == Arr(Patched(f, t, fi + 1, ti))
             r == [fi |-> fi + 1, ti |-> ti + 0, ops |-> s.ops \o <<o>>]
  <1>0. fi \in Int /\ ti \in Int
    BY DEF Going, Pair
  <1>1. Pair(f, t, fi, ti) /\ fi <= Len(f)
    BY DEF Going
  <1>2. r.fi = fi + 1 /\ r.ti = ti /\ r.ops = s.ops \o <<o>>
    BY <1>0
  <1>3. fi + ti >= n + 2 \/ (fi = Len(f) + 1 /\ ti = Len(t) + 1)
    BY DEF Going
  <1>4. Changes(T, s.ops, to, Arr(f), a)
    BY DEF Going
  <1>t. Get(T, to).tag = "array"
    BY DEF Going
  <1> HIDE DEF fi, ti, r
  <1>5. /\ Pair(f, t, fi + 1, ti) /\ Index[ti] \in Segment
        /\ Child(a, Index[ti]) = f[fi] /\ b = DropChild(a, Index[ti])
    BY <1>1, PatchedRemove
  <1>6. Shaped(a) /\ a # Missing
    BY <1>1, PatchedFacts
  <1>7. /\ fi \in 1..Len(f) /\ f[fi] # Missing
        /\ fi \in Int /\ ti \in Int /\ Len(f) \in Int /\ Len(t) \in Int
    BY <1>1 DEF Pair, Elements
  <1> HIDE DEF a, b
  <1>8. Changes(T, <<o>>, to, a, b)
    BY <1>5, <1>6, <1>7, <1>t, ChangesRemove
  <1>9. Changes(T, s.ops \o <<o>>, to, Arr(f), b)
    BY <1>4, <1>8, ChangesConcat
  <1>10. (fi + 1) + ti >= (n + 1) + 2 \/ (fi + 1 = Len(f) + 1 /\ ti = Len(t) + 1)
    BY <1>1, <1>3, <1>7
  <1>11. Going(T, f, t, to, n + 1, r)
    BY <1>2, <1>5, <1>9, <1>10, <1>t DEF Going, b
  <1> QED
    BY <1>11 DEF r, fi, ti

\* ... or makes one the other.
LEMMA RoundBoth ==
    ASSUME NEW T, NEW f, NEW t, NEW to \in Pointer, NEW n \in Nat, NEW s, Going(T, f, t, to, n, s),
           s.fi <= Len(f), s.ti <= Len(t), NEW ops,
           \/ ops = <<>> /\ f[s.fi] = t[s.ti]
           \/ Changes(T, ops, Append(to, Index[s.ti]), f[s.fi], t[s.ti])
    PROVE  Going(T, f, t, to, n + 1, [fi |-> s.fi + 1, ti |-> s.ti + 1, ops |-> s.ops \o ops])
  <1> DEFINE fi == s.fi
             ti == s.ti
             a == Arr(Patched(f, t, fi, ti))
             b == Arr(Patched(f, t, fi + 1, ti + 1))
             r == [fi |-> fi + 1, ti |-> ti + 1, ops |-> s.ops \o ops]
  <1>1. Pair(f, t, fi, ti) /\ fi <= Len(f) /\ ti <= Len(t)
    BY DEF Going
  <1>2. r.fi = fi + 1 /\ r.ti = ti + 1 /\ r.ops = s.ops \o ops
    OBVIOUS
  <1>3. fi + ti >= n + 2 \/ (fi = Len(f) + 1 /\ ti = Len(t) + 1)
    BY DEF Going
  <1>4. Changes(T, s.ops, to, Arr(f), a)
    BY DEF Going
  <1>t. Get(T, to).tag = "array"
    BY DEF Going
  <1>o. (ops = <<>> /\ f[fi] = t[ti]) \/ Changes(T, ops, Append(to, Index[ti]), f[fi], t[ti])
    OBVIOUS
  <1> HIDE DEF fi, ti, r
  <1>5. /\ Index[ti] \in Segment /\ Child(a, Index[ti]) = f[fi]
    BY <1>1, PatchedRemove, ZenonT(40)
  <1>6. /\ Pair(f, t, fi + 1, ti + 1) /\ b = WithChild(a, Index[ti], t[ti])
        /\ f[fi] = t[ti] => b = a
    BY <1>1, PatchedBoth
  <1>7. Shaped(a) /\ a # Missing
    BY <1>1, PatchedFacts
  <1>8. /\ fi \in Int /\ ti \in Int /\ Len(f) \in Int /\ Len(t) \in Int
    BY <1>1 DEF Pair, Elements
  <1> HIDE DEF a, b
  <1>9. Changes(T, ops, to, a, b)
    <2>1. CASE ops = <<>> /\ f[fi] = t[ti]
      <3>1. Changes(T, <<>>, to, a, a)
        BY <1>7, ChangesNone
      <3> QED
        BY <1>6, <2>1, <3>1
    <2>2. CASE Changes(T, ops, Append(to, Index[ti]), f[fi], t[ti])
      BY <1>5, <1>6, <1>7, <2>2, ChangesChild
    <2> QED
      BY <1>o, <2>1, <2>2
  <1>10. Changes(T, s.ops \o ops, to, Arr(f), b)
    BY <1>4, <1>9, ChangesConcat
  <1>11. (fi + 1) + (ti + 1) >= (n + 1) + 2 \/ (fi + 1 = Len(f) + 1 /\ ti + 1 = Len(t) + 1)
    BY <1>1, <1>3, <1>8
  <1>12. Going(T, f, t, to, n + 1, r)
    BY <1>2, <1>6, <1>10, <1>11, <1>t DEF Going, b
  <1> QED
    BY <1>12 DEF r, fi, ti

\* A round of the loops.
LEMMA RoundGoes ==
    ASSUME NEW T, NEW f, NEW t, NEW from, NEW to \in Pointer, NEW shared, NEW deeper,
           ElementsChange(T, deeper, f, t, from, to),
           NEW n \in Nat, NEW s, Going(T, f, t, to, n, s)
    PROVE  Going(T, f, t, to, n + 1, DiffElement(deeper, f, t, from, to, shared, s))
  <1> DEFINE same(i, k) == /\ f[i] = t[k]
                           /\ <<Append(from, Index[i]), Append(to, Index[k])>> \in shared
             at == Append(to, Index[s.ti])
             add == [fi |-> s.fi + 0, ti |-> s.ti + 1, ops |-> s.ops \o <<AddOp(at, t[s.ti])>>]
             remove == [fi |-> s.fi + 1, ti |-> s.ti + 0, ops |-> s.ops \o <<RemoveOp(at)>>]
             sub == deeper[Append(from, Index[s.fi])][at]
             none == [fi |-> s.fi + 1, ti |-> s.ti + 1, ops |-> s.ops \o <<>>]
             both == [fi |-> s.fi + 1, ti |-> s.ti + 1, ops |-> s.ops \o sub]
             r == DiffElement(deeper, f, t, from, to, shared, s)
  <1>0. /\ Len(f) \in Int /\ Len(t) \in Int /\ s.fi \in 1..(Len(f) + 1) /\ s.ti \in 1..(Len(t) + 1)
    BY DEF Going, Pair, Elements
  <1>1. \/ s.fi > Len(f) /\ s.ti > Len(t) /\ r = s
        \/ s.ti <= Len(t) /\ r = add
        \/ s.fi <= Len(f) /\ r = remove
        \/ s.fi <= Len(f) /\ s.ti <= Len(t) /\ same(s.fi, s.ti) /\ r = none
        \/ s.fi <= Len(f) /\ s.ti <= Len(t) /\ r = both
    <2> DEFINE here == same(s.fi, s.ti)
               inT == Len(f) < Len(t) /\ \E k \in s.ti + 1 .. Len(t) : same(s.fi, k)
               inF == Len(f) > Len(t) /\ \E i \in s.fi + 1 .. Len(f) : same(i, s.ti)
    <2>1. r = CASE s.fi > Len(f) /\ s.ti > Len(t) -> s
                [] s.fi > Len(f) /\ s.ti <= Len(t) -> add
                [] s.fi <= Len(f) /\ s.ti > Len(t) -> remove
                [] s.fi <= Len(f) /\ s.ti <= Len(t) ->
                      IF here THEN none ELSE IF inT THEN add ELSE IF inF THEN remove ELSE both
      BY Zenon DEF DiffElement
    <2> HIDE DEF r, add, remove, none, both, here, inT, inF
    <2>2. \/ s.fi > Len(f) /\ s.ti > Len(t) /\ r = s
          \/ s.ti <= Len(t) /\ r = add
          \/ s.fi <= Len(f) /\ r = remove
          \/ s.fi <= Len(f) /\ s.ti <= Len(t) /\ here /\ r = none
          \/ s.fi <= Len(f) /\ s.ti <= Len(t) /\ r = both
      BY <1>0, <2>1
    <2> QED
      BY <2>2 DEF here
  <1> HIDE DEF r
  <1>2. CASE s.fi > Len(f) /\ s.ti > Len(t) /\ r = s
    <2>1. s.fi = Len(f) + 1 /\ s.ti = Len(t) + 1
      BY <1>0, <1>2
    <2> QED
      BY <1>2, <2>1 DEF Going, r
  <1>3. CASE s.ti <= Len(t) /\ r = add
    BY <1>3, RoundAdd DEF r
  <1>4. CASE s.fi <= Len(f) /\ r = remove
    BY <1>4, RoundRemove DEF r
  <1>5. CASE s.fi <= Len(f) /\ s.ti <= Len(t) /\ same(s.fi, s.ti) /\ r = none
    <2>1. Going(T, f, t, to, n + 1, none)
      BY <1>5, RoundBoth
    <2> QED
      BY <1>5, <2>1 DEF r
  <1>6. CASE s.fi <= Len(f) /\ s.ti <= Len(t) /\ r = both
    <2>1. s.fi \in 1..Len(f) /\ s.ti \in 1..Len(t)
      BY <1>0, <1>6
    <2>2. Changes(T, sub, at, f[s.fi], t[s.ti])
      BY <2>1, SMTT(40) DEF ElementsChange
    <2>3. Going(T, f, t, to, n + 1, both)
      BY <1>6, <2>2, RoundBoth
    <2> QED
      BY <1>6, <2>3 DEF r
  <1> QED
    BY <1>1, <1>2, <1>3, <1>4, <1>5, <1>6

\* The equation of the function in DiffArrays, on 0..m.
Rounds(f, deeper, a, b, from, to, shared, m) ==
    f = [n \in 0..m |-> IF n = 0 THEN [fi |-> 1, ti |-> 1, ops |-> <<>>] ELSE DiffElement(deeper, a, b, from, to, shared, f[n - 1])]

\* The equation has a solution, of any length.
LEMMA RoundExists ==
    ASSUME NEW deeper, NEW a, NEW b, NEW from, NEW to, NEW shared
    PROVE  \A m \in Nat : \E f : Rounds(f, deeper, a, b, from, to, shared, m)
  <1> DEFINE S == {m \in Nat : \E f : Rounds(f, deeper, a, b, from, to, shared, m)}
  <1>1. 0 \in S
    <2> DEFINE f == [n \in 0..0 |-> [fi |-> 1, ti |-> 1, ops |-> <<>>]]
    <2>1. Rounds(f, deeper, a, b, from, to, shared, 0)
      BY DEF Rounds
    <2> QED
      BY <2>1
  <1>2. ASSUME NEW m \in Nat, m \in S PROVE m + 1 \in S
    <2>1. PICK f : Rounds(f, deeper, a, b, from, to, shared, m)
      BY <1>2
    <2> DEFINE last == DiffElement(deeper, a, b, from, to, shared, f[m])
               g == [n \in 0..(m + 1) |-> IF n = m + 1 THEN last ELSE f[n]]
    <2>2. \A n \in 0..m : f[n] = IF n = 0 THEN [fi |-> 1, ti |-> 1, ops |-> <<>>] ELSE DiffElement(deeper, a, b, from, to, shared, f[n - 1])
      BY <2>1 DEF Rounds
    <2>3. ASSUME NEW n \in 0..(m + 1)
          PROVE  g[n] = IF n = 0 THEN [fi |-> 1, ti |-> 1, ops |-> <<>>] ELSE DiffElement(deeper, a, b, from, to, shared, g[n - 1])
      <3>1. CASE n = m + 1
        <4>1. g[n] = DiffElement(deeper, a, b, from, to, shared, f[m]) /\ n # 0 /\ n - 1 = m
          BY <3>1
        <4>2. m \in 0..(m + 1) /\ m # m + 1
          OBVIOUS
        <4>3. g[m] = f[m]
          BY <4>2
        <4> QED
          BY <4>1, <4>3
      <3>2. CASE n # m + 1
        <4>1. n \in 0..m /\ g[n] = f[n]
          BY <3>2
        <4>2. n # 0 => g[n - 1] = f[n - 1]
          BY <4>1
        <4> QED
          BY <2>2, <4>1, <4>2
      <3> QED
        BY <3>1, <3>2
    <2>4. Rounds(g, deeper, a, b, from, to, shared, m + 1)
      <3>1. g = [n \in 0..(m + 1) |-> g[n]]
        OBVIOUS
      <3> HIDE DEF g
      <3> QED
        BY <2>3, <3>1 DEF Rounds
    <2> QED
      BY <2>4
  <1> HIDE DEF S
  <1>3. \A m \in Nat : m \in S
    BY <1>1, <1>2, SetInduction
  <1> QED
    BY <1>3 DEF S

\* The array arm makes the new array of the old one.
LEMMA ArraysChange ==
    ASSUME NEW T, NEW f, NEW t, Elements(f), Elements(t), Len(f) + Len(t) <= Len(Index),
           NEW from, NEW to \in Pointer, Get(T, to).tag = "array", NEW shared, NEW deeper,
           ElementsChange(T, deeper, f, t, from, to)
    PROVE  Changes(T, DiffArrays(deeper, f, t, from, to, shared), to, Arr(f), Arr(t))
  <1> DEFINE N == Len(f) + Len(t)
             start == [fi |-> 1, ti |-> 1, ops |-> <<>>]
             round == CHOOSE g : g = [n \in 0..N |->
                         IF n = 0 THEN start
                         ELSE DiffElement(deeper, f, t, from, to, shared, g[n - 1])]
  <1>0. N \in Nat /\ Len(f) \in Nat /\ Len(t) \in Nat
    BY DEF Elements
  <1>1. \E g : g = [n \in 0..N |-> IF n = 0 THEN start
                                 ELSE DiffElement(deeper, f, t, from, to, shared, g[n - 1])]
    <2>1. PICK g : Rounds(g, deeper, f, t, from, to, shared, N)
      BY <1>0, RoundExists
    <2> QED
      BY <2>1 DEF Rounds
  <1>2. round = [n \in 0..N |-> IF n = 0 THEN start
                                ELSE DiffElement(deeper, f, t, from, to, shared, round[n - 1])]
    BY <1>1
  <1>3. DiffArrays(deeper, f, t, from, to, shared) = round[N].ops
    BY DEF DiffArrays
  <1> HIDE DEF round
  <1>4. \A n \in 0..N : round[n] = IF n = 0 THEN start
                                   ELSE DiffElement(deeper, f, t, from, to, shared, round[n - 1])
    BY <1>2
  <1> HIDE DEF N
  <1> DEFINE S == {n \in Nat : n <= N => Going(T, f, t, to, n, round[n])}
  <1>5. 0 \in S
    <2>1. round[0] = start
      BY <1>0, <1>4
    <2>2. Pair(f, t, 1, 1)
      BY <1>0 DEF Pair
    <2>3. Patched(f, t, 1, 1) = f
      BY PatchedEnds
    <2>4. Shaped(Arr(f)) /\ Arr(f) # Missing
      BY <2>2, <2>3, PatchedFacts
    <2>5. Changes(T, <<>>, to, Arr(f), Arr(Patched(f, t, 1, 1)))
      BY <2>3, <2>4, ChangesNone
    <2>6. start.fi = 1 /\ start.ti = 1 /\ start.ops = <<>>
      OBVIOUS
    <2> HIDE DEF start
    <2>7. Going(T, f, t, to, 0, start)
      BY <2>2, <2>5, <2>6 DEF Going
    <2> QED
      BY <2>1, <2>7
  <1>6. ASSUME NEW n \in Nat, n \in S PROVE n + 1 \in S
    <2> SUFFICES ASSUME n + 1 <= N PROVE Going(T, f, t, to, n + 1, round[n + 1])
      OBVIOUS
    <2>1. Going(T, f, t, to, n, round[n])
      BY <1>0, <1>6
    <2>2. n + 1 \in 0..N /\ n + 1 # 0 /\ (n + 1) - 1 = n
      BY <1>0
    <2>3. round[n + 1] = DiffElement(deeper, f, t, from, to, shared, round[n])
      BY <1>4, <2>2
    <2> QED
      BY <2>1, <2>3, RoundGoes
  <1> HIDE DEF S
  <1>7. \A n \in Nat : n \in S
    BY <1>5, <1>6, SetInduction
  <1>8. Going(T, f, t, to, N, round[N])
    BY <1>0, <1>7 DEF S
  <1> DEFINE s == round[N]
  <1>9. /\ Pair(f, t, s.fi, s.ti)
        /\ s.fi + s.ti >= N + 2 \/ (s.fi = Len(f) + 1 /\ s.ti = Len(t) + 1)
        /\ Changes(T, s.ops, to, Arr(f), Arr(Patched(f, t, s.fi, s.ti)))
    BY <1>8 DEF Going
  <1> HIDE DEF s
  <1>10. s.fi = Len(f) + 1 /\ s.ti = Len(t) + 1
    BY <1>0, <1>9 DEF Pair, N
  <1>11. Patched(f, t, s.fi, s.ti) = t
    BY <1>10, PatchedEnds
  <1> QED
    BY <1>3, <1>9, <1>11 DEF s

(***************************************************************************)
(* Documents nested less than n deep, for all pointers.                    *)
(***************************************************************************)
Good(v, n) ==
    /\ v # Missing
    /\ \A p \in Pointer : /\ Node(Get(v, p)) /\ Roomy(Get(v, p))
                          /\ Len(p) >= n => Get(v, p) = Missing

\* A document with room has an index for each element.
LEMMA GoodShaped ==
    ASSUME NEW v, NEW n, Good(v, n)
    PROVE  Shaped(v) /\ v # Missing /\ Roomy(v)
  <1>1. \A p \in Pointer : Shape(Get(v, p))
    <2> TAKE p \in Pointer
    <2> DEFINE w == Get(v, p)
    <2>1. Node(w) /\ Roomy(w)
      BY DEF Good
    <2> HIDE DEF w
    <2>2. ASSUME w.tag = "array" PROVE Len(w.seq) <= Len(Index)
      <3>1. Len(w.seq) \in Nat
        BY <2>1, <2>2, NodeArr
      <3>2. 2 * Len(w.seq) <= Len(Index) /\ Len(Index) \in Nat
        BY <2>1, <2>2, IndexAssumption DEF Roomy
      <3> QED
        BY <3>1, <3>2
    <2> QED
      BY <2>1, <2>2 DEF Shape, w
  <1>2. Roomy(v)
    <2>1. <<>> \in Pointer
      BY DEF Pointer
    <2> QED
      BY <2>1, GetNil DEF Good
  <1> QED
    BY <1>1, <1>2 DEF Shaped, Good

\* What is in a document is one, nested less deep.
LEMMA GoodChild ==
    ASSUME NEW v, NEW n \in Nat, Good(v, n + 1), NEW s \in Segment, Child(v, s) # Missing
    PROVE  Good(Child(v, s), n)
  <1> DEFINE c == Child(v, s)
  <1> SUFFICES ASSUME NEW p \in Pointer
               PROVE  /\ Node(Get(c, p)) /\ Roomy(Get(c, p))
                      /\ Len(p) >= n => Get(c, p) = Missing
    BY DEF Good
  <1> DEFINE q == <<s>> \o p
  <1>1. <<s>> \in Pointer /\ Get(v, <<s>>) = c
    BY GetOne
  <1>2. q \in Pointer /\ Len(q) = Len(p) + 1 /\ Len(p) \in Nat
    BY <1>1 DEF Pointer
  <1>3. Get(v, q) = Get(c, p)
    BY <1>1, GetConcat
  <1> HIDE DEF q, c
  <1>4. Len(p) >= n => Len(q) >= n + 1
    BY <1>2
  <1> QED
    BY <1>2, <1>3, <1>4 DEF Good

\* Nothing is nested less than 0 deep.
LEMMA NotGoodZero ==
    ASSUME NEW v PROVE ~Good(v, 0)
  <1>1. <<>> \in Pointer /\ Len(<<>>) >= 0
    BY DEF Pointer
  <1> QED
    BY <1>1, GetNil DEF Good

\* diff_mut is right if it is right one level down.
LEMMA MutChanges ==
    ASSUME NEW f, NEW t, NEW shared, NEW deeper, NEW n \in Nat,
           NEW from \in Pointer, NEW to \in Pointer,
           Good(Get(f, from), n + 1), Good(Get(t, to), n + 1),
           \A p \in Pointer, q \in Pointer :
              Good(Get(f, p), n) /\ Good(Get(t, q), n)
                => Changes(t, deeper[p][q], q, Get(f, p), Get(t, q))
    PROVE  Changes(t, DiffMut(deeper, f, t, from, to, shared), to, Get(f, from), Get(t, to))
  <1> DEFINE a == Get(f, from)
             b == Get(t, to)
             ops == DiffMut(deeper, f, t, from, to, shared)
  <1>1. ops = CASE a.tag = "object" /\ b.tag = "object" ->
                      DiffObjects(deeper, a.map, b.map, from, to)
                [] a.tag = "array" /\ b.tag = "array" ->
                      DiffArrays(deeper, a.seq, b.seq, from, to, shared)
                [] OTHER -> IF a = b THEN <<>> ELSE <<ReplaceOp(to, b)>>
    BY Zenon DEF DiffMut
  <1>2. ASSUME NEW s \in Segment, NEW u \in Segment, Child(a, s) # Missing, Child(b, u) # Missing
        PROVE  Changes(t, deeper[Append(from, s)][Append(to, u)], Append(to, u), Child(a, s), Child(b, u))
    <2> DEFINE p == Append(from, s)
               q == Append(to, u)
    <2>1. p \in Pointer /\ q \in Pointer
      BY AppendFront
    <2>2. Get(f, p) = Child(a, s)
      <3>1. p = from \o <<s>> /\ <<s>> \in Pointer
        BY AppendFront
      <3> QED
        BY <3>1, GetConcat, GetOne
    <2>3. Get(t, q) = Child(b, u)
      <3>1. q = to \o <<u>> /\ <<u>> \in Pointer
        BY AppendFront
      <3> QED
        BY <3>1, GetConcat, GetOne
    <2>4. Good(Child(a, s), n) /\ Good(Child(b, u), n)
      BY <1>2, GoodChild
    <2> HIDE DEF p, q, a, b
    <2>5. Changes(t, deeper[p][q], q, Get(f, p), Get(t, q))
      BY <2>1, <2>2, <2>3, <2>4
    <2> QED
      BY <2>2, <2>3, <2>5 DEF p, q
  <1>3. Shaped(a) /\ a # Missing /\ Shaped(b) /\ b # Missing /\ Roomy(a) /\ Roomy(b)
    BY GoodShaped
  <1> HIDE DEF a, b, ops
  <1>4. CASE a.tag = "object" /\ b.tag = "object"
    <2>1. ops = DiffObjects(deeper, a.map, b.map, from, to)
      BY <1>1, <1>4
    <2>2. a = Obj(a.map) /\ b = Obj(b.map) /\ Members(a.map) /\ Members(b.map)
      BY <1>3, <1>4, ShapedMembers DEF Members
    <2>3. ASSUME NEW key \in DOMAIN a.map \cap DOMAIN b.map
          PROVE  Changes(t, deeper[Append(from, key)][Append(to, key)], Append(to, key), a.map[key], b.map[key])
      <3>1. /\ Child(a, key) = a.map[key] /\ Child(b, key) = b.map[key] /\ key \in Segment
            /\ a.map[key] # Missing /\ b.map[key] # Missing
        BY <1>4, <2>2, ChildObj DEF Members
      <3> QED
        BY <1>2, <3>1
    <2>4. Changes(t, DiffObjects(deeper, a.map, b.map, from, to), to, Obj(a.map), Obj(b.map))
      BY <2>2, <2>3, ObjectsChange
    <2> QED
      BY <2>1, <2>2, <2>4 DEF a, b, ops
  <1>5. CASE a.tag = "array" /\ b.tag = "array"
    <2>1. ops = DiffArrays(deeper, a.seq, b.seq, from, to, shared)
      BY <1>1, <1>5
    <2> DEFINE g == a.seq
               h == b.seq
    <2>2. /\ a = Arr(g) /\ b = Arr(h) /\ g \in Seq(Range(g)) /\ h \in Seq(Range(h))
          /\ Len(g) \in Nat /\ Len(h) \in Nat
      BY <1>3, <1>5, ShapedTop, NodeArr
    <2>3. /\ \A i \in 1..Len(g) : Index[i] \in Segment /\ Child(a, Index[i]) = g[i] /\ Shaped(g[i]) /\ g[i] # Missing
          /\ \A i \in 1..Len(h) : Index[i] \in Segment /\ Child(b, Index[i]) = h[i] /\ Shaped(h[i]) /\ h[i] # Missing
      BY <1>3, <1>5, ShapedElements
    <2>4. Elements(g) /\ Elements(h)
      BY <2>2, <2>3 DEF Elements
    <2>5. Len(g) + Len(h) <= Len(Index)
      <3> DEFINE x == Len(g)
                 y == Len(h)
                 z == Len(Index)
      <3>1. 2 * x <= z /\ 2 * y <= z
        BY <1>3, <1>5 DEF Roomy
      <3>2. x \in Nat /\ y \in Nat /\ z \in Nat
        BY <2>2, IndexAssumption
      <3> HIDE DEF x, y, z
      <3>3. x + y <= z
        BY <3>1, <3>2
      <3> QED
        BY <3>3 DEF x, y, z
    <2>6. ElementsChange(t, deeper, g, h, from, to)
      <3> SUFFICES ASSUME NEW i \in 1..Len(g), NEW k \in 1..Len(h)
                   PROVE  Changes(t, deeper[Append(from, Index[i])][Append(to, Index[k])],
                                  Append(to, Index[k]), g[i], h[k])
        BY DEF ElementsChange
      <3>1. /\ Index[i] \in Segment /\ Child(a, Index[i]) = g[i] /\ g[i] # Missing
            /\ Index[k] \in Segment /\ Child(b, Index[k]) = h[k] /\ h[k] # Missing
        BY <2>3
      <3> QED
        BY <1>2, <3>1
    <2>7. Changes(t, DiffArrays(deeper, g, h, from, to, shared), to, Arr(g), Arr(h))
      BY <1>5, <2>4, <2>5, <2>6, ArraysChange DEF b
    <2> QED
      BY <2>1, <2>2, <2>7 DEF a, b, ops
  <1>6. CASE ~(a.tag = "object" /\ b.tag = "object") /\ ~(a.tag = "array" /\ b.tag = "array")
    <2>1. ops = IF a = b THEN <<>> ELSE <<ReplaceOp(to, b)>>
      BY <1>1, <1>6
    <2>2. CASE a = b
      <3>1. ops = <<>> /\ Changes(t, <<>>, to, a, a)
        BY <1>3, <2>1, <2>2, ChangesNone
      <3> QED
        BY <2>2, <3>1 DEF a, b, ops
    <2>3. CASE a # b
      <3>1. ops = <<ReplaceOp(to, b)>> /\ Changes(t, <<ReplaceOp(to, b)>>, to, a, b)
        BY <1>3, <2>1, <2>3, ChangesReplace
      <3> QED
        BY <3>1 DEF a, b, ops
    <2> QED
      BY <2>2, <2>3
  <1> QED
    BY <1>4, <1>5, <1>6

\* One level of diff_mut, for all pairs of pointers.
Level(n, deeper, a, b, shared) ==
    [from \in Pointer |-> [to \in Pointer |->
        IF n = 0 THEN <<>> ELSE DiffMut(deeper, a, b, from, to, shared)]]

\* The equation of the function in Diff, on 0..m.
Levels(f, a, b, shared, m) ==
    f = [n \in 0..m |-> IF n = 0 THEN Level(0, <<>>, a, b, shared) ELSE Level(n, f[n - 1], a, b, shared)]

\* The equation has a solution, of any length.
LEMMA LevelExists ==
    ASSUME NEW a, NEW b, NEW shared
    PROVE  \A m \in Nat : \E f : Levels(f, a, b, shared, m)
  <1> DEFINE S == {m \in Nat : \E f : Levels(f, a, b, shared, m)}
  <1>1. 0 \in S
    <2> DEFINE f == [n \in 0..0 |-> Level(0, <<>>, a, b, shared)]
    <2>1. Levels(f, a, b, shared, 0)
      BY DEF Levels
    <2> QED
      BY <2>1
  <1>2. ASSUME NEW m \in Nat, m \in S PROVE m + 1 \in S
    <2>1. PICK f : Levels(f, a, b, shared, m)
      BY <1>2
    <2> DEFINE last == Level((m + 1), f[m], a, b, shared)
               g == [n \in 0..(m + 1) |-> IF n = m + 1 THEN last ELSE f[n]]
    <2>2. \A n \in 0..m : f[n] = IF n = 0 THEN Level(0, <<>>, a, b, shared) ELSE Level(n, f[n - 1], a, b, shared)
      BY <2>1 DEF Levels
    <2>3. ASSUME NEW n \in 0..(m + 1)
          PROVE  g[n] = IF n = 0 THEN Level(0, <<>>, a, b, shared) ELSE Level(n, g[n - 1], a, b, shared)
      <3>1. CASE n = m + 1
        <4>1. g[n] = Level(n, f[m], a, b, shared) /\ n # 0 /\ n - 1 = m
          BY <3>1
        <4>2. m \in 0..(m + 1) /\ m # m + 1
          OBVIOUS
        <4>3. g[m] = f[m]
          BY <4>2
        <4> QED
          BY <4>1, <4>3
      <3>2. CASE n # m + 1
        <4>1. n \in 0..m /\ g[n] = f[n]
          BY <3>2
        <4>2. n # 0 => g[n - 1] = f[n - 1]
          BY <4>1
        <4> QED
          BY <2>2, <4>1, <4>2
      <3> QED
        BY <3>1, <3>2
    <2>4. Levels(g, a, b, shared, m + 1)
      <3>1. g = [n \in 0..(m + 1) |-> g[n]]
        OBVIOUS
      <3> HIDE DEF g
      <3> QED
        BY <2>3, <3>1 DEF Levels
    <2> QED
      BY <2>4
  <1> HIDE DEF S
  <1>3. \A m \in Nat : m \in S
    BY <1>1, <1>2, SetInduction
  <1> QED
    BY <1>3 DEF S

\* The bottom level does not look further down.
LEMMA LevelBottom ==
    ASSUME NEW x, NEW y, NEW a, NEW b, NEW shared
    PROVE  Level(0, x, a, b, shared) = Level(0, y, a, b, shared)
  BY DEF Level

\* One level of diff, applied to two pointers.
LEMMA LevelAt ==
    ASSUME NEW n, NEW deeper, NEW a, NEW b, NEW shared, NEW p \in Pointer, NEW q \in Pointer
    PROVE  Level(n, deeper, a, b, shared)[p][q] =
              IF n = 0 THEN <<>> ELSE DiffMut(deeper, a, b, p, q, shared)
  BY DEF Level

\* The patch diff computes makes the new document of the old one.
LEMMA DiffChanges ==
    ASSUME NEW f, NEW t, NEW shared, Good(f, Depth), Good(t, Depth)
    PROVE  Changes(t, Diff(f, t, shared), <<>>, f, t)
  <1>0. Depth \in Nat
    BY DocumentAssumption
  <1> DEFINE diff == CHOOSE g : g = [n \in 0..Depth |->
                        [from \in Pointer |-> [to \in Pointer |->
                            IF n = 0 THEN <<>> ELSE DiffMut(g[n - 1], f, t, from, to, shared)]]]
  <1>1. \E g : g = [n \in 0..Depth |-> [from \in Pointer |-> [to \in Pointer |->
                        IF n = 0 THEN <<>> ELSE DiffMut(g[n - 1], f, t, from, to, shared)]]]
    <2>1. PICK g : Levels(g, f, t, shared, Depth)
      BY <1>0, LevelExists
    <2>2. /\ g = [n \in 0..Depth |-> g[n]]
          /\ \A n \in 0..Depth : g[n] = IF n = 0 THEN Level(0, <<>>, f, t, shared)
                                        ELSE Level(n, g[n - 1], f, t, shared)
      BY <2>1 DEF Levels
    <2>3. \A n \in 0..Depth : g[n] = Level(n, g[n - 1], f, t, shared)
      <3> TAKE n \in 0..Depth
      <3>1. CASE n = 0
        <4>1. g[0] = Level(0, <<>>, f, t, shared)
          BY <2>2, <3>1
        <4>2. Level(0, <<>>, f, t, shared) = Level(0, g[0 - 1], f, t, shared)
          BY LevelBottom
        <4> QED
          BY <3>1, <4>1, <4>2
      <3>2. CASE n # 0
        BY <2>2, <3>2
      <3> QED
        BY <3>1, <3>2
    <2>4. g = [n \in 0..Depth |-> Level(n, g[n - 1], f, t, shared)]
      BY <2>2, <2>3
    <2> QED
      BY <2>4 DEF Level
  <1>2. diff = [n \in 0..Depth |-> [from \in Pointer |-> [to \in Pointer |->
                    IF n = 0 THEN <<>> ELSE DiffMut(diff[n - 1], f, t, from, to, shared)]]]
    BY <1>1
  <1>3. Diff(f, t, shared) = diff[Depth][<<>>][<<>>]
    BY DEF Diff
  <1> HIDE DEF diff
  <1>4. \A n \in 0..Depth : \A p \in Pointer, q \in Pointer :
           diff[n][p][q] = IF n = 0 THEN <<>> ELSE DiffMut(diff[n - 1], f, t, p, q, shared)
    <2>1. diff = [n \in 0..Depth |-> Level(n, diff[n - 1], f, t, shared)]
      BY <1>2 DEF Level
    <2>2. \A n \in 0..Depth : diff[n] = Level(n, diff[n - 1], f, t, shared)
      BY <2>1
    <2> QED
      BY <2>2, LevelAt
  <1> DEFINE S == {n \in Nat : n <= Depth =>
                     \A p \in Pointer, q \in Pointer :
                        Good(Get(f, p), n) /\ Good(Get(t, q), n)
                          => Changes(t, diff[n][p][q], q, Get(f, p), Get(t, q))}
  <1>5. 0 \in S
    BY NotGoodZero
  <1>6. ASSUME NEW n \in Nat, n \in S PROVE n + 1 \in S
    <2> SUFFICES ASSUME n + 1 <= Depth, NEW p \in Pointer, NEW q \in Pointer,
                        Good(Get(f, p), n + 1), Good(Get(t, q), n + 1)
                 PROVE  Changes(t, diff[n + 1][p][q], q, Get(f, p), Get(t, q))
      OBVIOUS
    <2>1. \A u \in Pointer, w \in Pointer :
             Good(Get(f, u), n) /\ Good(Get(t, w), n)
               => Changes(t, diff[n][u][w], w, Get(f, u), Get(t, w))
      BY <1>0, <1>6
    <2>2. n + 1 \in 0..Depth /\ n + 1 # 0 /\ (n + 1) - 1 = n
      BY <1>0
    <2>3. diff[n + 1][p][q] = DiffMut(diff[n], f, t, p, q, shared)
      BY <1>4, <2>2
    <2> DEFINE deeper == diff[n]
    <2>4. \A u \in Pointer, w \in Pointer :
             Good(Get(f, u), n) /\ Good(Get(t, w), n)
               => Changes(t, deeper[u][w], w, Get(f, u), Get(t, w))
      BY <2>1
    <2> HIDE DEF deeper
    <2>5. Changes(t, DiffMut(deeper, f, t, p, q, shared), q, Get(f, p), Get(t, q))
      BY <2>4, MutChanges
    <2> QED
      BY <2>3, <2>5 DEF deeper
  <1> HIDE DEF S
  <1>7. Depth \in S
    BY <1>0, <1>5, <1>6, SetInduction
  <1>8. \A p \in Pointer, q \in Pointer :
           Good(Get(f, p), Depth) /\ Good(Get(t, q), Depth)
             => Changes(t, diff[Depth][p][q], q, Get(f, p), Get(t, q))
    BY <1>0, <1>7 DEF S
  <1>9. <<>> \in Pointer /\ Get(f, <<>>) = f /\ Get(t, <<>>) = t
    BY GetNil DEF Pointer
  <1> QED
    BY <1>3, <1>8, <1>9

\* json_patch::diff, then json_patch::patch: the operations lead from the one
\* document to the other.
LEMMA DiffLeads ==
    ASSUME NEW f, NEW t, NEW shared, Good(f, Depth), Good(t, Depth)
    PROVE  Leads(t, Diff(f, t, shared), f, t)
  <1>1. Changes(t, Diff(f, t, shared), <<>>, f, t)
    BY DiffChanges
  <1>2. Shaped(f) /\ Get(f, <<>>) = f /\ Update(f, <<>>, t) = t
    BY GoodShaped, GetNil, UpdateNil
  <1> QED
    BY <1>1, <1>2 DEF Changes

(***************************************************************************)
(* The documents of callers, and what an update makes of them.             *)
(***************************************************************************)
\* What is nowhere is no array.
LEMMA MissingFacts ==
    Node(Missing) /\ Roomy(Missing)
  BY DEF Node, Roomy, Missing

\* A document by what its pointers of every length lead to.
LEMMA DocumentGood ==
    ASSUME NEW v, NEW n \in Nat, Nested(v, n)
    PROVE  Good(v, n)
  <1>1. \A m \in 0..n : \A p \in [1..m -> Segment] :
           Node(Get(v, p)) /\ Roomy(Get(v, p)) /\ (m = n => Get(v, p) = Missing)
    BY DEF Nested
  <1> SUFFICES ASSUME NEW p \in Pointer
               PROVE  Node(Get(v, p)) /\ Roomy(Get(v, p)) /\ (Len(p) >= n => Get(v, p) = Missing)
    BY DEF Good, Nested
  <1> DEFINE k == Len(p)
  <1>2. k \in Nat /\ p \in [1..k -> Segment] /\ Len(p) = k
    BY DEF Pointer
  <1>i. ASSUME NEW m \in 0..n, NEW q \in [1..m -> Segment]
        PROVE  Node(Get(v, q)) /\ Roomy(Get(v, q)) /\ (m = n => Get(v, q) = Missing)
    BY <1>1
  <1> HIDE DEF k
  <1>3. CASE k <= n
    <2>1. k \in 0..n /\ (k >= n => k = n)
      BY <1>2, <1>3
    <2>2. Node(Get(v, p)) /\ Roomy(Get(v, p)) /\ (k = n => Get(v, p) = Missing)
      BY <1>2, <1>i, <2>1
    <2> QED
      BY <1>2, <2>1, <2>2
  <1>4. CASE k > n
    <2> DEFINE a == SubSeq(p, 1, n)
               b == Below(p, a)
    <2>1. a \in Pointer /\ Len(a) = n
      BY <1>2, <1>4 DEF Pointer
    <2>a. IsPrefix(a, p)
      <3>1. SubSeq(a, 1, Len(a)) = a
        <4> HIDE DEF a
        <4> QED
          BY <2>1 DEF Pointer
      <3>2. Len(a) <= Len(p)
        BY <1>2, <1>4, <2>1
      <3> QED
        BY <2>1, <3>1, <3>2 DEF IsPrefix
    <2> HIDE DEF a
    <2>2. a \in [1..n -> Segment]
      BY <2>1 DEF Pointer
    <2>b. b \in Pointer /\ p = a \o b
      BY <2>1, <2>a, PrefixConcat
    <2> HIDE DEF b
    <2>3. Get(v, a) = Missing
      <3>1. n \in 0..n
        OBVIOUS
      <3> QED
        BY <1>i, <2>2, <3>1
    <2>4. Get(v, p) = Get(Get(v, a), b)
      BY <2>1, <2>b, GetConcat
    <2>5. Get(v, p) = Missing
      BY <2>b, <2>3, <2>4, GetMissing
    <2> QED
      BY <2>5, MissingFacts
  <1> QED
    BY <1>2, <1>3, <1>4

\* Null is a document.
LEMMA GoodNull ==
    ASSUME NEW n \in Nat, n # 0
    PROVE  Good(Null, n)
  <1>1. Null # Missing /\ Node(Null) /\ Roomy(Null) /\ Null.tag # "array" /\ Null.tag # "object"
    BY DEF Null, Missing, Node, Roomy
  <1> SUFFICES ASSUME NEW p \in Pointer
               PROVE  Node(Get(Null, p)) /\ Roomy(Get(Null, p)) /\ (Len(p) >= n => Get(Null, p) = Missing)
    BY <1>1 DEF Good
  <1>2. CASE p = <<>>
    <2>1. Get(Null, p) = Null /\ Len(p) = 0
      BY <1>2, GetNil
    <2> QED
      BY <1>1, <2>1
  <1>3. CASE p # <<>>
    <2>1. Head(p) \in Segment /\ Tail(p) \in Pointer
      BY <1>3, HeadTail
    <2>2. Child(Null, Head(p)) = Missing
      BY <1>1, ChildOther
    <2>3. Get(Null, p) = Missing
      BY <1>3, <2>1, <2>2, GetCons, GetMissing
    <2> QED
      BY <2>3, MissingFacts
  <1> QED
    BY <1>2, <1>3

\* A document nested less than n deep is nested less than m >= n deep.
LEMMA GoodLess ==
    ASSUME NEW v, NEW n \in Nat, NEW m \in Nat, n <= m, Good(v, n)
    PROVE  Good(v, m)
  <1>1. \A p \in Pointer : Len(p) >= m => Len(p) >= n
    BY DEF Pointer
  <1> QED
    BY <1>1 DEF Good

\* What is in a document is one.
LEMMA GoodGet ==
    ASSUME NEW v, NEW n \in Nat, NEW m \in Nat, Good(v, n + m),
           NEW p \in Pointer, Len(p) = m, Get(v, p) # Missing
    PROVE  Good(Get(v, p), n)
  <1> DEFINE c == Get(v, p)
  <1> SUFFICES ASSUME NEW q \in Pointer
               PROVE  /\ Node(Get(c, q)) /\ Roomy(Get(c, q))
                      /\ Len(q) >= n => Get(c, q) = Missing
    BY DEF Good
  <1> DEFINE r == p \o q
  <1>1. r \in Pointer /\ Len(r) = m + Len(q) /\ Len(q) \in Nat
    BY DEF Pointer
  <1>2. Get(v, r) = Get(c, q)
    BY GetConcat
  <1> HIDE DEF r, c
  <1>3. Len(q) >= n => Len(r) >= n + m
    BY <1>1
  <1> QED
    BY <1>1, <1>2, <1>3 DEF Good

\* A document is made of its children.
LEMMA GoodCons ==
    ASSUME NEW w, NEW k \in Nat, Node(w), Roomy(w), w # Missing,
           \A s \in Segment : Child(w, s) = Missing \/ Good(Child(w, s), k)
    PROVE  Good(w, k + 1)
  <1> SUFFICES ASSUME NEW p \in Pointer
               PROVE  Node(Get(w, p)) /\ Roomy(Get(w, p)) /\ (Len(p) >= k + 1 => Get(w, p) = Missing)
    BY DEF Good
  <1>1. CASE p = <<>>
    <2>1. Get(w, p) = w /\ Len(p) = 0
      BY <1>1, GetNil
    <2> QED
      BY <2>1
  <1>2. CASE p # <<>>
    <2> DEFINE c == Child(w, Head(p))
               q == Tail(p)
    <2>1. Head(p) \in Segment /\ q \in Pointer /\ Len(p) \in Nat /\ Len(q) = Len(p) - 1
      BY <1>2, HeadTail
    <2>2. Get(w, p) = Get(c, q)
      BY <1>2, GetCons
    <2>3. c = Missing \/ Good(c, k)
      BY <2>1
    <2> HIDE DEF c, q
    <2>4. CASE c = Missing
      BY <2>1, <2>2, <2>4, GetMissing, MissingFacts
    <2>5. CASE Good(c, k)
      <3>1. Len(p) >= k + 1 => Len(q) >= k
        BY <2>1
      <3> QED
        BY <2>1, <2>2, <2>5, <3>1 DEF Good
    <2> QED
      BY <2>3, <2>4, <2>5
  <1> QED
    BY <1>1, <1>2

\* Something in a document replaced.
LEMMA GoodUpdate ==
    \A p \in Pointer : \A v, x : \A n \in Nat :
        Good(v, n + Len(p)) /\ Get(v, p) # Missing /\ Good(x, n)
          => Good(Update(v, p, x), n + Len(p))
  <1> DEFINE S == {m \in Nat : \A p \in Pointer : Len(p) = m => \A v, x : \A n \in Nat :
                      Good(v, n + m) /\ Get(v, p) # Missing /\ Good(x, n)
                        => Good(Update(v, p, x), n + m)}
  <1>1. 0 \in S
    <2> SUFFICES ASSUME NEW p \in Pointer, Len(p) = 0, NEW v, NEW x, NEW n \in Nat, Good(x, n)
                 PROVE  Good(Update(v, p, x), n + 0)
      OBVIOUS
    <2>1. p = <<>> /\ n + 0 = n
      BY DEF Pointer
    <2> QED
      BY <2>1, UpdateNil
  <1>2. ASSUME NEW m \in Nat, m \in S PROVE m + 1 \in S
    <2>h. \A p \in Pointer : Len(p) = m => \A v, x : \A n \in Nat :
             Good(v, n + m) /\ Get(v, p) # Missing /\ Good(x, n) => Good(Update(v, p, x), n + m)
      BY <1>2
    <2> SUFFICES ASSUME NEW p \in Pointer, Len(p) = m + 1, NEW v, NEW x, NEW n \in Nat,
                        Good(v, n + (m + 1)), Get(v, p) # Missing, Good(x, n)
                 PROVE  Good(Update(v, p, x), n + (m + 1))
      OBVIOUS
    <2> DEFINE s == Head(p)
               q == Tail(p)
               c == Child(v, s)
               y == Update(c, q, x)
               w == WithChild(v, s, y)
               k == n + m
    <2>1. p # <<>>
      BY DEF Pointer
    <2>2. s \in Segment /\ q \in Pointer /\ Len(q) = m
      BY <2>1, HeadTail
    <2>3. Get(v, p) = Get(c, q) /\ Update(v, p, x) = w
      BY <2>1, GetCons, UpdateCons
    <2>4. c # Missing
      BY <2>2, <2>3, GetMissing
    <2>5. k \in Nat /\ n + (m + 1) = k + 1
      OBVIOUS
    <2> HIDE DEF k
    <2>6. Good(v, k + 1)
      BY <2>5
    <2>7. Good(c, k)
      BY <2>2, <2>4, <2>5, <2>6, GoodChild
    <2>8. Good(y, k)
      <3>1. Good(c, n + m)
        BY <2>7 DEF k
      <3> HIDE DEF c, q
      <3>2. Good(Update(c, q, x), n + m)
        BY <2>h, <2>2, <2>3, <3>1
      <3> QED
        BY <3>2 DEF k
    <2>9. Node(v) /\ Roomy(v) /\ y # Missing
      BY <2>6, <2>8, GoodShaped, ShapedTop DEF Good
    <2> HIDE DEF y, s, c
    <2>10. /\ Node(w) /\ w # Missing /\ w.tag = v.tag
           /\ v.tag = "array" => Len(w.seq) = Len(v.seq)
           /\ Child(w, s) = y /\ \A u : u # s => Child(w, u) = Child(v, u)
      BY <2>2, <2>4, <2>9, WithChildFacts DEF c
    <2> HIDE DEF w
    <2>11. Roomy(w)
      BY <2>9, <2>10 DEF Roomy
    <2>12. \A u \in Segment : Child(w, u) = Missing \/ Good(Child(w, u), k)
      <3> TAKE u \in Segment
      <3>1. CASE u = s
        BY <2>8, <2>10, <3>1
      <3>2. CASE u # s
        BY <2>5, <2>6, <2>10, <3>2, GoodChild
      <3> QED
        BY <3>1, <3>2
    <2>13. Good(w, k + 1)
      BY <2>5, <2>10, <2>11, <2>12, GoodCons
    <2> QED
      BY <2>3, <2>5, <2>13
  <1> HIDE DEF S
  <1>3. \A m \in Nat : m \in S
    BY <1>1, <1>2, SetInduction
  <1>4. \A p \in Pointer : Len(p) \in S
    BY <1>3 DEF Pointer
  <1> QED
    BY <1>4 DEF S

\* A child more; an array has room for it.
LEMMA GoodAdd ==
    ASSUME NEW v, NEW k \in Nat, Good(v, k + 1), NEW s \in Segment, NEW x, Good(x, k),
           AddChild(v, s, x) # Missing,
           v.tag = "array" => 2 * (Len(v.seq) + 1) <= Len(Index)
    PROVE  Good(AddChild(v, s, x), k + 1)
  <1> DEFINE A == AddChild(v, s, x)
  <1>0. Node(v) /\ Roomy(v) /\ x # Missing /\ Shaped(v) /\ A # Missing
    BY GoodShaped, ShapedTop DEF Good
  <1>c. \A u \in Segment : Child(v, u) = Missing \/ Good(Child(v, u), k)
    BY GoodChild
  <1>1. CASE v.tag = "array"
    <2> DEFINE w == InsertAt(v.seq, Position(s), x)
               n == Len(v.seq)
    <2>1. InRange(s, n + 1) /\ Node(A) /\ A.tag = "array" /\ A.seq = w /\ Len(w) = n + 1
      BY <1>0, <1>1, AddChildArr
    <2>2. /\ n \in Nat /\ v.seq \in Seq(Range(v.seq))
          /\ \A i \in 1..n : Index[i] \in Segment /\ Child(v, Index[i]) = v.seq[i] /\ v.seq[i] # Missing
      BY <1>0, <1>1, ShapedElements, NodeArr
    <2>3. \A i \in 1..n : Good(v.seq[i], k)
      BY <1>c, <2>2
    <2>4. Position(s) \in 1..(n + 1)
      BY <2>1, <2>2, Positions
    <2> DEFINE T == Range(v.seq) \cup {x}
    <2>5. v.seq \in Seq(T) /\ x \in T
      BY <2>2, SeqMonotonic
    <2> HIDE DEF T
    <2>6. \A j \in 1..(n + 1) : w[j] =
             IF j < Position(s) THEN v.seq[j] ELSE IF j = Position(s) THEN x ELSE v.seq[j - 1]
      <3> DEFINE g == v.seq
                 i == Position(s)
      <3>1. g \in Seq(T) /\ x \in T /\ i \in 1..(Len(g) + 1)
        BY <2>4, <2>5
      <3> HIDE DEF g, i
      <3>2. \A j \in 1..(Len(g) + 1) : InsertAt(g, i, x)[j] =
               IF j < i THEN g[j] ELSE IF j = i THEN x ELSE g[j - 1]
        BY <3>1, Inserted
      <3> QED
        BY <3>2 DEF g, i
    <2> HIDE DEF w, A
    <2>7. \A j \in 1..(n + 1) : Good(w[j], k)
      <3> TAKE j \in 1..(n + 1)
      <3>1. CASE j < Position(s)
        <4>1. j \in 1..n /\ w[j] = v.seq[j]
          BY <2>2, <2>4, <2>6, <3>1
        <4> QED
          BY <2>3, <4>1
      <3>2. CASE j = Position(s)
        BY <2>2, <2>4, <2>6, <3>2
      <3>3. CASE j > Position(s)
        <4>1. j - 1 \in 1..n /\ ~(j < Position(s)) /\ j # Position(s)
          BY <2>2, <2>4, <3>3
        <4>2. w[j] = v.seq[j - 1]
          BY <2>6, <4>1
        <4> QED
          BY <2>3, <4>1, <4>2
      <3> QED
        BY <2>2, <2>4, <3>1, <3>2, <3>3
    <2>8. \A u \in Segment : Child(A, u) = Missing \/ Good(Child(A, u), k)
      <3> TAKE u \in Segment
      <3>1. CASE InRange(u, n + 1)
        <4>1. n + 1 \in Nat
          BY <2>2
        <4>2. Position(u) \in 1..(n + 1)
          BY <3>1, <4>1, Positions
        <4>3. Child(A, u) = w[Position(u)]
          BY <2>1, <3>1, ChildArr
        <4> QED
          BY <2>7, <4>2, <4>3
      <3>2. CASE ~InRange(u, n + 1)
        BY <2>1, <3>2, ChildArr
      <3> QED
        BY <3>1, <3>2
    <2>9. Roomy(A)
      BY <1>1, <2>1 DEF Roomy
    <2>10. Good(A, k + 1)
      BY <1>0, <2>1, <2>8, <2>9, GoodCons
    <2> QED
      BY <2>10 DEF A
  <1>2. CASE v.tag = "object"
    <2>1. /\ Node(A) /\ A.tag = "object" /\ Child(A, s) = x
          /\ \A q : q # s => Child(A, q) = Child(v, q)
      BY <1>0, <1>2, AddChildObj
    <2>2. Roomy(A)
      BY <2>1 DEF Roomy
    <2>3. \A q \in Segment : Child(A, q) = Missing \/ Good(Child(A, q), k)
      BY <1>c, <2>1
    <2> QED
      BY <1>0, <2>1, <2>2, <2>3, GoodCons
  <1> QED
    BY <1>1, <1>2, AddChildOther

\* diff and patch agree (diff.rs, json-patch lib.rs apply_patches): the patch
\* from one document to another applies, gives the other and can be undone,
\* whichever of their values are one allocation.
THEOREM DiffPatched ==
    ASSUME NEW f, NEW t, NEW shared, Nested(f, Depth), Nested(t, Depth)
    PROVE  LET r == ApplyPatches(f, Diff(f, t, shared))
           IN  r.ok /\ r.doc = t /\ UndoAll(t, r.undo) = f
  <1>1. Depth \in Nat
    BY DocumentAssumption
  <1>2. Leads(t, Diff(f, t, shared), f, t) /\ t # Missing
    BY <1>1, DocumentGood, DiffLeads DEF Nested
  <1> QED
    BY <1>2, LeadsPatch, LeadsUndone

\* Scoping keeps the meaning of a patch (patch.rs for_path): what is left for
\* a pointer of the patch between two documents, applied to what the pointer
\* shows in the one, applies and gives what it shows in the other.  The
\* pointer may have segments that parse as indices, as long as they lead into
\* no array of the new document.
THEOREM DiffScoped ==
    ASSUME NEW f, NEW t, NEW shared, Nested(f, Depth), Nested(t, Depth),
           NEW p \in Pointer, Keyed(t, p)
    PROVE  LET r == ApplyPatches(OrNull(Get(f, p)), ForPath(Diff(f, t, shared), p))
           IN  r.ok /\ r.doc = OrNull(Get(t, p))
  <1>1. Depth \in Nat
    BY DocumentAssumption
  <1>2. Leads(t, Diff(f, t, shared), f, t) /\ t # Missing
    BY <1>1, DocumentGood, DiffLeads DEF Nested
  <1>3. Leads(Missing, ForPath(Diff(f, t, shared), p), OrNull(Get(f, p)), OrNull(Get(t, p)))
    BY <1>1, <1>2, LeadsScoped
  <1> QED
    BY <1>3, LeadsPatch

(***************************************************************************)
(* The store.                                                              *)
(***************************************************************************)
\* Nothing to undo.
LEMMA UndoNothing ==
    ASSUME NEW v
    PROVE  UndoAll(v, <<>>) = v
  <1> DEFINE rev == Reverse(<<>>)
             docs == [n \in 0..0 |-> v]
  <1>1. Len(rev) = 0 /\ Len(<<>>) = 0
    BY DEF Reverse
  <1>n. Len(rev) \in Nat
    BY <1>1
  <1>2. docs[0] = v
    OBVIOUS
  <1> HIDE DEF rev, docs
  <1>3. \A n \in 1..Len(rev) : docs[n] = Run(docs[n - 1], rev[n]).doc
    BY <1>1
  <1>4. \A n \in 0..Len(rev) : Course(v, rev)[n] = docs[n]
    <2>1. Unfolds(docs, v, rev)
      BY <1>n, <1>2, <1>3 DEF Unfolds
    <2> QED
      BY <2>1, CourseFollows
  <1>5. Course(v, rev)[0] = v
    BY <1>1, <1>2, <1>4
  <1> QED
    BY <1>1, <1>5 DEF UndoAll, rev

\* A patch of one operation that fails.
LEMMA PatchFails ==
    ASSUME NEW v, NEW o, ~Run(v, o).ok
    PROVE  /\ ApplyPatches(v, <<o>>).ok = FALSE /\ ApplyPatches(v, <<o>>).doc = v
           /\ ApplyPatches(v, <<o>>).undo = <<>>
  <1> DEFINE ops == <<o>>
             at == Course(v, ops)
             bad == {n \in 1..Len(ops) : ~Run(at[n - 1], ops[n]).ok}
             first == CHOOSE n \in bad : \A m \in bad : n <= m
             undone(last) == [n \in 1..last |-> UndoOf(ops[n], Run(at[n - 1], ops[n]).prev)]
             docs == [n \in 0..1 |-> IF n = 0 THEN v ELSE Run(v, o).doc]
  <1>1. Len(ops) = 1 /\ ops[1] = o
    OBVIOUS
  <1>n. Len(ops) \in Nat
    OBVIOUS
  <1>2. docs[0] = v /\ docs[1] = Run(v, o).doc
    OBVIOUS
  <1>3. at[0] = v
    <2> HIDE DEF ops, docs
    <2>1. \A n \in 1..Len(ops) : docs[n] = Run(docs[n - 1], ops[n]).doc
      BY <1>1, <1>2
    <2>2. Unfolds(docs, v, ops)
      BY <1>n, <1>2, <2>1 DEF Unfolds
    <2>3. \A n \in 0..Len(ops) : Course(v, ops)[n] = docs[n]
      BY <2>2, CourseFollows
    <2> QED
      BY <1>1, <1>2, <2>3
  <1>p. /\ bad # {} => /\ ApplyPatches(v, ops).ok = FALSE /\ ApplyPatches(v, ops).undo = <<>>
                      /\ ApplyPatches(v, ops).doc = UndoAll(at[first - 1], undone(first - 1))
    BY DEF ApplyPatches
  <1> HIDE DEF at, ops
  <1>4. bad = {1}
    <2>1. \A n : n \in 1..Len(ops) <=> n = 1
      BY <1>1
    <2>2. ~Run(at[1 - 1], ops[1]).ok
      BY <1>1, <1>3
    <2> QED
      BY <2>1, <2>2
  <1> HIDE DEF bad
  <1>5. first = 1
    BY <1>4
  <1>6. undone(0) = <<>>
    OBVIOUS
  <1> HIDE DEF first, undone
  <1>7. first - 1 = 0
    BY <1>5
  <1>8. ApplyPatches(v, ops).doc = UndoAll(v, <<>>)
    BY <1>3, <1>4, <1>6, <1>7, <1>p
  <1> QED
    BY <1>4, <1>8, <1>p, UndoNothing DEF ops

\* A patch of operations that find what they are for, applied: the document,
\* the views and the undo.
LEMMA ApplyLeads ==
    ASSUME NEW T, T # Missing, \A p \in Watched : Keyed(T, p),
           NEW ops, NEW w, Leads(T, ops, doc, w), ViewsFollow, ApplyPatch(ops)
    PROVE  doc' = w /\ ApplyPatches(doc, ops).ok /\ ViewsFollow' /\ UndoRestores'
  <1>1. ApplyPatches(doc, ops).ok /\ ApplyPatches(doc, ops).doc = w
    BY LeadsPatch
  <1>2. doc' = w
    BY <1>1 DEF ApplyPatch
  <1>3. UndoRestores'
    <2>1. UndoAll(w, ApplyPatches(doc, ops).undo) = doc
      BY LeadsUndone
    <2> QED
      BY <1>1, <2>1 DEF ApplyPatch, UndoRestores
  <1>4. view' = [p \in Watched |-> ApplyPatches(view[p], ForPath(ops, p)).doc]
    BY <1>1 DEF ApplyPatch
  <1>5. ASSUME NEW p \in Watched PROVE view'[p] = OrNull(Get(w, p))
    <2>1. p \in Pointer /\ Keyed(T, p)
      BY PointerAssumption
    <2>2. Leads(Missing, ForPath(ops, p), OrNull(Get(doc, p)), OrNull(Get(w, p)))
      BY <2>1, LeadsScoped
    <2>3. ApplyPatches(OrNull(Get(doc, p)), ForPath(ops, p)).doc = OrNull(Get(w, p))
      BY <2>2, LeadsPatch
    <2>4. view[p] = OrNull(Get(doc, p))
      BY DEF ViewsFollow
    <2> QED
      BY <1>4, <2>3, <2>4
  <1>6. ViewsFollow'
    BY <1>2, <1>5 DEF ViewsFollow
  <1> QED
    BY <1>1, <1>2, <1>3, <1>6

\* No watched pointer leads into an array.
AllKeyed(v) == \A p \in Watched : Keyed(v, p)

\* The inductive invariant: the document is one callers could have made, no
\* watched pointer leads into an array of it, and the three properties.
DocInv ==
    /\ Good(doc, Depth) /\ AllKeyed(doc)
    /\ Reached /\ ViewsFollow /\ UndoRestores

\* The invariant holds initially.
LEMMA DocInitInv ==
    DocInit => DocInv
  <1> SUFFICES ASSUME DocInit PROVE DocInv
    OBVIOUS
  <1>1. Depth \in Nat /\ Depth # 0
    BY DocumentAssumption
  <1>2. Good(doc, Depth)
    BY <1>1, GoodNull DEF DocInit
  <1>k. AllKeyed(doc)
    <2> SUFFICES ASSUME NEW p \in Watched PROVE Keyed(doc, p)
      BY DEF AllKeyed
    <2>0. p \in Pointer /\ doc = Null
      BY PointerAssumption DEF DocInit
    <2>1. ASSUME NEW q \in Pointer PROVE Get(doc, q).tag # "array"
      <3>1. CASE q = <<>>
        BY <2>0, <3>1, GetNil DEF Null
      <3>2. CASE q # <<>>
        <4>1. Tail(q) \in Pointer /\ Child(Null, Head(q)) = Missing
          BY <3>2, HeadTail, ChildOther DEF Null
        <4>2. Get(doc, q) = Missing
          BY <2>0, <3>2, <4>1, GetCons, GetMissing
        <4> QED
          BY <4>2 DEF Missing
      <3> QED
        BY <3>1, <3>2
    <2> QED
      BY <2>0, <2>1, KeyedSplits DEF KeyedSplit
  <1>3. Get(Null, <<>>) = Null
    BY GetNil
  <1>4. Reached
    BY <1>3 DEF DocInit, Reached
  <1>5. ASSUME NEW p \in Watched PROVE view[p] = OrNull(Get(doc, p))
    <2>0. p \in Pointer /\ doc = Null /\ view[p] = Null
      BY PointerAssumption DEF DocInit
    <2>1. CASE p = <<>>
      BY <1>3, <2>0, <2>1 DEF OrNull
    <2>2. CASE p # <<>>
      <3>1. Tail(p) \in Pointer
        BY <2>0, <2>2, HeadTail
      <3>2. Child(Null, Head(p)) = Missing
        BY ChildOther DEF Null
      <3>3. Get(Null, p) = Missing
        BY <2>0, <2>2, <3>1, <3>2, GetCons, GetMissing
      <3> QED
        BY <2>0, <3>3 DEF OrNull
    <2> QED
      BY <2>1, <2>2
  <1> QED
    BY <1>2, <1>k, <1>4, <1>5 DEF DocInv, ViewsFollow, UndoRestores, DocInit

\* apply_function preserves the invariant: the patch is a diff.
LEMMA ApplyFunctionInv ==
    ASSUME DocInv, NEW new \in Root, ApplyFunction(new)
    PROVE  DocInv'
  <1>0. Depth \in Nat /\ Good(doc, Depth) /\ ViewsFollow
    BY DocumentAssumption DEF DocInv
  <1>1. Good(new, Depth)
    BY <1>0, DocumentAssumption, DocumentGood
  <1>2. PICK shared \in Sharing : ApplyPatch(Diff(doc, new, shared))
    BY DEF ApplyFunction
  <1>3. Leads(new, Diff(doc, new, shared), doc, new) /\ new # Missing
    BY <1>0, <1>1, DiffLeads, GoodShaped
  <1>k. \A p \in Watched : Keyed(new, p)
    BY PointerAssumption
  <1>4. doc' = new /\ ViewsFollow' /\ UndoRestores'
    BY <1>0, <1>2, <1>3, <1>k, ApplyLeads
  <1>5. Reached'
    <2>1. asked' = [ptr |-> <<>>, value |-> new]
      BY DEF ApplyFunction
    <2>2. asked'.ptr = <<>> /\ asked'.value = new
      BY <2>1
    <2>3. Get(doc', asked'.ptr) = asked'.value
      BY <1>4, <2>2, GetNil
    <2> QED
      BY <2>3 DEF Reached
  <1> QED
    BY <1>1, <1>4, <1>5, <1>k DEF DocInv, AllKeyed

\* What an update leaves as it was on the way to the part it changes.
LEMMA TagKept ==
    ASSUME NEW v, Shaped(v), NEW u \in Pointer, NEW w \in Pointer, w # <<>>,
           Get(v, u \o w) # Missing, NEW x, Shaped(x), x # Missing
    PROVE  Get(Update(v, u \o w, x), u).tag = Get(v, u).tag
  <1> DEFINE P == Get(v, u)
             s == Head(w)
             y == Update(Child(P, s), Tail(w), x)
  <1>1. Update(v, u \o w, x) = Update(v, u, Update(P, w, x))
    BY UpdateBelow
  <1>2. Get(v, u \o w) = Get(P, w) /\ P # Missing /\ Shaped(P)
    BY GetConcat, GetMissing, ShapedGet
  <1>3. Update(P, w, x) = WithChild(P, s, y)
    BY UpdateCons
  <1>4. Shaped(Update(P, w, x)) /\ Update(P, w, x) # Missing
    BY <1>2, Around
  <1>5. Get(Update(v, u, Update(P, w, x)), u) = Update(P, w, x)
    BY <1>2, <1>4, Around
  <1>6. Child(P, s) # Missing
    BY <1>2, GetCons, GetMissing, HeadTail
  <1>7. P.tag = "array" \/ P.tag = "object"
    BY <1>6, ChildHas
  <1>8. WithChild(P, s, y).tag = P.tag
    BY <1>7 DEF WithChild, Arr, Obj
  <1> QED
    BY <1>1, <1>3, <1>5, <1>8

\* What an update does not change, or only below, has its kind.
LEMMA TagAround ==
    ASSUME NEW v, Shaped(v), NEW q \in Pointer, Get(v, q) # Missing, NEW x, Shaped(x), x # Missing,
           NEW u \in Pointer, ~IsPrefix(q, u)
    PROVE  Get(Update(v, q, x), u).tag = Get(v, u).tag
  <1>1. CASE IsPrefix(u, q)
    <2>1. PICK w \in Pointer : q = u \o w
      BY <1>1, PrefixConcat
    <2>2. w # <<>>
      <3> SUFFICES ASSUME w = <<>> PROVE FALSE
        OBVIOUS
      <3>1. q = u
        BY <2>1, ConcatNothing
      <3> QED
        BY <1>1, <3>1
    <2> QED
      BY <2>1, <2>2, TagKept
  <1>2. CASE ~IsPrefix(u, q)
    BY <1>2, UpdateElsewhere
  <1> QED
    BY <1>1, <1>2

\* Three pointers one after the other.
LEMMA ConcatThree ==
    ASSUME NEW a \in Pointer, NEW b \in Pointer, NEW c \in Pointer
    PROVE  (a \o b) \o c = a \o (b \o c)
  <1>1. a \in Seq(Segment) /\ b \in Seq(Segment) /\ c \in Seq(Segment)
    BY DEF Pointer
  <1> QED
    BY <1>1, ConcatAssociative, SMTT(40)

\* A pointer, as its first segment and the rest.
LEMMA HeadOff ==
    ASSUME NEW w \in Pointer, w # <<>>
    PROVE  w = <<Head(w)>> \o Tail(w)
  <1> DEFINE s == Head(w)
             t == Tail(w)
             one == <<s>>
  <1>1. s \in Segment /\ t \in Pointer
    BY HeadTail
  <1> HIDE DEF s, t
  <1>2. one \in Pointer /\ one # <<>> /\ Head(one) = s /\ Tail(one) = <<>>
    BY <1>1 DEF Pointer
  <1> HIDE DEF one
  <1>3. /\ one \o t \in Pointer /\ one \o t # <<>> /\ Head(one \o t) = s /\ Tail(one \o t) = <<>> \o t
    <2>1. /\ one \o t \in Pointer /\ one \o t # <<>>
          /\ Head(one \o t) = Head(one) /\ Tail(one \o t) = Tail(one) \o t
      BY <1>1, <1>2, ConcatHeadTail
    <2> QED
      BY <1>2, <2>1
  <1>4. <<>> \o t = t
    BY <1>1, ConcatNothing
  <1>5. one \o t = w
    BY <1>3, <1>4, ConsEqual DEF s, t
  <1> QED
    BY <1>5 DEF one, s, t

\* strip_prefix gives what was put after the prefix.
LEMMA BelowConcat ==
    ASSUME NEW q \in Pointer, NEW t \in Pointer
    PROVE  Below(q \o t, q) = t
  BY DEF Below, Pointer

\* The value put over another: no watched pointer leads into an array of it.
LEMMA KeyedPut ==
    ASSUME NEW ptr \in Target, NEW value \in Slot, NEW p \in Watched,
           NEW w \in Pointer, NEW r \in Pointer, p = (ptr \o w) \o r, r # <<>>, ~NoIndex(Head(r))
    PROVE  Get(value, w).tag # "array"
  <1>0. ptr \in Pointer /\ p \in Pointer
    BY PointerAssumption
  <1> DEFINE t == w \o r
  <1>1. p = ptr \o t /\ t \in Pointer
    <2>1. \A x \in Pointer : (x \o w) \o r = x \o (w \o r)
      BY ConcatThree
    <2>2. w \o r \in Pointer
      BY DEF Pointer
    <2> QED
      BY <1>0, <2>1, <2>2
  <1> HIDE DEF t
  <1>2. IsPrefix(ptr, p) /\ Below(p, ptr) = t
    BY <1>0, <1>1, PrefixConcat, BelowConcat
  <1>3. Keyed(value, t)
    BY <1>2, PointerAssumption
  <1> QED
    BY <1>1, <1>3, KeyedSplits DEF KeyedSplit, t

\* put where there is something: the diff of it is a patch of the document.
LEMMA PutOver ==
    ASSUME DocInv, NEW ptr \in Target, NEW value \in Slot, Put(ptr, value),
           Get(doc, ptr) # Missing
    PROVE  DocInv'
  <1> DEFINE d == Get(doc, ptr)
             ops == Diff(d, value, {})
             pre == Prepend(ops, ptr)
             n == Depth - Len(ptr)
             m == Len(ptr)
  <1>0. Depth \in Nat /\ Good(doc, Depth) /\ ViewsFollow /\ ptr \in Pointer
    BY DocumentAssumption, PointerAssumption DEF DocInv
  <1>1. n \in Nat /\ m \in Nat /\ n + m = Depth /\ n <= Depth
    BY <1>0, DocumentAssumption DEF Pointer
  <1>v. Nested(value, n)
    BY DocumentAssumption
  <1>p. ApplyPatch(pre) /\ asked' = IF ApplyPatches(doc, pre).ok THEN [ptr |-> ptr, value |-> value]
                                    ELSE [ptr |-> <<>>, value |-> doc]
    BY DEF Put
  <1> HIDE DEF n
  <1>2. Good(value, n)
    BY <1>1, <1>v, DocumentGood
  <1>3. Good(value, Depth)
    BY <1>0, <1>1, <1>2, GoodLess
  <1>4. Good(d, Depth)
    <2>1. Good(d, n)
      BY <1>0, <1>1, GoodGet
    <2> QED
      BY <1>0, <1>1, <2>1, GoodLess
  <1>5. Leads(value, ops, d, value)
    BY <1>3, <1>4, DiffLeads
  <1>6. Shaped(doc) /\ value # Missing /\ Shaped(value)
    BY <1>0, <1>3, GoodShaped
  <1> HIDE DEF ops
  <1>7. Leads(Update(doc, ptr, value), pre, doc, Update(doc, ptr, value))
    BY <1>0, <1>5, <1>6, LeadsPrepended
  <1>k. AllKeyed(Update(doc, ptr, value)) /\ Update(doc, ptr, value) # Missing
    <2> DEFINE e == Update(doc, ptr, value)
    <2>1. Get(e, ptr) = value /\ e # Missing
      BY <1>0, <1>6, Around
    <2>2. ASSUME NEW p \in Watched, NEW u \in Pointer, NEW r \in Pointer,
                 p = u \o r, r # <<>>, ~NoIndex(Head(r))
          PROVE  Get(e, u).tag # "array"
      <3>0. p \in Pointer /\ Keyed(doc, p)
        BY PointerAssumption DEF DocInv, AllKeyed
      <3>1. CASE IsPrefix(ptr, u)
        <4>1. PICK w \in Pointer : u = ptr \o w
          BY <1>0, <3>1, PrefixConcat
        <4>2. Get(e, u) = Get(value, w)
          BY <1>0, <2>1, <4>1, GetConcat
        <4> QED
          BY <2>2, <4>1, <4>2, KeyedPut
      <3>2. CASE ~IsPrefix(ptr, u)
        <4>1. Get(e, u).tag = Get(doc, u).tag
          BY <1>0, <1>6, <3>2, TagAround
        <4> QED
          BY <2>2, <3>0, <4>1, KeyedSplits DEF KeyedSplit
      <3> QED
        BY <3>1, <3>2
    <2> HIDE DEF e
    <2>3. ASSUME NEW p \in Watched PROVE Keyed(e, p)
      BY <2>2, PointerAssumption, KeyedSplits DEF KeyedSplit
    <2> QED
      BY <2>1, <2>3 DEF AllKeyed, e
  <1>8. Good(Update(doc, ptr, value), Depth)
    <2>1. Good(doc, n + Len(ptr)) /\ n + Len(ptr) = Depth
      BY <1>0, <1>1
    <2> QED
      BY <1>0, <1>1, <1>2, <2>1, GoodUpdate
  <1>9. Get(Update(doc, ptr, value), ptr) = value
    BY <1>0, <1>6, Around
  <1> HIDE DEF pre
  <1>10. doc' = Update(doc, ptr, value) /\ ApplyPatches(doc, pre).ok /\ ViewsFollow' /\ UndoRestores'
    BY <1>0, <1>7, <1>k, <1>p, ApplyLeads DEF AllKeyed
  <1>11. asked'.ptr = ptr /\ asked'.value = value
    BY <1>10, <1>p
  <1> QED
    BY <1>8, <1>9, <1>10, <1>11, <1>k DEF DocInv, Reached, AllKeyed

\* put where there is nothing: one operation, which adds or fails.
LEMMA PutOps ==
    ASSUME NEW ptr \in Pointer, NEW x
    PROVE  Prepend(<<AddOp(<<>>, x)>>, ptr) = <<AddOp(ptr, x)>>
  <1> DEFINE none == <<>>
             o == AddOp(none, x)
             ops == <<o>>
             u == [o EXCEPT !.path = ptr \o @]
             pre == Prepend(ops, ptr)
  <1>1. Len(ops) = 1 /\ ops[1] = o
    OBVIOUS
  <1>0. ptr \o none = ptr
    BY ConcatNothing
  <1> HIDE DEF none
  <1>2. u = AddOp(ptr, x)
    <2>1. [AddOp(none, x) EXCEPT !.path = ptr \o @] = AddOp(ptr \o none, x)
      BY Repath
    <2> QED
      BY <1>0, <2>1
  <1>3. pre = [i \in 1..Len(ops) |-> [ops[i] EXCEPT !.path = ptr \o @]]
    BY DEF Prepend
  <1> HIDE DEF ops, o, u
  <1>a. \A i \in 1..Len(ops) : pre[i] = [ops[i] EXCEPT !.path = ptr \o @]
    BY DEF Prepend
  <1> HIDE DEF pre
  <1>4. pre = [i \in 1..1 |-> pre[i]]
    BY <1>1, <1>3
  <1>5. pre[1] = [ops[1] EXCEPT !.path = ptr \o @]
    <2>1. 1 \in 1..Len(ops)
      BY <1>1
    <2> QED
      BY <1>a, <2>1
  <1>6. pre[1] = u
    BY <1>1, <1>5 DEF u
  <1>7. pre = <<u>>
    <2>1. pre = [i \in 1..1 |-> u]
      BY <1>4, <1>6
    <2>2. [i \in 1..1 |-> u] = <<u>>
      OBVIOUS
    <2> QED
      BY <2>1, <2>2
  <1> QED
    BY <1>2, <1>7 DEF ops, o, none, pre

\* put where there is nothing: the addition has a parent to add to, or fails
\* and leaves everything as it is.
LEMMA PutNew ==
    ASSUME DocInv, NEW ptr \in Target, NEW value \in Slot, Put(ptr, value),
           Get(doc, ptr) = Missing
    PROVE  DocInv'
  <1> DEFINE o == AddOp(ptr, value)
             ops == <<o>>
             n == Depth - Len(ptr)
             m == Len(ptr)
             q == Front(ptr)
             s == Last(ptr)
             parent == Get(doc, q)
             new == AddChild(parent, s, value)
             e == Update(doc, q, new)
  <1>0. Depth \in Nat /\ Good(doc, Depth) /\ ViewsFollow /\ ptr \in Pointer
    BY DocumentAssumption, PointerAssumption DEF DocInv
  <1>v. Nested(value, n)
    BY DocumentAssumption
  <1>1. n \in Nat /\ m \in Nat /\ n + m = Depth
    BY <1>0, DocumentAssumption DEF Pointer
  <1>2. Good(value, n)
    <2> HIDE DEF n
    <2> QED
      BY <1>1, <1>v, DocumentGood
  <1>3. Prepend(<<AddOp(<<>>, value)>>, ptr) = ops
    BY <1>0, PutOps
  <1>p. ApplyPatch(ops) /\ asked' = IF ApplyPatches(doc, ops).ok THEN [ptr |-> ptr, value |-> value]
                                    ELSE [ptr |-> <<>>, value |-> doc]
    BY <1>3 DEF Put
  <1>4. ptr # <<>>
    BY <1>0, GetNil DEF Good
  <1>5. q \in Pointer /\ s \in Segment /\ ptr = Append(q, s)
    BY <1>0, <1>4, FrontLast
  <1>s. m # 0 /\ s = ptr[m]
    BY <1>0, <1>4 DEF Last, Pointer
  <1> HIDE DEF q, s, n
  <1>6. Get(doc, ptr) = Child(parent, s) /\ Len(q) = m - 1
    <2>1. ptr = q \o <<s>> /\ <<s>> \in Pointer
      BY <1>5, AppendFront
    <2>2. Get(doc, q \o <<s>>) = Get(parent, <<s>>)
      BY <1>5, <2>1, GetConcat
    <2>3. Get(parent, <<s>>) = Child(parent, s)
      BY <1>5, GetOne
    <2>4. Len(Append(q, s)) = Len(q) + 1 /\ Len(q) \in Nat
      BY <1>5 DEF Pointer
    <2> QED
      BY <1>5, <2>1, <2>2, <2>3, <2>4
  <1> HIDE DEF m
  <1>7. CASE new = Missing
    <2>1. ~Run(doc, o).ok
      <3>1. o.op = "add" /\ o.path = ptr /\ o.value = value
        BY DEF AddOp
      <3>2. Run(doc, o) = Add(doc, ptr, value)
        BY <3>1 DEF Run
      <3>3. Add(doc, ptr, value) = Failed
        BY <1>4, <1>7 DEF Add, q, s
      <3> QED
        BY <3>2, <3>3 DEF Failed
    <2> HIDE DEF o
    <2>2. ApplyPatches(doc, ops).ok = FALSE /\ ApplyPatches(doc, ops).doc = doc /\ ApplyPatches(doc, ops).undo = <<>>
      BY <2>1, PatchFails
    <2> HIDE DEF ops
    <2>3. doc' = doc /\ view' = view /\ restored'
      BY <1>p, <2>2, UndoNothing DEF ApplyPatch
    <2>4. asked'.ptr = <<>> /\ asked'.value = doc
      BY <1>p, <2>2
    <2>5. Reached'
      BY <2>3, <2>4, GetNil DEF Reached
    <2>6. ViewsFollow'
      BY <1>0, <2>3 DEF ViewsFollow
    <2> QED
      BY <1>0, <2>3, <2>5, <2>6 DEF DocInv, UndoRestores, AllKeyed
  <1>8. CASE new # Missing
    <2>1. parent # Missing
      <3>1. parent.tag = "array" \/ parent.tag = "object"
        BY <1>8, AddChildOther
      <3> QED
        BY <3>1 DEF Missing
    <2> DEFINE k == Len(q)
    <2>2. k \in Nat /\ n + 1 \in Nat /\ (n + 1) + k = Depth
      BY <1>1, <1>s, <1>6
    <2>3. Good(parent, n + 1)
      <3>1. Good(doc, (n + 1) + k)
        BY <1>0, <2>2
      <3> QED
        BY <1>5, <2>1, <2>2, <3>1, GoodGet
    <2>4. ASSUME parent.tag = "array" PROVE 2 * (Len(parent.seq) + 1) <= Len(Index)
      <3> DEFINE l == Len(parent.seq)
      <3>0. Node(parent) /\ l \in Nat /\ \A i \in 1..l : parent.seq[i] # Missing
        BY <2>3, <2>4, GoodShaped, ShapedTop, NodeArr
      <3>1. InRange(s, l + 1)
        BY <1>2, <1>8, <2>4, <3>0, AddChildArr DEF Good
      <3> DEFINE i == Position(s)
      <3>2. i \in 1..(l + 1) /\ i \in 1..Len(Index) /\ Index[i] = s
        <4>1. l + 1 \in Nat
          BY <3>0
        <4> HIDE DEF l
        <4> QED
          BY <3>1, <4>1, Positions
      <3>3. ~(i <= l)
        <4> SUFFICES ASSUME i <= l PROVE FALSE
          OBVIOUS
        <4>1. InRange(s, l) /\ i \in 1..l
          BY <3>0, <3>2 DEF InRange
        <4>2. Child(parent, s) = parent.seq[i]
          BY <2>4, <4>1, ChildArr
        <4> QED
          BY <1>6, <3>0, <4>1, <4>2
      <3>4. i = l + 1
        <4> HIDE DEF i, l
        <4> QED
          BY <3>0, <3>2, <3>3
      <3>5. 2 * i <= Len(Index)
        <4>1. m \in 1..Len(ptr) /\ ptr[m] = Index[i]
          BY <1>1, <1>s, <3>2 DEF m
        <4> HIDE DEF i
        <4> QED
          BY <3>2, <4>1, PointerAssumption
      <3> QED
        BY <3>4, <3>5
    <2>5. Good(new, n + 1)
      BY <1>1, <1>2, <1>5, <1>8, <2>3, <2>4, GoodAdd
    <2>6. Shaped(doc) /\ doc # Missing /\ Shaped(value) /\ value # Missing /\ Shaped(new)
      BY <1>0, <1>2, <2>5, GoodShaped
    <2>7. Good(e, Depth)
      <3> HIDE DEF new, parent
      <3>1. Good(doc, (n + 1) + Len(q)) /\ (n + 1) + Len(q) = Depth /\ Get(doc, q) # Missing
        BY <1>0, <2>1, <2>2 DEF parent
      <3> QED
        BY <1>5, <2>2, <2>5, <3>1, GoodUpdate
    <2>8. Shaped(e) /\ e # Missing /\ Get(e, q) = new
      BY <1>5, <1>8, <2>1, <2>6, Around
    <2>9. Step(doc, o, e)
      <3>1. Adds(doc, o, e, q, s, value)
        BY <1>5, <1>8, <2>6 DEF Adds
      <3> HIDE DEF o, e
      <3> QED
        BY <2>6, <2>8, <3>1 DEF Step
    <2>k. new.tag = parent.tag /\ (parent.tag = "array" \/ parent.tag = "object") /\ Node(parent)
      <3>1. Node(parent)
        BY <2>3, GoodShaped, ShapedTop
      <3>2. parent.tag = "array" \/ parent.tag = "object"
        BY <1>8, AddChildOther
      <3> QED
        BY <1>8, <3>1, <3>2 DEF AddChild, Arr, Obj
    <2>10. Leads(e, ops, doc, e)
      <3>1. Sited(e, doc, o)
        <4>1. o.path = Append(q, s)
          BY <1>5 DEF AddOp
        <4> HIDE DEF o, e
        <4> QED
          BY <1>5, <2>8, <2>k, <4>1 DEF Sited
      <3> HIDE DEF o, e
      <3>2. Move(e, doc, o, e)
        BY <2>9, <3>1, StepRuns DEF Move
      <3> QED
        BY <3>2, LeadsOne
    <2>a. AllKeyed(e)
      <3>1. ASSUME NEW p \in Watched, NEW u \in Pointer, NEW r \in Pointer,
                   p = u \o r, r # <<>>, ~NoIndex(Head(r))
            PROVE  Get(e, u).tag # "array"
        <4>0. p \in Pointer /\ Keyed(doc, p)
          BY PointerAssumption DEF DocInv, AllKeyed
        <4>d. Get(doc, u).tag # "array"
          BY <3>1, <4>0, KeyedSplits DEF KeyedSplit
        <4>1. CASE ~IsPrefix(q, u)
          <5>1. Get(e, u).tag = Get(doc, u).tag
            BY <1>5, <1>8, <2>1, <2>6, <4>1, TagAround
          <5> QED
            BY <4>d, <5>1
        <4>2. CASE IsPrefix(q, u)
          <5>1. PICK w \in Pointer : u = q \o w
            BY <1>5, <4>2, PrefixConcat
          <5>2. Get(e, u) = Get(new, w) /\ Get(doc, u) = Get(parent, w)
            <6> HIDE DEF e, new
            <6> QED
              BY <1>5, <2>8, <5>1, GetConcat
          <5> HIDE DEF e, new, parent
          <5>3. CASE w = <<>>
            <6>1. Get(new, w) = new /\ Get(parent, w) = parent
              BY <5>3, GetNil
            <6> QED
              BY <2>k, <4>d, <5>2, <6>1
          <5>4. CASE w # <<>>
            <6> DEFINE h == Head(w)
                       rest == Tail(w)
            <6>1. /\ h \in Segment /\ rest \in Pointer
                  /\ Get(new, w) = Get(Child(new, h), rest) /\ Get(parent, w) = Get(Child(parent, h), rest)
              BY <5>4, HeadTail, GetCons
            <6>w. w = <<h>> \o rest
              BY <5>4, HeadOff
            <6> DEFINE t == w \o r
            <6>2. t \in Pointer /\ t # <<>> /\ Head(t) = h /\ p = q \o t
              <7>1. t \in Pointer /\ t # <<>> /\ Head(t) = h
                BY <5>4, ConcatHeadTail
              <7>2. (q \o w) \o r = q \o t
                BY <1>5, ConcatThree, ZenonT(40)
              <7> QED
                BY <3>1, <5>1, <7>1, <7>2
            <6> HIDE DEF h, rest, t
            <6>3. CASE parent.tag = "array"
              <7>1. NoIndex(h)
                BY <1>5, <4>0, <6>2, <6>3, KeyedSplits DEF KeyedSplit, parent
              <7>2. Child(new, h) = Missing
                BY <2>k, <6>3, <7>1, NoIndexChild
              <7>3. Get(e, u) = Missing
                BY <5>2, <6>1, <7>2, GetMissing
              <7> QED
                BY <7>3 DEF Missing
            <6>4. CASE parent.tag = "object" /\ h # s
              <7>1. Child(new, h) = Child(parent, h)
                BY <1>5, <2>6, <2>k, <6>1, <6>4, AddChildObj DEF new
              <7> QED
                BY <4>d, <5>2, <6>1, <7>1
            <6>5. CASE parent.tag = "object" /\ h = s
              <7>1. Child(new, h) = value
                BY <1>5, <2>6, <2>k, <6>5, AddChildObj DEF new
              <7>2. u = ptr \o rest
                <8>1. ptr = q \o <<s>> /\ <<s>> \in Pointer
                  BY <1>5, AppendFront
                <8> DEFINE one == <<s>>
                <8>2. one \in Pointer /\ ptr = q \o one /\ w = one \o rest
                  BY <6>5, <6>w, <8>1
                <8> HIDE DEF one
                <8>3. \A x \in Pointer : (x \o one) \o rest = x \o (one \o rest)
                  <9>1. one \in Pointer /\ rest \in Pointer
                    BY <6>1, <8>2
                  <9> QED
                    BY <9>1, ConcatThree, ZenonT(30)
                <8> QED
                  BY <1>5, <5>1, <8>2, <8>3
              <7>3. p = (ptr \o rest) \o r
                BY <3>1, <7>2
              <7>4. Get(value, rest).tag # "array"
                BY <3>1, <6>1, <7>3, KeyedPut
              <7> QED
                BY <5>2, <6>1, <7>1, <7>4
            <6> QED
              BY <2>k, <6>3, <6>4, <6>5
          <5> QED
            BY <5>3, <5>4
        <4> QED
          BY <4>1, <4>2
      <3> HIDE DEF e
      <3>2. ASSUME NEW p \in Watched PROVE Keyed(e, p)
        BY <3>1, PointerAssumption, KeyedSplits DEF KeyedSplit
      <3> QED
        BY <3>2 DEF AllKeyed
    <2>11. Get(e, ptr) = value
      <3> HIDE DEF e
      <3>1. ptr = q \o <<s>> /\ <<s>> \in Pointer
        BY <1>5, AppendFront
      <3>2. Get(e, q \o <<s>>) = Get(new, <<s>>)
        BY <1>5, <2>8, <3>1, GetConcat
      <3>3. Get(new, <<s>>) = Child(new, s)
        BY <1>5, GetOne
      <3>4. Node(parent)
        BY <2>3, GoodShaped, ShapedTop
      <3>5. parent.tag = "array" \/ parent.tag = "object"
        BY <1>8, AddChildOther
      <3>6. Child(new, s) = value
        <4> HIDE DEF parent
        <4>1. CASE parent.tag = "array"
          BY <1>8, <2>6, <3>4, <4>1, AddChildArr
        <4>2. CASE parent.tag = "object"
          BY <1>5, <2>6, <3>4, <4>2, AddChildObj
        <4> QED
          BY <3>5, <4>1, <4>2
      <3> QED
        BY <3>1, <3>2, <3>3, <3>6
    <2> HIDE DEF e, ops
    <2>12. doc' = e /\ ApplyPatches(doc, ops).ok /\ ViewsFollow' /\ UndoRestores'
      BY <1>0, <1>p, <2>8, <2>10, <2>a, ApplyLeads DEF AllKeyed
    <2>13. asked'.ptr = ptr /\ asked'.value = value
      BY <1>p, <2>12
    <2> QED
      BY <2>7, <2>11, <2>12, <2>13, <2>a DEF DocInv, Reached, AllKeyed
  <1> QED
    BY <1>7, <1>8

\* Every step preserves the invariant.
LEMMA DocNextInv ==
    DocInv /\ [DocNext]_docVars => DocInv'
  <1> SUFFICES ASSUME DocInv, [DocNext]_docVars PROVE DocInv'
    OBVIOUS
  <1>1. CASE \E new \in Root : ApplyFunction(new)
    BY <1>1, ApplyFunctionInv
  <1>2. CASE \E ptr \in Target, value \in Slot : Put(ptr, value)
    BY <1>2, PutOver, PutNew
  <1>3. CASE UNCHANGED docVars
    BY <1>3 DEF docVars, DocInv, Reached, ViewsFollow, UndoRestores, AllKeyed
  <1> QED
    BY <1>1, <1>2, <1>3 DEF DocNext

\* The invariant holds always.
LEMMA DocInvAlways ==
    DocSpec => []DocInv
  BY DocInitInv, DocNextInv, PTL DEF DocSpec

\* A change leaves the document with what the caller asked for at the pointer:
\* diff and patch (diff.rs, json-patch lib.rs) agree for all documents with
\* room for their arrays, whatever elements share their allocation, and put
\* either puts the value or leaves the document as it is.
THEOREM DocReached == DocSpec => []Reached
  BY DocInvAlways, PTL DEF DocInv

\* The views of all watched pointers stay equal to the part of the document
\* they watch, null where there is none: for_path loses nothing of a patch
\* and adds nothing to it.
THEOREM DocViewsFollow == DocSpec => []ViewsFollow
  BY DocInvAlways, PTL DEF DocInv

\* Undoing the last patch gives the document there was, and a patch that fails
\* left it as it was (json-patch lib.rs apply_patches).
THEOREM DocUndoRestores == DocSpec => []UndoRestores
  BY DocInvAlways, PTL DEF DocInv
=============================================================================
