------------------------------ MODULE JsonPatch ------------------------------
(***************************************************************************)
(* The document algorithms of patch-db: diff, patch with its undo, and the *)
(* scoping of a patch to a pointer (patch-db/json-patch/src/lib.rs and     *)
(* diff.rs, json-ptr/src/lib.rs, core/src/patch.rs), driven by the two     *)
(* ways a document is changed, PatchDb::apply_function and PatchDb::put    *)
(* (core/src/store.rs), with one view per watched pointer.                 *)
(*                                                                         *)
(* A value is null, a string, an array or an object, tagged so that an     *)
(* empty array is not an empty object.  Pointers are sequences of          *)
(* segments; an array index is a segment like any other.  The loops of the *)
(* code over segments, operations and elements are recursive functions of  *)
(* the number of rounds.                                                   *)
(***************************************************************************)
EXTENDS Integers, Sequences, FiniteSets, SequencesExt

CONSTANTS
    Segment,        \* the segments of pointers
    Index,          \* the segments that parse as array indices, in order
    Depth,          \* documents are nested less deep than this
    Root,           \* the documents callers make
    Slot,           \* the values put at a pointer
    Target,         \* the pointers put is called with
    Watched,        \* the pointers watched
    Sharing         \* which values of the old and the new document may be one
                    \* allocation: sets of pairs of pointers

Null == [tag |-> "null"]
Str(c) == [tag |-> "string", str |-> c]
Arr(s) == [tag |-> "array", seq |-> s]
Obj(f) == [tag |-> "object", map |-> f]
Missing == [tag |-> "missing"]

Pointer == Seq(Segment)

ASSUME IndexAssumption ==
    /\ Index \in Seq(Segment)
    /\ \A i, j \in 1..Len(Index) : Index[i] = Index[j] => i = j

(***************************************************************************)
(* Pointers.                                                               *)
(***************************************************************************)
Position(seg) == CHOOSE i \in 1..Len(Index) : Index[i] = seg
InRange(seg, n) == \E i \in 1..Len(Index) : i <= n /\ Index[i] = seg

Child(v, seg) ==
    CASE v.tag = "array" /\ InRange(seg, Len(v.seq)) -> v.seq[Position(seg)]
      [] v.tag = "object" /\ seg \in DOMAIN v.map -> v.map[seg]
      [] OTHER -> Missing

\* v with the child at seg, which it has, replaced.
WithChild(v, seg, x) ==
    IF v.tag = "array" THEN Arr([v.seq EXCEPT ![Position(seg)] = x])
    ELSE Obj([v.map EXCEPT ![seg] = x])

\* v with a child more, before what an array has at seg and in place of what
\* an object has there; Missing if it cannot have one.
AddChild(v, seg, x) ==
    CASE v.tag = "array" /\ InRange(seg, Len(v.seq) + 1) ->
            Arr(InsertAt(v.seq, Position(seg), x))
      [] v.tag = "object" ->
            Obj([k \in DOMAIN v.map \cup {seg} |-> IF k = seg THEN x ELSE v.map[k]])
      [] OTHER -> Missing

\* v without the child at seg, which it has.
DropChild(v, seg) ==
    IF v.tag = "array" THEN Arr(RemoveAt(v.seq, Position(seg)))
    ELSE Obj([k \in DOMAIN v.map \ {seg} |-> v.map[k]])

\* JsonPointer::get
Get(v, ptr) ==
    LET at[n \in 0..Len(ptr)] == IF n = 0 THEN v ELSE Child(at[n - 1], ptr[n])
    IN  at[Len(ptr)]

\* v with what is at ptr, where there is something, replaced: get_mut.
Update(v, ptr, x) ==
    LET up[n \in 0..Len(ptr)] ==
            IF n = 0 THEN x
            ELSE LET m == Len(ptr) - n
                 IN  WithChild(Get(v, SubSeq(ptr, 1, m)), ptr[m + 1], up[n - 1])
    IN  up[Len(ptr)]

\* Store::dump, and `.unwrap_or_default()` on a get.
OrNull(v) == IF v = Missing THEN Null ELSE v

\* strip_prefix: what is left of ptr below base.
Below(ptr, base) == SubSeq(ptr, Len(base) + 1, Len(ptr))

(***************************************************************************)
(* What callers pass.  An array is at most half as long as there are       *)
(* indices (usize): on the way from one array to another a patch may need  *)
(* the places of both.                                                     *)
(***************************************************************************)
Node(v) ==
    \/ v = Missing
    \/ v = Null
    \/ v.tag = "string" /\ v = Str(v.str)
    \/ /\ v.tag = "array" /\ v = Arr(v.seq)
       /\ v.seq \in Seq(Range(v.seq)) /\ Missing \notin Range(v.seq)
    \/ /\ v.tag = "object" /\ v = Obj(v.map)
       /\ v.map \in [DOMAIN v.map -> Range(v.map)] /\ Missing \notin Range(v.map)
       /\ DOMAIN v.map \subseteq Segment /\ IsFiniteSet(DOMAIN v.map)

Roomy(v) == v.tag = "array" => 2 * Len(v.seq) <= Len(Index)

\* A document nested less than n deep.
Nested(v, n) ==
    /\ v # Missing
    /\ \A m \in 0..n : \A ptr \in [1..m -> Segment] :
          /\ Node(Get(v, ptr)) /\ Roomy(Get(v, ptr))
          /\ m = n => Get(v, ptr) = Missing

ASSUME DocumentAssumption ==
    /\ Depth \in Nat \ {0}
    /\ \A v \in Root : Nested(v, Depth)
    /\ \A ptr \in Target : Len(ptr) < Depth /\ \A v \in Slot : Nested(v, Depth - Len(ptr))

\* A segment of p that parses as an index leads into no array of v: it is a
\* key there, like the port in .../bindings/{port}/interfaces/{id}.
Keyed(v, p) ==
    \A m \in 1..Len(p) :
        (\E i \in 1..Len(Index) : p[m] = Index[i]) => Get(v, SubSeq(p, 1, m - 1)).tag # "array"

\* The pointers put is called with leave room in the arrays; those watched
\* lead into no array of what callers make.
ASSUME PointerAssumption ==
    /\ Target \subseteq Pointer /\ Watched \subseteq Pointer
    /\ \A ptr \in Target : \A j \in 1..Len(ptr), i \in 1..Len(Index) :
          ptr[j] = Index[i] => 2 * i <= Len(Index)
    /\ \A v \in Root, p \in Watched : Keyed(v, p)
    /\ \A ptr \in Target, v \in Slot, p \in Watched :
          IsPrefix(ptr, p) => Keyed(v, Below(p, ptr))

(***************************************************************************)
(* Operations: each gives the new document and what was there before, or   *)
(* fails.                                                                  *)
(***************************************************************************)
Failed == [ok |-> FALSE, doc |-> Missing, prev |-> Missing]
Done(new, prev) == [ok |-> TRUE, doc |-> new, prev |-> prev]

\* JsonPointer::insert, not recursive: add
Add(v, ptr, x) ==
    IF ptr = <<>> THEN Done(x, v)
    ELSE LET parent == Get(v, Front(ptr))
             new == AddChild(parent, Last(ptr), x)
         IN  IF new = Missing THEN Failed
             ELSE Done(Update(v, Front(ptr), new),
                       IF parent.tag = "object" THEN Child(parent, Last(ptr)) ELSE Missing)

\* JsonPointer::remove
Delete(v, ptr) ==
    IF ptr = <<>> \/ Get(v, ptr) = Missing THEN Failed
    ELSE Done(Update(v, Front(ptr), DropChild(Get(v, Front(ptr)), Last(ptr))), Get(v, ptr))

\* replace: what is not there yet is added.
Replace(v, ptr, x) ==
    IF Get(v, ptr) # Missing THEN Done(Update(v, ptr, x), Get(v, ptr))
    ELSE LET r == Add(v, ptr, x) IN [r EXCEPT !.prev = OrNull(@)]

AddOp(ptr, x) == [op |-> "add", path |-> ptr, value |-> x]
RemoveOp(ptr) == [op |-> "remove", path |-> ptr, value |-> Null]
ReplaceOp(ptr, x) == [op |-> "replace", path |-> ptr, value |-> x]

Run(v, o) ==
    CASE o.op = "add" -> Add(v, o.path, o.value)
      [] o.op = "remove" -> Delete(v, o.path)
      [] o.op = "replace" -> Replace(v, o.path, o.value)

\* The operation that an undo closure of apply_patches performs.
UndoOf(o, prev) ==
    CASE o.op = "add" /\ prev = Missing -> RemoveOp(o.path)
      [] o.op = "add" /\ prev # Missing -> AddOp(o.path, prev)
      [] o.op = "remove" -> AddOp(o.path, prev)
      [] o.op = "replace" -> ReplaceOp(o.path, prev)

(***************************************************************************)
(* Patches: apply_patches, and for_path.                                   *)
(***************************************************************************)
\* The document before the operations, and after each of them.
Course(v, ops) ==
    LET at[n \in 0..Len(ops)] == IF n = 0 THEN v ELSE Run(at[n - 1], ops[n]).doc
    IN  at

\* Mutant of UndoAll: the operations are undone first to last.
UndoFirstToLast(v, undo) == Course(v, undo)[Len(undo)]

\* Undo::apply
UndoAll(v, undo) == Course(v, Reverse(undo))[Len(undo)]

\* json_patch::patch: the operations in turn; if one fails, those before it
\* are undone.
ApplyPatches(v, ops) ==
    LET at == Course(v, ops)
        result(n) == Run(at[n - 1], ops[n])
        bad == {n \in 1..Len(ops) : ~result(n).ok}
        undo(last) == [n \in 1..last |-> UndoOf(ops[n], result(n).prev)]
    IN  IF bad = {} THEN [ok |-> TRUE, doc |-> at[Len(ops)], undo |-> undo(Len(ops))]
        ELSE LET first == CHOOSE n \in bad : \A m \in bad : n <= m
             IN  [ok |-> FALSE, doc |-> UndoAll(at[first - 1], undo(first - 1)), undo |-> <<>>]

\* Mutant of Scoped: removing what contains the pointer is not passed on.
ScopedLosesRemove(o, ptr) ==
    IF IsPrefix(ptr, o.path)
    THEN <<[o EXCEPT !.path = Below(o.path, ptr)]>>
    ELSE IF IsPrefix(o.path, ptr) /\ o.op # "remove"
    THEN <<[op |-> o.op, path |-> <<>>, value |-> OrNull(Get(o.value, Below(ptr, o.path)))]>>
    ELSE <<>>

\* One arm of DiffPatch::for_path: an operation at or below the pointer is
\* taken relative to it, one above it becomes an operation on the whole value.
Scoped(o, ptr) ==
    IF o.op = "remove"
    THEN IF IsPrefix(o.path, ptr) THEN <<ReplaceOp(<<>>, Null)>>
         ELSE IF IsPrefix(ptr, o.path) THEN <<RemoveOp(Below(o.path, ptr))>>
         ELSE <<>>
    ELSE IF IsPrefix(ptr, o.path)
         THEN <<[o EXCEPT !.path = Below(o.path, ptr)]>>
         ELSE IF IsPrefix(o.path, ptr)
         THEN <<[op |-> o.op, path |-> <<>>, value |-> OrNull(Get(o.value, Below(ptr, o.path)))]>>
         ELSE <<>>

ForPath(ops, ptr) ==
    FlattenSeq([i \in 1..Len(ops) |-> Scoped(ops[i], ptr)])

Prepend(ops, ptr) ==
    [i \in 1..Len(ops) |-> [ops[i] EXCEPT !.path = ptr \o @]]

(***************************************************************************)
(* diff.  diff_mut has references into both documents: pointers here.  The *)
(* path of an operation is the pointer into the new document.  deeper is   *)
(* diff_mut, one level down.                                               *)
(***************************************************************************)
\* The object arm of diff_mut: what becomes of one key.
DiffKey(deeper, f, t, from, to, key) ==
    LET at == Append(to, key)
    IN  CASE key \notin DOMAIN t -> <<RemoveOp(at)>>
          [] key \notin DOMAIN f -> <<AddOp(at, t[key])>>
          [] key \in DOMAIN f \cap DOMAIN t ->
                IF f[key] = t[key] THEN <<>> ELSE deeper[Append(from, key)][at]

DiffObjects(deeper, f, t, from, to) ==
    LET keys == SetToSeq(DOMAIN f \cup DOMAIN t)
    IN  FlattenSeq([i \in 1..Len(keys) |-> DiffKey(deeper, f, t, from, to, keys[i])])

\* Mutant of DiffElement: what is removed is removed at its old position.
RemoveAtOld(deeper, f, t, from, to, shared, s) ==
    LET same(i, k) == /\ f[i] = t[k]
                      /\ <<Append(from, Index[i]), Append(to, Index[k])>> \in shared
    IN  IF s.fi > Len(f) THEN [s EXCEPT !.ti = Len(t) + 1]
        ELSE IF s.ti > Len(t) \/ ~same(s.fi, s.ti)
        THEN [s EXCEPT !.fi = @ + 1, !.ops = Append(@, RemoveOp(Append(to, Index[s.fi])))]
        ELSE [s EXCEPT !.fi = @ + 1, !.ti = @ + 1]

\* One round of the loops of the array arm; the array patched so far is
\* t[1..ti-1] followed by f[fi..].  Elements are matched by address
\* (Value::ptr_eq), and equal strings may or may not be one allocation.  A
\* match is looked for further on in the longer of the two.
DiffElement(deeper, f, t, from, to, shared, s) ==
    LET same(i, k) == /\ f[i] = t[k]
                      /\ <<Append(from, Index[i]), Append(to, Index[k])>> \in shared
        at == Append(to, Index[s.ti])
        go(i, k, ops) == [fi |-> s.fi + i, ti |-> s.ti + k, ops |-> s.ops \o ops]
        add == go(0, 1, <<AddOp(at, t[s.ti])>>)
        remove == go(1, 0, <<RemoveOp(at)>>)
    IN  CASE s.fi > Len(f) /\ s.ti > Len(t) -> s
          [] s.fi > Len(f) /\ s.ti <= Len(t) -> add
          [] s.fi <= Len(f) /\ s.ti > Len(t) -> remove
          [] s.fi <= Len(f) /\ s.ti <= Len(t) ->
                IF same(s.fi, s.ti) THEN go(1, 1, <<>>)
                ELSE IF Len(f) < Len(t) /\ \E k \in s.ti + 1 .. Len(t) : same(s.fi, k)
                THEN add
                ELSE IF Len(f) > Len(t) /\ \E i \in s.fi + 1 .. Len(f) : same(i, s.ti)
                THEN remove
                ELSE go(1, 1, deeper[Append(from, Index[s.fi])][at])

DiffArrays(deeper, f, t, from, to, shared) ==
    LET round[n \in 0 .. Len(f) + Len(t)] ==
            IF n = 0 THEN [fi |-> 1, ti |-> 1, ops |-> <<>>]
            ELSE DiffElement(deeper, f, t, from, to, shared, round[n - 1])
    IN  round[Len(f) + Len(t)].ops

DiffMut(deeper, f, t, from, to, shared) ==
    LET a == Get(f, from)
        b == Get(t, to)
    IN  CASE a.tag = "object" /\ b.tag = "object" ->
                DiffObjects(deeper, a.map, b.map, from, to)
          [] a.tag = "array" /\ b.tag = "array" ->
                DiffArrays(deeper, a.seq, b.seq, from, to, shared)
          [] OTHER -> IF a = b THEN <<>> ELSE <<ReplaceOp(to, b)>>

\* json_patch::diff
Diff(f, t, shared) ==
    LET diff[n \in 0..Depth] ==
            [from \in Pointer |-> [to \in Pointer |->
                IF n = 0 THEN <<>> ELSE DiffMut(diff[n - 1], f, t, from, to, shared)]]
    IN  diff[Depth][<<>>][<<>>]

(***************************************************************************)
(* The store.                                                              *)
(***************************************************************************)
VARIABLES
    doc,        \* Store.persistent
    view,       \* [Watched -> value]: Store::dump, then the scoped patches
    restored,   \* whether the undo of the last patch gives the document before it
    asked       \* what the last caller asked for: the value at a pointer

docVars == <<doc, view, restored, asked>>

DocInit ==
    /\ doc = Null
    /\ view = [p \in Watched |-> Null]
    /\ restored = TRUE
    /\ asked = [ptr |-> <<>>, value |-> Null]

\* Store::apply up to the broadcast; a subscriber is sent what is left of the
\* patch for its pointer, unless nothing is left.
ApplyPatch(ops) ==
    LET r == ApplyPatches(doc, ops)
    IN  /\ doc' = r.doc
        /\ restored' = (UndoAll(r.doc, r.undo) = doc)
        /\ view' = IF r.ok
                   THEN [p \in Watched |-> ApplyPatches(view[p], ForPath(ops, p)).doc]
                   ELSE view

\* PatchDb::apply_function with a function that returns new, of which parts
\* may be parts of the document still.
ApplyFunction(new) ==
    /\ \E shared \in Sharing : ApplyPatch(Diff(doc, new, shared))
    /\ asked' = [ptr |-> <<>>, value |-> new]

\* PatchDb::put: what is there is diffed, what is missing is added; with
\* nothing to add it to the patch fails and the document stays.
Put(ptr, value) ==
    LET existing == Get(doc, ptr)
        ops == IF existing = Missing THEN <<AddOp(<<>>, value)>>
               ELSE Diff(existing, value, {})
    IN  /\ ApplyPatch(Prepend(ops, ptr))
        /\ asked' = IF ApplyPatches(doc, Prepend(ops, ptr)).ok
                    THEN [ptr |-> ptr, value |-> value]
                    ELSE [ptr |-> <<>>, value |-> doc]

DocNext ==
    \/ \E new \in Root : ApplyFunction(new)
    \/ \E ptr \in Target, value \in Slot : Put(ptr, value)

DocSpec == DocInit /\ [][DocNext]_docVars

\* After a change the document holds what the caller asked for: the patch
\* diff computes, applied operation by operation, leads to the new document
\* whichever elements of an array share their allocation (store.rs
\* apply_function, put_value; diff.rs diff_mut).
Reached == Get(doc, asked.ptr) = asked.value

\* Every watched pointer shows what is in the document, however the patches
\* of the changes were cut down to it: a part that disappears reads null, and
\* a patch with nothing for the pointer left the part unchanged (patch.rs
\* for_path, subscriber.rs send).
ViewsFollow == \A p \in Watched : view[p] = OrNull(Get(doc, p))

\* The undo of a patch restores the document exactly, so the rollback of a
\* revision that could not be written leaves memory as it was (lib.rs
\* apply_patches, store.rs TentativeUpdated::drop).
UndoRestores == restored
=============================================================================
