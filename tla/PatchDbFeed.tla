----------------------------- MODULE PatchDbFeed -----------------------------
(***************************************************************************)
(* The patch-db change feed: Broadcast hands every committed revision to   *)
(* the subscribers of the pointers it touches, and DbWatch and             *)
(* JsonSubscriber turn that back into a current value                      *)
(* (shared-libs/crates/patch-db/core/src/subscriber.rs, store.rs).         *)
(*                                                                         *)
(* A revision is its number, and log[n] the set of pointers whose value    *)
(* revision n touches: the pointers for which Revision::for_path leaves a  *)
(* patch that is not empty.  The value at a pointer is then the set of     *)
(* revisions that made it; that patching a value with the scoped revisions *)
(* really gives the scoped value is what module JsonPatch checks.          *)
(*                                                                         *)
(* Everything Broadcast does happens under the store's write lock, so an   *)
(* operation on it is one step; the subscribers run on tasks of their own. *)
(***************************************************************************)
EXTENDS Integers, Sequences, FiniteSets, SequencesExt

CONSTANTS
    Pointer,        \* the JSON pointers subscribed to
    Touch,          \* the sets of pointers one revision may touch
    Watch,          \* DbWatch handles
    Json,           \* JsonSubscriber handles
    Capacity,       \* capacity of the JSON channels, a power of two
    Accept,         \* wait_for's predicate: the last revisions it accepts
    MaxRevision,    \* bound: revisions committed
    MaxSilent       \* bound: revisions committed without a broadcast

ASSUME TouchAssumption == Touch \subseteq SUBSET Pointer
ASSUME CapacityAssumption == Capacity \in Nat \ {0}
ASSUME FeedBoundAssumption == MaxRevision \in Nat /\ MaxSilent \in Nat

VARIABLES
    log,            \* the revisions: what each one touches
    listeners,      \* Broadcast.listeners
    watch,          \* the DbWatch values
    json,           \* the JsonSubscriber values
    silent,         \* ghost: revisions that were never broadcast
    shown           \* ghost: what the holder of a watch was last told of

vars == <<log, listeners, watch, json, silent, shown>>

revision == Len(log)

\* The revisions up to n that made the value at pointer p.
Made(p, n) == {i \in 1..n : p \in log[i]}
Value(p) == Made(p, revision)

NoDump == -1

\* ScopedBroadcast: the senders to watches (a sender outlives its receiver
\* until it is pruned), whether there is a JSON channel, and the revision of
\* the encoded dump kept for the next JSON subscriber.
Listener == [unbounded : SUBSET Watch, json : BOOLEAN, dump : Int]
NoListener == [unbounded |-> {}, json |-> FALSE, dump |-> NoDump]

\* A dropped watch has at = {}; otherwise at holds its pointer.
WatchState == [at : SUBSET Pointer, state : SUBSET Nat, queue : Seq(Nat),
               seen : BOOLEAN, waiting : BOOLEAN]
NoWatch == [at |-> {}, state |-> {}, queue |-> <<>>, seen |-> FALSE,
            waiting |-> FALSE]

\* A JSON subscriber: what its dump and the revisions received add up to,
\* the number of the last of them, and the unread part of its channel.
JsonState == [at : SUBSET Pointer, got : SUBSET Nat, id : Int,
              queue : Seq(Nat), lagged : BOOLEAN, open : BOOLEAN]
NoJson == [at |-> {}, got |-> {}, id |-> 0, queue |-> <<>>, lagged |-> FALSE,
           open |-> FALSE]

Init ==
    /\ log = <<>>
    /\ listeners = [p \in Pointer |-> NoListener]
    /\ watch = [w \in Watch |-> NoWatch]
    /\ json = [j \in Json |-> NoJson]
    /\ silent = {}
    /\ shown = [w \in Watch |-> {}]

(***************************************************************************)
(* Broadcast.                                                              *)
(***************************************************************************)
LiveWatch(p) == {w \in Watch : watch[w].at = {p}}
LiveJson(p) == {j \in Json : json[j].at = {p} /\ json[j].open}

\* prune_unbounded
Pruned(p) == listeners[p].unbounded \cap LiveWatch(p)

\* Mutant of Retained: the cached dump survives.
RetainedDump(touched, n) ==
    [p \in Pointer |-> [unbounded |-> Pruned(p), json |-> LiveJson(p) # {},
                        dump |-> listeners[p].dump]]

\* Broadcast::send, on the map itself: closed senders and channels without
\* receivers go, and with them an entry left empty; so does the cached dump,
\* whether the revision touches the pointer or not.
Retained(touched, n) ==
    [p \in Pointer |-> [unbounded |-> Pruned(p), json |-> LiveJson(p) # {},
                        dump |-> NoDump]]

\* A bounded broadcast channel drops the oldest unread revision of a receiver
\* that is Capacity behind, and tells that receiver so on its next recv.
Pushed(s, n) ==
    IF Len(s.queue) < Capacity
    THEN [s EXCEPT !.queue = Append(@, n)]
    ELSE [s EXCEPT !.queue = Append(Tail(@), n), !.lagged = TRUE]

\* Broadcast::send, to the receivers: a revision of which for_path leaves
\* nothing is not sent.
Send(touched, n) ==
    /\ listeners' = Retained(touched, n)
    /\ watch' = [w \in Watch |->
            IF \E p \in touched : w \in Pruned(p)
            THEN [watch[w] EXCEPT !.queue = Append(@, n)]
            ELSE watch[w]]
    /\ json' = [j \in Json |->
            IF \E p \in touched : j \in LiveJson(p) /\ listeners[p].json
            THEN Pushed(json[j], n)
            ELSE json[j]]

\* Store::apply succeeds: the revision counts and is sent.
Apply ==
    /\ revision < MaxRevision
    /\ \E touched \in Touch :
        /\ log' = Append(log, touched)
        /\ Send(touched, revision + 1)
    /\ UNCHANGED <<silent, shown>>

\* Store::apply fails in the compaction, after the new backup is in place:
\* the undo is disarmed, so document and revision stay, and the error returns
\* before the broadcast.
ApplyUnannounced ==
    /\ revision < MaxRevision
    /\ Cardinality(silent) < MaxSilent
    /\ \E touched \in Touch : log' = Append(log, touched)
    /\ silent' = silent \cup {revision + 1}
    /\ UNCHANGED <<listeners, watch, json, shown>>

\* Broadcast::subscribe: every entry is pruned, and dropped when that leaves
\* it empty, before the new sender is added.
Subscribed(w, p) ==
    [q \in Pointer |->
        LET left == [listeners[q] EXCEPT !.unbounded = Pruned(q)]
            kept == IF left.unbounded = {} /\ ~left.json
                    THEN NoListener ELSE left
        IN  [kept EXCEPT !.unbounded = @ \cup (IF q = p THEN {w} ELSE {})]]

\* Broadcast::subscribe_json: the dump encoded for the last subscriber is
\* shared if no revision has been sent since.
SubscribedJson(j, p) ==
    LET id == IF listeners[p].dump # NoDump THEN listeners[p].dump
              ELSE revision
    IN  /\ listeners' = [listeners EXCEPT ![p].json = TRUE, ![p].dump = id]
        /\ json' = [json EXCEPT ![j] =
                [NoJson EXCEPT !.at = {p}, !.got = Made(p, id), !.id = id,
                               !.open = TRUE]]

(***************************************************************************)
(* DbWatch.                                                                *)
(***************************************************************************)
\* Idle: the handle is held and no wait_for borrows it.
Idle(w) == watch[w].at # {} /\ ~watch[w].waiting

\* Mutant of Drained: only the first queued revision is applied.
DrainedOnce(w) ==
    watch[w].state \cup (IF watch[w].queue = <<>> THEN {}
                         ELSE {Head(watch[w].queue)})

\* What a watch holds once its queue is drained.
Drained(w) == watch[w].state \cup Range(watch[w].queue)

\* PatchDb::watch: dump and subscription under one lock, DbWatch::new.
NewWatch(w, p) ==
    /\ watch[w].at = {}
    /\ listeners' = Subscribed(w, p)
    /\ watch' = [watch EXCEPT ![w] =
            [NoWatch EXCEPT !.at = {p}, !.state = Value(p)]]
    /\ shown' = [shown EXCEPT ![w] = {}]
    /\ UNCHANGED <<log, json, silent>>

DropWatch(w) ==
    /\ Idle(w)
    /\ watch' = [watch EXCEPT ![w] = NoWatch]
    /\ shown' = [shown EXCEPT ![w] = {}]
    /\ UNCHANGED <<log, listeners, json, silent>>

\* Mutant of SyncWatch: seen is left as it was.
SyncKeepsSeen(w) ==
    watch' = [watch EXCEPT ![w] =
        [@ EXCEPT !.state = Drained(w), !.queue = <<>>]]

\* DbWatch::sync
SyncWatch(w) ==
    watch' = [watch EXCEPT ![w] =
        [@ EXCEPT !.state = Drained(w), !.queue = <<>>,
                  !.seen = watch[w].seen /\ watch[w].queue = <<>>]]

\* sync, or peek: the value may be looked at, but it stays unseen.
Sync(w) ==
    /\ Idle(w)
    /\ SyncWatch(w)
    /\ UNCHANGED <<log, listeners, json, silent, shown>>

\* The state after sync, with seen set: peek_and_mark_seen, and poll_changed
\* on a watch that was seen.
Seen(w, goesOn) ==
    /\ watch' = [watch EXCEPT ![w] =
            [@ EXCEPT !.state = Drained(w), !.queue = <<>>, !.seen = TRUE,
                      !.waiting = goesOn]]
    /\ shown' = [shown EXCEPT ![w] = Drained(w)]
    /\ UNCHANGED <<log, listeners, json, silent>>

PeekAndMarkSeen(w) == Idle(w) /\ Seen(w, FALSE)

\* DbWatch::poll_changed that is ready: an unseen value is announced as it
\* is, without looking at the queue; otherwise the queue must hold something.
PollChanged(w) ==
    /\ Idle(w)
    /\ \/ /\ ~watch[w].seen
          /\ watch' = [watch EXCEPT ![w].seen = TRUE]
          /\ shown' = [shown EXCEPT ![w] = watch[w].state]
          /\ UNCHANGED <<log, listeners, json, silent>>
       \/ /\ watch[w].seen /\ watch[w].queue # <<>>
          /\ Seen(w, FALSE)

\* wait_for's predicate, on the value.
Accepted(S) == S # {} /\ Max(S) \in Accept

\* TypedDbWatch::wait_for: the first round, and the round after each change.
WaitFor(w) == Idle(w) /\ Seen(w, ~Accepted(Drained(w)))

\* Mutant of WaitForAgain: a change is consumed but not looked at.
WaitForUnseen(w) ==
    /\ watch[w].waiting
    /\ ~watch[w].seen \/ watch[w].queue # <<>>
    /\ Seen(w, TRUE)

WaitForAgain(w) ==
    /\ watch[w].waiting
    /\ ~watch[w].seen \/ watch[w].queue # <<>>
    /\ Seen(w, ~Accepted(Drained(w)))

\* The future of a wait_for is dropped, by a select or a timeout.
CancelWait(w) ==
    /\ watch[w].waiting
    /\ watch' = [watch EXCEPT ![w].waiting = FALSE]
    /\ UNCHANGED <<log, listeners, json, silent, shown>>

(***************************************************************************)
(* JsonSubscriber.                                                         *)
(***************************************************************************)
NewJson(j, p) ==
    /\ ~json[j].open
    /\ SubscribedJson(j, p)
    /\ UNCHANGED <<log, watch, silent, shown>>

DropJson(j) ==
    /\ json[j].open
    /\ json' = [json EXCEPT ![j] = NoJson]
    /\ UNCHANGED <<log, listeners, watch, silent, shown>>

\* JsonSubscriber::recv: an overflow closes the subscription for good.
JsonRecv(j) ==
    /\ json[j].open
    /\ \/ /\ json[j].lagged
          /\ json' = [json EXCEPT ![j].open = FALSE]
       \/ /\ ~json[j].lagged /\ json[j].queue # <<>>
          /\ json' = [json EXCEPT ![j] =
                [@ EXCEPT !.got = json[j].got \cup {Head(json[j].queue)},
                          !.id = Head(json[j].queue),
                          !.queue = Tail(json[j].queue)]]
    /\ UNCHANGED <<log, listeners, watch, silent, shown>>

Next ==
    \/ Apply
    \/ ApplyUnannounced
    \/ \E w \in Watch :
        \/ \E p \in Pointer : NewWatch(w, p)
        \/ DropWatch(w)
        \/ Sync(w)
        \/ PeekAndMarkSeen(w)
        \/ PollChanged(w)
        \/ WaitFor(w)
        \/ WaitForAgain(w)
        \/ CancelWait(w)
    \/ \E j \in Json :
        \/ \E p \in Pointer : NewJson(j, p)
        \/ DropJson(j)
        \/ JsonRecv(j)

Spec == Init /\ [][Next]_vars

\* A task whose channel holds something is woken and polled.
Fairness == \A w \in Watch : WF_vars(WaitForAgain(w))

FairSpec == Spec /\ Fairness

(***************************************************************************)
(* Properties.                                                             *)
(***************************************************************************)

\* The type invariant; only revisions that were made can have gone unannounced.
TypeOK ==
    /\ log \in Seq(SUBSET Pointer)
    /\ listeners \in [Pointer -> Listener]
    /\ watch \in [Watch -> WatchState]
    /\ json \in [Json -> JsonState]
    /\ silent \subseteq 1..revision
    /\ shown \in [Watch -> SUBSET Nat]

\* Nothing is queued, cached or held but revisions that were made: no queue,
\* dump, watch or stream is ahead of the store (Broadcast::send, DbWatch,
\* JsonSubscriber).
OnlyMade ==
    /\ \A w \in Watch : watch[w].queue \in Seq(1..revision)
    /\ \A j \in Json : json[j].queue \in Seq(1..revision)
    /\ \A p \in Pointer :
        /\ listeners[p].dump \in {NoDump} \cup 0..revision
        /\ \A w \in Watch : watch[w].at = {p} => watch[w].state \subseteq 1..revision
        /\ \A j \in Json : json[j].at = {p} =>
                json[j].id \in 0..revision /\ json[j].got \subseteq 1..revision

Increasing(q) == \A i, k \in 1..Len(q) : i < k => q[i] < q[k]

Held(w) == watch[w].state \cup Range(watch[w].queue)

\* What a watch holds and has queued is the value at its pointer, short of
\* revisions that were never broadcast, and it is queued in order behind what
\* is already applied: patches are applied each once and in sequence.
WatchFollows ==
    \A w \in Watch, p \in Pointer : watch[w].at = {p} =>
        /\ Held(w) \subseteq Value(p)
        /\ Value(p) \ Held(w) \subseteq silent
        /\ Increasing(watch[w].queue)
        /\ \A i \in watch[w].state, k \in Range(watch[w].queue) : i < k

\* A watch on which changed() would block has told its holder of the current
\* value: no order of sync, peek, changed, wait_for and cancellation loses a
\* wake-up.
NoLostWakeup ==
    \A w \in Watch, p \in Pointer :
        (watch[w].at = {p} /\ watch[w].seen /\ watch[w].queue = <<>>) =>
            Value(p) \ shown[w] \subseteq silent

\* A JSON subscriber has received, at every moment, exactly what the value
\* consisted of at the last revision it saw: an overflow closes the stream
\* and is never skipped over.
JsonGapless ==
    \A j \in Json, p \in Pointer : json[j].at = {p} =>
        /\ json[j].got \subseteq Made(p, json[j].id)
        /\ Made(p, json[j].id) \ json[j].got \subseteq silent

\* A JSON stream that has not overflowed still has everything: the dump it
\* started from, shared with other subscribers or not, was current then.
JsonFollows ==
    \A j \in Json, p \in Pointer :
        (json[j].at = {p} /\ json[j].open /\ ~json[j].lagged) =>
            Value(p) \ (json[j].got \cup Range(json[j].queue)) \subseteq silent

\* A wait_for whose predicate holds of the current value returns, unless the
\* value changes again, the wait is cancelled or a revision went unannounced.
WaitReturns ==
    \A w \in Watch, p \in Pointer :
        (watch[w].at = {p} /\ watch[w].waiting /\ Accepted(Value(p)))
            ~> (~watch[w].waiting \/ ~Accepted(Value(p)) \/ silent # {})
=============================================================================
