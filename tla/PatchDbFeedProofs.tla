-------------------------- MODULE PatchDbFeedProofs --------------------------
(***************************************************************************)
(* Proofs about PatchDbFeed, for any pointers, revisions and number of     *)
(* subscribers, and any capacity of the JSON channels.                     *)
(***************************************************************************)
EXTENDS PatchDbFeed, TLAPS

USE TouchAssumption, CapacityAssumption, FeedBoundAssumption

(***************************************************************************)
(* Queues.                                                                 *)
(***************************************************************************)
\* What a queue holds after a push.
LEMMA RangeAppend ==
    ASSUME NEW S, NEW q \in Seq(S), NEW e \in S
    PROVE  Append(q, e) \in Seq(S) /\ Range(Append(q, e)) = Range(q) \cup {e}
  <1>1. /\ Append(q, e) \in Seq(S) /\ Len(q) \in Nat
        /\ DOMAIN q = 1..Len(q)
        /\ DOMAIN Append(q, e) = 1..(Len(q) + 1)
        /\ \A i \in 1..Len(q) : Append(q, e)[i] = q[i]
        /\ Append(q, e)[Len(q) + 1] = e
    OBVIOUS
  <1> DEFINE a == Append(q, e)
  <1> HIDE DEF a
  <1>2. \A x : x \in Range(a) <=> \E i \in 1..(Len(q) + 1) : x = a[i]
    BY <1>1 DEF Range, a
  <1>3. \A x : x \in Range(q) <=> \E i \in 1..Len(q) : x = q[i]
    BY <1>1 DEF Range
  <1>4. ASSUME NEW x PROVE x \in Range(a) <=> x \in Range(q) \/ x = e
    BY <1>1, <1>2, <1>3 DEF a
  <1> QED
    BY <1>1, <1>4 DEF a

\* What a queue holds before and after its first element is taken.
LEMMA RangeTail ==
    ASSUME NEW S, NEW q \in Seq(S), q # <<>>
    PROVE  /\ Tail(q) \in Seq(S) /\ Head(q) = q[1] /\ q[1] \in S
           /\ Len(q) \in Nat \ {0} /\ Len(Tail(q)) = Len(q) - 1
           /\ \A i \in 1..Len(Tail(q)) : Tail(q)[i] = q[i + 1]
           /\ Range(q) = {q[1]} \cup Range(Tail(q))
  <1>1. /\ Tail(q) \in Seq(S) /\ Head(q) = q[1] /\ q[1] \in S
        /\ Len(q) \in Nat \ {0} /\ Len(Tail(q)) = Len(q) - 1
        /\ DOMAIN q = 1..Len(q) /\ DOMAIN Tail(q) = 1..(Len(q) - 1)
        /\ \A i \in 1..Len(Tail(q)) : Tail(q)[i] = q[i + 1]
    OBVIOUS
  <1> DEFINE t == Tail(q)
  <1> HIDE DEF t
  <1>2. \A x : x \in Range(t) <=> \E i \in 1..(Len(q) - 1) : x = q[i + 1]
    BY <1>1 DEF Range, t
  <1>3. \A x : x \in Range(q) <=> \E i \in 1..Len(q) : x = q[i]
    BY <1>1 DEF Range
  <1>4. ASSUME NEW x PROVE x \in Range(q) <=> x = q[1] \/ x \in Range(t)
    <2>1. CASE x \in Range(q)
      <3> PICK i \in 1..Len(q) : x = q[i]
        BY <1>3, <2>1
      <3>1. i = 1 \/ i - 1 \in 1..(Len(q) - 1)
        BY <1>1
      <3>2. i - 1 \in 1..(Len(q) - 1) => x = q[(i - 1) + 1]
        BY <1>1
      <3> QED
        BY <1>2, <2>1, <3>1, <3>2
    <2>2. CASE x = q[1] \/ x \in Range(t)
      BY <1>1, <1>2, <1>3, <2>2
    <2> QED
      BY <2>1, <2>2
  <1> QED
    BY <1>1, <1>4 DEF t

\* An empty queue holds nothing, and a queue only what it may hold.
LEMMA RangeFacts ==
    /\ Range(<<>>) = {}
    /\ \A S : \A q \in Seq(S) : Range(q) \subseteq S
  BY DEF Range

\* A queue over a set is one over any larger set.
LEMMA SeqMono ==
    ASSUME NEW S, NEW T, S \subseteq T, NEW q \in Seq(S)
    PROVE  q \in Seq(T)
  OBVIOUS

(***************************************************************************)
(* A value that is followed: what was applied, S, and a queue q add up to  *)
(* the value V, short of unannounced revisions X, in order.                *)
(***************************************************************************)
Follows(S, q, V, X) ==
    /\ S \cup Range(q) \subseteq V
    /\ V \ (S \cup Range(q)) \subseteq X
    /\ Increasing(q)
    /\ \A i \in S, k \in Range(q) : i < k

\* A revision that is sent goes to the end of the queue.
LEMMA FollowsPush ==
    ASSUME NEW n \in Nat, NEW V \in SUBSET (1..n), NEW S, NEW X,
           NEW q \in Seq(1..n), Follows(S, q, V, X)
    PROVE  Follows(S, Append(q, n + 1), V \cup {n + 1}, X)
  <1> DEFINE a == Append(q, n + 1)
  <1>1. q \in Seq(1..(n + 1))
    BY SeqMono
  <1>2. Range(a) = Range(q) \cup {n + 1}
    BY <1>1, RangeAppend
  <1>3. Range(q) \subseteq 1..n /\ S \subseteq 1..n
    BY RangeFacts DEF Follows
  <1>4. /\ Len(q) \in Nat /\ Len(a) = Len(q) + 1
        /\ \A i \in 1..Len(q) : a[i] = q[i] /\ q[i] \in 1..n
        /\ a[Len(q) + 1] = n + 1
    OBVIOUS
  <1> HIDE DEF a
  <1>5. Increasing(a)
    <2> SUFFICES ASSUME NEW i \in 1..Len(a), NEW k \in 1..Len(a), i < k
                 PROVE  a[i] < a[k]
      BY DEF Increasing
    <2>1. i \in 1..Len(q)
      BY <1>4
    <2>2. CASE k = Len(q) + 1
      BY <1>4, <2>1, <2>2
    <2>3. CASE k # Len(q) + 1
      <3>1. k \in 1..Len(q)
        BY <1>4, <2>3
      <3> QED
        BY <1>4, <2>1, <3>1 DEF Follows, Increasing
    <2> QED
      BY <2>2, <2>3
  <1>6. \A i \in S, k \in Range(a) : i < k
    BY <1>2, <1>3 DEF Follows
  <1> QED
    BY <1>2, <1>5, <1>6 DEF Follows, a

\* A revision that is not sent is missing.
LEMMA FollowsMissing ==
    ASSUME NEW n, NEW V, NEW S, NEW X, NEW q, Follows(S, q, V, X)
    PROVE  /\ Follows(S, q, V \cup {n}, X \cup {n})
           /\ Follows(S, q, V, X \cup {n})
  BY DEF Follows

\* The queue is drained.
LEMMA FollowsDrain ==
    ASSUME NEW V, NEW S, NEW X, NEW q, Follows(S, q, V, X)
    PROVE  Follows(S \cup Range(q), <<>>, V, X)
  <1>1. Range(<<>>) = {} /\ Increasing(<<>>)
    BY RangeFacts DEF Increasing
  <1> QED
    BY <1>1 DEF Follows

\* The first revision of the queue is applied; all up to it are then there.
LEMMA FollowsFirst ==
    ASSUME NEW n \in Nat, NEW V \in SUBSET (1..n), NEW S, NEW X,
           NEW q \in Seq(1..n), Follows(S, q, V, X), q # <<>>
    PROVE  /\ Follows(S \cup {Head(q)}, Tail(q), V, X)
           /\ \A v \in S \cup {Head(q)} : v <= Head(q)
           /\ \A k \in Range(Tail(q)) : k > Head(q)
  <1> DEFINE t == Tail(q)
             h == q[1]
  <1>1. /\ t \in Seq(1..n) /\ Head(q) = h /\ h \in 1..n
        /\ Len(q) \in Nat \ {0} /\ Len(t) = Len(q) - 1
        /\ \A i \in 1..Len(t) : t[i] = q[i + 1]
        /\ Range(q) = {h} \cup Range(t)
    BY RangeTail
  <1>2. Range(q) \subseteq 1..n /\ S \subseteq 1..n
    BY RangeFacts DEF Follows
  <1>3. \A i \in 1..Len(t) : i + 1 \in 1..Len(q) /\ 1 < i + 1
    BY <1>1
  <1>4. 1 \in 1..Len(q) /\ Increasing(q)
    BY <1>1 DEF Follows
  <1>5. \A x \in Range(t) : \E i \in 1..Len(t) : x = t[i]
    BY <1>1 DEF Range
  <1> HIDE DEF t, h
  <1>6. \A i \in 1..Len(t) : t[i] > h
    BY <1>1, <1>3, <1>4 DEF Increasing, h
  <1>7. \A k \in Range(t) : k > h
    BY <1>5, <1>6
  <1>8. Increasing(t)
    <2> SUFFICES ASSUME NEW i \in 1..Len(t), NEW k \in 1..Len(t), i < k
                 PROVE  t[i] < t[k]
      BY DEF Increasing
    <2>1. i + 1 < k + 1
      OBVIOUS
    <2> QED
      BY <1>1, <1>3, <1>4, <2>1 DEF Increasing
  <1>9. Follows(S \cup {h}, t, V, X)
    BY <1>1, <1>7, <1>8 DEF Follows
  <1>10. ASSUME NEW v \in S \cup {h} PROVE v <= h
    <2>1. CASE v = h
      BY <1>1, <2>1
    <2>2. CASE v \in S
      <3>1. v < h
        BY <1>1, <2>2 DEF Follows
      <3>2. v \in Int /\ h \in Int
        BY <1>1, <1>2, <2>2
      <3> QED
        BY <3>1, <3>2
    <2> QED
      BY <2>1, <2>2
  <1> QED
    BY <1>1, <1>7, <1>9, <1>10 DEF t

\* What is not there when the first revision of the queue has been applied was
\* never announced.
LEMMA FollowsUpTo ==
    ASSUME NEW n \in Nat, NEW V \in SUBSET (1..n), NEW S, NEW X,
           NEW q \in Seq(1..n), Follows(S, q, V, X), q # <<>>,
           NEW v \in V, v <= Head(q), v \notin S, v # Head(q)
    PROVE  v \in X
  <1>1. v \in 1..n /\ (v \in S \/ v \in Range(q) \/ v \in X)
    BY DEF Follows
  <1>2. Range(q) = {q[1]} \cup Range(Tail(q)) /\ Head(q) = q[1] /\ q[1] \in 1..n
    BY RangeTail
  <1>3. \A k \in Range(Tail(q)) : k > Head(q)
    BY FollowsFirst
  <1>4. v \notin Range(Tail(q))
    BY <1>1, <1>2, <1>3
  <1> QED
    BY <1>1, <1>2, <1>4

(***************************************************************************)
(* The invariant.                                                          *)
(***************************************************************************)
\* What is queued has been committed.
Queues ==
    /\ \A w \in Watch : watch[w].queue \in Seq(1..revision)
    /\ \A j \in Json : json[j].queue \in Seq(1..revision)

\* A watch is registered, follows its value, and has told of what it holds if
\* it is marked seen.
WatchOk(w) ==
    \A p \in Pointer : watch[w].at = {p} =>
        /\ w \in listeners[p].unbounded
        /\ Follows(watch[w].state, watch[w].queue, Value(p), silent)
        /\ watch[w].seen => shown[w] = watch[w].state

\* A JSON subscriber has all up to its revision; it is registered while it is
\* open, and follows its value until it overflows.
JsonOk(j) ==
    \A p \in Pointer : json[j].at = {p} =>
        /\ json[j].id \in 0..revision
        /\ json[j].got \subseteq Made(p, json[j].id)
        /\ Made(p, json[j].id) \ json[j].got \subseteq silent
        /\ json[j].open => listeners[p].json
        /\ json[j].open /\ ~json[j].lagged =>
                Follows(json[j].got, json[j].queue, Value(p), silent)

\* A cached dump lacks nothing that was announced.
DumpOk(p) ==
    listeners[p].dump # NoDump =>
        /\ listeners[p].dump \in 0..revision
        /\ Value(p) \ Made(p, listeners[p].dump) \subseteq silent

IInv ==
    /\ TypeOK /\ Queues
    /\ \A w \in Watch : WatchOk(w)
    /\ \A j \in Json : JsonOk(j)
    /\ \A p \in Pointer : DumpOk(p)

\* There is nobody at the start.
LEMMA InitInv == Init => IInv
  <1> SUFFICES ASSUME Init PROVE IInv
    OBVIOUS
  <1>1. TypeOK
    <2>1. NoListener \in Listener
      BY DEF NoListener, Listener, NoDump
    <2>2. NoWatch \in WatchState
      BY DEF NoWatch, WatchState
    <2>3. NoJson \in JsonState
      BY DEF NoJson, JsonState
    <2> QED
      BY <2>1, <2>2, <2>3 DEF Init, TypeOK
  <1>2. Queues
    <2>1. <<>> \in Seq(1..revision)
      OBVIOUS
    <2> QED
      BY <2>1 DEF Init, Queues, NoWatch, NoJson
  <1>3. \A p \in Pointer : {} # {p}
    OBVIOUS
  <1>4. (\A w \in Watch : WatchOk(w)) /\ (\A j \in Json : JsonOk(j))
    BY <1>3 DEF Init, WatchOk, JsonOk, NoWatch, NoJson
  <1>5. \A p \in Pointer : DumpOk(p)
    BY DEF Init, DumpOk, NoListener
  <1> QED
    BY <1>1, <1>2, <1>4, <1>5 DEF IInv

\* What is in the type invariant about values.
LEMMA Typed ==
    ASSUME TypeOK
    PROVE  /\ revision \in Nat
           /\ \A p \in Pointer : Value(p) \in SUBSET (1..revision)
           /\ \A w \in Watch : watch[w] \in WatchState
           /\ \A j \in Json : json[j] \in JsonState
           /\ \A p \in Pointer : listeners[p] \in Listener
           /\ silent \in SUBSET (1..revision)
  BY DEF TypeOK, revision, Value, Made

\* A step that changes one watch.
LEMMA WatchStep ==
    ASSUME IInv, NEW w \in Watch, NEW new \in WatchState, NEW told \in SUBSET Nat,
           UNCHANGED <<log, json, silent>>,
           watch' = [watch EXCEPT ![w] = new],
           shown' = [shown EXCEPT ![w] = told],
           listeners' \in [Pointer -> Listener],
           \A p \in Pointer :
              /\ \A v \in Watch \ {w} :
                    watch[v].at = {p} /\ v \in listeners[p].unbounded
                        => v \in listeners'[p].unbounded
              /\ listeners'[p].json = listeners[p].json
              /\ listeners'[p].dump \in {NoDump, listeners[p].dump},
           new.queue \in Seq(1..revision),
           \A p \in Pointer : new.at = {p} =>
              /\ w \in listeners'[p].unbounded
              /\ Follows(new.state, new.queue, Value(p), silent)
              /\ new.seen => told = new.state
    PROVE  IInv'
  <1> USE DEF IInv
  <1>1. /\ revision' = revision /\ \A p \in Pointer : Value(p)' = Value(p)
        /\ \A p, n : Made(p, n)' = Made(p, n)
    BY DEF revision, Value, Made
  <1>2. /\ watch'[w] = new /\ shown'[w] = told
        /\ \A v \in Watch \ {w} : watch'[v] = watch[v] /\ shown'[v] = shown[v]
    BY DEF TypeOK
  <1>3. TypeOK'
    BY <1>1 DEF TypeOK
  <1>4. Queues'
    BY <1>1, <1>2 DEF Queues
  <1>5. ASSUME NEW v \in Watch PROVE WatchOk(v)'
    <2>1. CASE v = w
      BY <1>1, <1>2, <2>1 DEF WatchOk
    <2>2. CASE v # w
      <3>1. WatchOk(v) /\ watch'[v] = watch[v] /\ shown'[v] = shown[v]
        BY <1>2, <2>2
      <3> QED
        BY <1>1, <2>2, <3>1 DEF WatchOk
    <2> QED
      BY <2>1, <2>2
  <1>6. ASSUME NEW j \in Json PROVE JsonOk(j)'
    <2>1. JsonOk(j)
      OBVIOUS
    <2> QED
      BY <1>1, <2>1 DEF JsonOk
  <1>7. ASSUME NEW p \in Pointer PROVE DumpOk(p)'
    <2>1. DumpOk(p)
      OBVIOUS
    <2> QED
      BY <1>1, <2>1 DEF DumpOk
  <1> QED
    BY <1>3, <1>4, <1>5, <1>6, <1>7

\* A step that changes one JSON subscriber.
LEMMA JsonStep ==
    ASSUME IInv, NEW j \in Json, NEW new \in JsonState,
           UNCHANGED <<log, watch, silent, shown>>,
           json' = [json EXCEPT ![j] = new],
           listeners' \in [Pointer -> Listener],
           \A p \in Pointer :
              /\ listeners'[p].unbounded = listeners[p].unbounded
              /\ listeners[p].json => listeners'[p].json
              /\ listeners'[p].dump # NoDump =>
                    /\ listeners'[p].dump \in 0..revision
                    /\ Value(p) \ Made(p, listeners'[p].dump) \subseteq silent,
           new.queue \in Seq(1..revision),
           \A p \in Pointer : new.at = {p} =>
              /\ new.id \in 0..revision
              /\ new.got \subseteq Made(p, new.id)
              /\ Made(p, new.id) \ new.got \subseteq silent
              /\ new.open => listeners'[p].json
              /\ new.open /\ ~new.lagged =>
                    Follows(new.got, new.queue, Value(p), silent)
    PROVE  IInv'
  <1> USE DEF IInv
  <1>1. /\ revision' = revision /\ \A p \in Pointer : Value(p)' = Value(p)
        /\ \A p, n : Made(p, n)' = Made(p, n)
    BY DEF revision, Value, Made
  <1>2. json'[j] = new /\ \A i \in Json \ {j} : json'[i] = json[i]
    BY DEF TypeOK
  <1>3. TypeOK'
    BY <1>1 DEF TypeOK
  <1>4. Queues'
    BY <1>1, <1>2 DEF Queues
  <1>5. ASSUME NEW w \in Watch PROVE WatchOk(w)'
    <2>1. WatchOk(w)
      OBVIOUS
    <2> QED
      BY <1>1, <2>1 DEF WatchOk
  <1>6. ASSUME NEW i \in Json PROVE JsonOk(i)'
    <2>1. CASE i = j
      BY <1>1, <1>2, <2>1 DEF JsonOk
    <2>2. CASE i # j
      <3>1. JsonOk(i) /\ json'[i] = json[i]
        BY <1>2, <2>2
      <3> QED
        BY <1>1, <2>2, <3>1 DEF JsonOk
    <2> QED
      BY <2>1, <2>2
  <1>7. ASSUME NEW p \in Pointer PROVE DumpOk(p)'
    BY <1>1 DEF DumpOk
  <1> QED
    BY <1>3, <1>4, <1>5, <1>6, <1>7

\* What a revision does to the values.
LEMMA LogStep ==
    ASSUME TypeOK, NEW touched \in Touch, log' = Append(log, touched)
    PROVE  /\ revision' = revision + 1 /\ log' \in Seq(SUBSET Pointer)
           /\ 1..revision \subseteq 1..revision'
           /\ \A p \in Pointer, n \in 0..revision : Made(p, n)' = Made(p, n)
           /\ \A p \in touched : Value(p)' = Value(p) \cup {revision + 1}
           /\ \A p \in Pointer \ touched : Value(p)' = Value(p)
  <1>1. log \in Seq(SUBSET Pointer) /\ touched \in SUBSET Pointer
    BY DEF TypeOK
  <1>2. /\ log' \in Seq(SUBSET Pointer) /\ Len(log) \in Nat
        /\ Len(log') = Len(log) + 1
        /\ \A i \in 1..Len(log) : log'[i] = log[i]
        /\ log'[Len(log) + 1] = touched
    BY <1>1
  <1>3. revision \in Nat /\ revision' = revision + 1 /\ revision = Len(log)
    BY <1>2 DEF revision
  <1>4. \A p \in Pointer, n \in 0..revision : Made(p, n)' = Made(p, n)
    BY <1>2, <1>3 DEF Made
  <1>5. \A i \in 1..(revision + 1) : i \in 1..revision \/ i = revision + 1
    BY <1>3
  <1>6. ASSUME NEW p \in Pointer, NEW i
        PROVE  i \in Value(p)' <=> i \in Value(p) \/ (i = revision + 1 /\ p \in touched)
    BY <1>2, <1>3, <1>5 DEF Value, Made
  <1>7. \A p \in touched : p \in Pointer
    BY <1>1
  <1>8. ASSUME NEW p \in touched PROVE Value(p)' = Value(p) \cup {revision + 1}
    BY <1>6, <1>7
  <1>9. ASSUME NEW p \in Pointer \ touched PROVE Value(p)' = Value(p)
    BY <1>6
  <1> QED
    BY <1>2, <1>3, <1>4, <1>8, <1>9

\* A revision that is announced.
LEMMA ApplyStep ==
    ASSUME IInv, Apply
    PROVE  IInv'
  <1> PICK touched \in Touch : /\ log' = Append(log, touched)
                               /\ Send(touched, revision + 1)
                               /\ UNCHANGED <<silent, shown>>
    BY DEF Apply
  <1> DEFINE n == revision
  <1>1. /\ n \in Nat /\ n' = n + 1 /\ log' \in Seq(SUBSET Pointer)
        /\ 1..n \subseteq 1..n' /\ n + 1 \in 1..n'
        /\ \A p \in Pointer, k \in 0..n : Made(p, k)' = Made(p, k)
        /\ \A p \in touched : p \in Pointer /\ Value(p)' = Value(p) \cup {n + 1}
        /\ \A p \in Pointer \ touched : Value(p)' = Value(p)
        /\ \A p \in Pointer : Value(p) \in SUBSET (1..n)
    BY LogStep, Typed DEF IInv
  <1>2. /\ \A w \in Watch : watch[w] \in WatchState /\ watch[w].queue \in Seq(1..n')
        /\ \A w \in Watch : watch[w].queue \in Seq(1..n)
        /\ \A j \in Json : json[j] \in JsonState /\ json[j].queue \in Seq(1..n')
        /\ \A j \in Json : json[j].queue \in Seq(1..n)
    BY <1>1, Typed, SeqMono DEF IInv, Queues
  <1> HIDE DEF n
  <1>3. /\ listeners' = Retained(touched, n + 1)
        /\ \A w \in Watch : watch'[w] = IF \E p \in touched : w \in Pruned(p)
                                        THEN [watch[w] EXCEPT !.queue = Append(@, n + 1)]
                                        ELSE watch[w]
        /\ DOMAIN watch' = Watch /\ DOMAIN json' = Json
        /\ \A j \in Json : json'[j] = IF \E p \in touched : j \in LiveJson(p)
                                                             /\ listeners[p].json
                                      THEN Pushed(json[j], n + 1)
                                      ELSE json[j]
        /\ watch' = [w \in Watch |-> watch'[w]]
        /\ json' = [j \in Json |-> json'[j]]
    BY DEF Send, n
  <1>4. ASSUME NEW w \in Watch, NEW q \in Seq(1..n'), q = Append(watch[w].queue, n + 1)
        PROVE  [watch[w] EXCEPT !.queue = Append(@, n + 1)] \in WatchState
    <2>1. q \in Seq(Nat)
      BY <1>1, <1>4, SeqMono
    <2> QED
      BY <1>2, <1>4, <2>1 DEF WatchState
  <1>5. \A w \in Watch : Append(watch[w].queue, n + 1) \in Seq(1..n')
    BY <1>1, <1>2
  <1>6. \A w \in Watch : watch'[w] \in WatchState /\ watch'[w].queue \in Seq(1..n')
    <2> SUFFICES ASSUME NEW w \in Watch
                 PROVE  watch'[w] \in WatchState /\ watch'[w].queue \in Seq(1..n')
      OBVIOUS
    <2>1. CASE watch'[w] = watch[w]
      BY <1>2, <2>1
    <2>2. CASE watch'[w] = [watch[w] EXCEPT !.queue = Append(@, n + 1)]
      <3>1. watch'[w].queue = Append(watch[w].queue, n + 1)
        BY <1>2, <2>2 DEF WatchState
      <3> QED
        BY <1>4, <1>5, <2>2, <3>1
    <2> QED
      BY <1>3, <2>1, <2>2
  <1>7. ASSUME NEW j \in Json
        PROVE  /\ Pushed(json[j], n + 1) \in JsonState
               /\ Pushed(json[j], n + 1).queue \in Seq(1..n')
               /\ Pushed(json[j], n + 1).at = json[j].at
               /\ Pushed(json[j], n + 1).got = json[j].got
               /\ Pushed(json[j], n + 1).id = json[j].id
               /\ Pushed(json[j], n + 1).open = json[j].open
               /\ ~Pushed(json[j], n + 1).lagged =>
                     /\ ~json[j].lagged
                     /\ Pushed(json[j], n + 1).queue = Append(json[j].queue, n + 1)
    <2>1. CASE Len(json[j].queue) < Capacity
      <3>1. Append(json[j].queue, n + 1) \in Seq(1..n')
        BY <1>1, <1>2
      <3>2. Append(json[j].queue, n + 1) \in Seq(Nat)
        BY <1>1, <3>1, SeqMono
      <3> QED
        BY <1>2, <2>1, <3>1, <3>2 DEF Pushed, JsonState
    <2>2. CASE ~(Len(json[j].queue) < Capacity)
      <3>1. json[j].queue # <<>>
        BY <1>2, <2>2
      <3>t. Tail(json[j].queue) \in Seq(1..n')
        BY <1>2, <3>1, RangeTail
      <3>2. Append(Tail(json[j].queue), n + 1) \in Seq(1..n')
        BY <1>1, <3>t, RangeAppend
      <3>3. Append(Tail(json[j].queue), n + 1) \in Seq(Nat)
        <4>1. 1..n' \subseteq Nat
          BY <1>1
        <4> QED
          BY <3>2, <4>1, SeqMono
      <3> QED
        BY <1>2, <2>2, <3>2, <3>3 DEF Pushed, JsonState
    <2> QED
      BY <2>1, <2>2
  <1>8. \A j \in Json : json'[j] \in JsonState /\ json'[j].queue \in Seq(1..n')
    BY <1>2, <1>3, <1>7
  <1>9. /\ listeners' \in [Pointer -> Listener]
        /\ \A p \in Pointer : /\ listeners'[p].unbounded = Pruned(p)
                               /\ listeners'[p].json = (LiveJson(p) # {})
                               /\ listeners'[p].dump = NoDump
    <2>1. \A p \in Pointer : Pruned(p) \in SUBSET Watch /\ NoDump \in Int
      BY DEF Pruned, LiveWatch, NoDump
    <2> QED
      BY <1>3, <2>1 DEF Retained, Listener
  <1>10. TypeOK' /\ Queues'
    <2>1. watch' \in [Watch -> WatchState] /\ json' \in [Json -> JsonState]
      BY <1>3, <1>6, <1>8
    <2>2. silent' \subseteq 1..revision' /\ shown' \in [Watch -> SUBSET Nat]
      BY <1>1 DEF IInv, TypeOK, n
    <2> QED
      BY <1>1, <1>6, <1>8, <1>9, <2>1, <2>2 DEF TypeOK, Queues, n
  <1>11. ASSUME NEW w \in Watch PROVE WatchOk(w)'
    <2> SUFFICES ASSUME NEW p \in Pointer, watch'[w].at = {p}
                 PROVE  /\ w \in listeners'[p].unbounded
                        /\ Follows(watch'[w].state, watch'[w].queue, Value(p)', silent)
                        /\ watch'[w].seen => shown[w] = watch'[w].state
      BY DEF WatchOk, Follows, Increasing
    <2>1. /\ watch[w].at = {p} /\ watch'[w].state = watch[w].state
          /\ watch'[w].seen = watch[w].seen
      BY <1>2, <1>3 DEF WatchState
    <2>2. /\ w \in listeners[p].unbounded
          /\ Follows(watch[w].state, watch[w].queue, Value(p), silent)
          /\ watch[w].seen => shown[w] = watch[w].state
      BY <2>1 DEF IInv, WatchOk
    <2>3. w \in Pruned(p) /\ \A r \in touched : w \in Pruned(r) => r = p
      BY <2>1, <2>2 DEF Pruned, LiveWatch
    <2>4. CASE p \in touched
      <3>1. watch'[w].queue = Append(watch[w].queue, n + 1)
        BY <1>2, <1>3, <2>3, <2>4 DEF WatchState
      <3>2. Follows(watch[w].state, Append(watch[w].queue, n + 1),
                    Value(p) \cup {n + 1}, silent)
        BY <1>1, <1>2, <2>2, FollowsPush
      <3> QED
        BY <1>1, <1>9, <2>1, <2>2, <2>3, <2>4, <3>1, <3>2
    <2>5. CASE p \notin touched
      <3>1. watch'[w] = watch[w]
        BY <1>3, <2>3, <2>5
      <3> QED
        BY <1>1, <1>9, <2>1, <2>2, <2>3, <2>5, <3>1
    <2> QED
      BY <2>4, <2>5
  <1>12. ASSUME NEW j \in Json PROVE JsonOk(j)'
    <2> SUFFICES ASSUME NEW p \in Pointer, json'[j].at = {p}
                 PROVE  /\ json'[j].id \in 0..n'
                        /\ json'[j].got \subseteq Made(p, json[j].id)'
                        /\ Made(p, json[j].id)' \ json'[j].got \subseteq silent
                        /\ json'[j].id = json[j].id
                        /\ json'[j].open => listeners'[p].json
                        /\ json'[j].open /\ ~json'[j].lagged =>
                             Follows(json'[j].got, json'[j].queue, Value(p)', silent)
      BY DEF JsonOk, Follows, Increasing, Made, n
    <2>1. /\ json[j].at = {p} /\ json'[j].id = json[j].id
          /\ json'[j].got = json[j].got /\ json'[j].open = json[j].open
      BY <1>3, <1>7
    <2>2. /\ json[j].id \in 0..n
          /\ json[j].got \subseteq Made(p, json[j].id)
          /\ Made(p, json[j].id) \ json[j].got \subseteq silent
          /\ json[j].open => listeners[p].json
          /\ json[j].open /\ ~json[j].lagged =>
                Follows(json[j].got, json[j].queue, Value(p), silent)
      BY <2>1 DEF IInv, JsonOk, n
    <2>3. Made(p, json[j].id)' = Made(p, json[j].id) /\ json[j].id \in 0..n'
      <3>1. \A k \in 0..n : Made(p, k)' = Made(p, k) /\ k \in 0..n'
        BY <1>1
      <3> QED
        BY <2>1, <2>2, <3>1
    <2>4. json[j].open => j \in LiveJson(p)
      BY <2>1 DEF LiveJson
    <2>5. ASSUME json'[j].open, ~json'[j].lagged
          PROVE  Follows(json'[j].got, json'[j].queue, Value(p)', silent)
      <3>1. \A r \in touched : j \in LiveJson(r) => r = p
        BY <2>1 DEF LiveJson
      <3>2. CASE p \in touched
        <4>1. json'[j] = Pushed(json[j], n + 1)
          BY <1>3, <2>1, <2>2, <2>4, <2>5, <3>2
        <4>2. ~json[j].lagged /\ json'[j].queue = Append(json[j].queue, n + 1)
          BY <1>7, <2>5, <4>1
        <4>3. Follows(json[j].got, Append(json[j].queue, n + 1),
                      Value(p) \cup {n + 1}, silent)
          BY <1>1, <1>2, <2>1, <2>2, <2>5, <4>2, FollowsPush
        <4> QED
          BY <1>1, <2>1, <3>2, <4>2, <4>3
      <3>3. CASE p \notin touched
        <4>1. json'[j] = json[j]
          BY <1>3, <3>1, <3>3
        <4> QED
          BY <1>1, <2>2, <2>5, <3>3, <4>1
      <3> QED
        BY <3>2, <3>3
    <2> QED
      BY <1>9, <2>1, <2>2, <2>3, <2>4, <2>5
  <1>13. \A p \in Pointer : DumpOk(p)'
    BY <1>9 DEF DumpOk
  <1> QED
    BY <1>10, <1>11, <1>12, <1>13 DEF IInv

\* A revision that is committed and never announced.
LEMMA ApplyUnannouncedStep ==
    ASSUME IInv, ApplyUnannounced
    PROVE  IInv'
  <1> PICK touched \in Touch : log' = Append(log, touched)
    BY DEF ApplyUnannounced
  <1> DEFINE n == revision
  <1>1. silent' = silent \cup {n + 1} /\ UNCHANGED <<listeners, watch, json, shown>>
    BY DEF ApplyUnannounced
  <1>2. /\ n \in Nat /\ n' = n + 1 /\ log' \in Seq(SUBSET Pointer)
        /\ 1..n \subseteq 1..n' /\ n + 1 \in 1..n' /\ 0..n \subseteq 0..n'
        /\ \A p \in Pointer, k \in 0..n : Made(p, k)' = Made(p, k)
        /\ \A p \in touched : Value(p)' = Value(p) \cup {n + 1}
        /\ \A p \in Pointer \ touched : Value(p)' = Value(p)
    BY LogStep, Typed DEF IInv
  <1> HIDE DEF n
  <1>3. TypeOK'
    BY <1>1, <1>2 DEF IInv, TypeOK, n
  <1>4. Queues'
    BY <1>1, <1>2, SeqMono DEF IInv, Queues, n
  <1>5. ASSUME NEW p \in Pointer, NEW S, NEW q, Follows(S, q, Value(p), silent)
        PROVE  Follows(S, q, Value(p)', silent')
    <2>1. /\ Follows(S, q, Value(p) \cup {n + 1}, silent \cup {n + 1})
          /\ Follows(S, q, Value(p), silent \cup {n + 1})
      BY <1>5, FollowsMissing
    <2> QED
      BY <1>1, <1>2, <2>1
  <1>6. ASSUME NEW w \in Watch PROVE WatchOk(w)'
    <2> SUFFICES ASSUME NEW p \in Pointer, watch[w].at = {p}
                 PROVE  /\ w \in listeners[p].unbounded
                        /\ Follows(watch[w].state, watch[w].queue, Value(p)', silent')
                        /\ watch[w].seen => shown[w] = watch[w].state
      BY <1>1 DEF WatchOk, Follows, Increasing
    <2>1. WatchOk(w)
      BY DEF IInv
    <2> QED
      BY <1>5, <2>1 DEF WatchOk
  <1>7. ASSUME NEW j \in Json PROVE JsonOk(j)'
    <2> SUFFICES ASSUME NEW p \in Pointer, json[j].at = {p}
                 PROVE  /\ json[j].id \in 0..n'
                        /\ json[j].got \subseteq Made(p, json[j].id)'
                        /\ Made(p, json[j].id)' \ json[j].got \subseteq silent'
                        /\ json[j].open => listeners[p].json
                        /\ json[j].open /\ ~json[j].lagged =>
                             Follows(json[j].got, json[j].queue, Value(p)', silent')
      BY <1>1 DEF JsonOk, Follows, Increasing, Made, n
    <2>1. JsonOk(j)
      BY DEF IInv
    <2>2. json[j].id \in 0..n
      BY <2>1 DEF JsonOk, n
    <2>3. Made(p, json[j].id)' = Made(p, json[j].id)
      BY <1>1, <1>2, <2>2
    <2> QED
      BY <1>1, <1>2, <1>5, <2>1, <2>2, <2>3 DEF JsonOk
  <1>8. ASSUME NEW p \in Pointer PROVE DumpOk(p)'
    <2> SUFFICES ASSUME listeners[p].dump # NoDump
                 PROVE  /\ listeners[p].dump \in 0..n'
                        /\ Value(p)' \ Made(p, listeners[p].dump)' \subseteq silent'
      BY <1>1 DEF DumpOk, n
    <2>1. /\ listeners[p].dump \in 0..n
          /\ Value(p) \ Made(p, listeners[p].dump) \subseteq silent
      BY DEF IInv, DumpOk, n
    <2>2. Made(p, listeners[p].dump)' = Made(p, listeners[p].dump)
      BY <1>1, <1>2, <2>1
    <2> QED
      BY <1>1, <1>2, <2>1, <2>2
  <1> QED
    BY <1>3, <1>4, <1>6, <1>7, <1>8 DEF IInv

\* A watch is created with the value and the subscription of one moment, or
\* dropped.
LEMMA HandleSteps ==
    ASSUME IInv, NEW w \in Watch,
           DropWatch(w) \/ \E p \in Pointer : NewWatch(w, p)
    PROVE  IInv'
  <1>1. ASSUME DropWatch(w) PROVE IInv'
    <2>1. /\ watch' = [watch EXCEPT ![w] = NoWatch]
          /\ shown' = [shown EXCEPT ![w] = {}]
          /\ UNCHANGED <<log, listeners, json, silent>>
      BY <1>1 DEF DropWatch
    <2>2. NoWatch \in WatchState /\ NoWatch.at = {} /\ NoWatch.queue = <<>>
      BY DEF NoWatch, WatchState
    <2>3. NoWatch.queue \in Seq(1..revision) /\ \A p \in Pointer : NoWatch.at # {p}
      BY <2>2
    <2>4. listeners' \in [Pointer -> Listener]
      BY <2>1 DEF IInv, TypeOK
    <2> HIDE DEF NoWatch
    <2> QED
      BY <2>1, <2>2, <2>3, <2>4, WatchStep
  <1>2. ASSUME NEW p \in Pointer, NewWatch(w, p) PROVE IInv'
    <2> DEFINE new == [NoWatch EXCEPT !.at = {p}, !.state = Value(p)]
    <2>1. /\ watch' = [watch EXCEPT ![w] = new]
          /\ shown' = [shown EXCEPT ![w] = {}]
          /\ listeners' = Subscribed(w, p)
          /\ UNCHANGED <<log, json, silent>>
      BY <1>2 DEF NewWatch
    <2>2. revision \in Nat /\ Value(p) \in SUBSET Nat
      BY Typed DEF IInv
    <2>3. /\ new \in WatchState /\ new.at = {p} /\ new.queue = <<>>
          /\ new.state = Value(p) /\ new.seen = FALSE
      <3>1. <<>> \in Seq(Nat) /\ {p} \in SUBSET Pointer
        OBVIOUS
      <3> QED
        BY <2>2, <3>1 DEF NoWatch, WatchState
    <2>4. Follows(Value(p), <<>>, Value(p), silent)
      BY RangeFacts DEF Follows, Increasing
    <2>5. listeners' \in [Pointer -> Listener]
      <3>1. \A q \in Pointer : listeners[q] \in Listener /\ Pruned(q) \in SUBSET Watch
        BY Typed DEF IInv, Pruned, LiveWatch
      <3>2. NoListener \in Listener
        BY DEF NoListener, Listener, NoDump
      <3> QED
        BY <2>1, <3>1, <3>2 DEF Subscribed, Listener
    <2>6. ASSUME NEW q \in Pointer
          PROVE  /\ Pruned(q) \subseteq listeners'[q].unbounded
                 /\ q = p => w \in listeners'[q].unbounded
                 /\ listeners'[q].json = listeners[q].json
                 /\ listeners'[q].dump \in {NoDump, listeners[q].dump}
      <3>1. listeners[q] \in Listener
        BY Typed DEF IInv
      <3> QED
        BY <2>1, <3>1 DEF Subscribed, Listener, NoListener
    <2>7. \A q \in Pointer, v \in Watch :
             watch[v].at = {q} /\ v \in listeners[q].unbounded => v \in Pruned(q)
      BY DEF Pruned, LiveWatch
    <2> HIDE DEF new
    <2>8. new.queue \in Seq(1..revision)
      <3>1. <<>> \in Seq(1..revision)
        OBVIOUS
      <3> QED
        BY <2>3, <3>1
    <2>9. \A q \in Pointer : new.at = {q} =>
              /\ w \in listeners'[q].unbounded
              /\ Follows(new.state, new.queue, Value(q), silent)
              /\ new.seen => {} = new.state
      <3>1. \A q \in Pointer : new.at = {q} => q = p
        BY <2>3
      <3> QED
        BY <2>3, <2>4, <2>6, <3>1
    <2>10. \A q \in Pointer :
              /\ \A v \in Watch \ {w} :
                    watch[v].at = {q} /\ v \in listeners[q].unbounded
                        => v \in listeners'[q].unbounded
              /\ listeners'[q].json = listeners[q].json
              /\ listeners'[q].dump \in {NoDump, listeners[q].dump}
      BY <2>6, <2>7
    <2>11. {} \in SUBSET Nat
      OBVIOUS
    <2> QED
      BY <2>1, <2>3, <2>5, <2>8, <2>9, <2>10, <2>11, WatchStep
  <1> QED
    BY <1>1, <1>2

\* The other operations of a watch leave the registration alone.
LEMMA WatchSteps ==
    ASSUME IInv, NEW w \in Watch,
           \/ Sync(w) \/ PeekAndMarkSeen(w) \/ PollChanged(w)
           \/ WaitFor(w) \/ WaitForAgain(w) \/ CancelWait(w)
    PROVE  IInv'
  <1>1. /\ watch[w] \in WatchState /\ watch[w].queue \in Seq(1..revision)
        /\ shown[w] \in SUBSET Nat /\ shown = [shown EXCEPT ![w] = shown[w]]
        /\ listeners \in [Pointer -> Listener] /\ revision \in Nat
    BY Typed DEF IInv, Queues, TypeOK
  <1>2. Range(watch[w].queue) \in SUBSET Nat /\ Drained(w) \in SUBSET Nat
    <2>1. Range(watch[w].queue) \subseteq 1..revision
      BY <1>1, RangeFacts
    <2> QED
      BY <1>1, <2>1 DEF Drained, WatchState
  <1>3. \A p \in Pointer : watch[w].at = {p} =>
           /\ w \in listeners[p].unbounded
           /\ Follows(watch[w].state, watch[w].queue, Value(p), silent)
           /\ Follows(Drained(w), <<>>, Value(p), silent)
           /\ watch[w].seen => shown[w] = watch[w].state
    BY FollowsDrain DEF IInv, WatchOk, Drained
  <1>4. <<>> \in Seq(1..revision) /\ <<>> \in Seq(Nat)
    OBVIOUS
  <1>5. ASSUME NEW new \in WatchState, NEW told \in SUBSET Nat,
               UNCHANGED <<log, listeners, json, silent>>,
               watch' = [watch EXCEPT ![w] = new],
               shown' = [shown EXCEPT ![w] = told],
               new.at = watch[w].at,
               \/ new.state = watch[w].state /\ new.queue = watch[w].queue
               \/ new.state = Drained(w) /\ new.queue = <<>>,
               \A p \in Pointer : new.at = {p} /\ new.seen => told = new.state
        PROVE  IInv'
    <2>1. new.queue \in Seq(1..revision)
      BY <1>1, <1>4, <1>5
    <2>2. \A p \in Pointer : new.at = {p} =>
              /\ w \in listeners'[p].unbounded
              /\ Follows(new.state, new.queue, Value(p), silent)
              /\ new.seen => told = new.state
      BY <1>3, <1>5
    <2> QED
      BY <1>1, <1>5, <2>1, <2>2, WatchStep
  <1>6. ASSUME NEW b \in BOOLEAN, Seen(w, b) PROVE IInv'
    <2> DEFINE new == [watch[w] EXCEPT !.state = Drained(w), !.queue = <<>>,
                                       !.seen = TRUE, !.waiting = b]
    <2>1. /\ new \in WatchState /\ new.at = watch[w].at /\ new.queue = <<>>
          /\ new.state = Drained(w)
      BY <1>1, <1>2, <1>4 DEF WatchState
    <2>2. /\ watch' = [watch EXCEPT ![w] = new]
          /\ shown' = [shown EXCEPT ![w] = Drained(w)]
          /\ UNCHANGED <<log, listeners, json, silent>>
      BY <1>6 DEF Seen
    <2> HIDE DEF new
    <2> QED
      BY <1>2, <1>5, <2>1, <2>2
  <1>7. CASE Sync(w)
    <2> DEFINE still == watch[w].seen /\ watch[w].queue = <<>>
               new == [watch[w] EXCEPT !.state = Drained(w), !.queue = <<>>,
                                       !.seen = still]
    <2>t. still \in BOOLEAN
      OBVIOUS
    <2>u. watch' = [watch EXCEPT ![w] = new]
      BY <1>7 DEF Sync, SyncWatch
    <2> HIDE DEF still
    <2>1. /\ new \in WatchState /\ new.at = watch[w].at /\ new.queue = <<>>
          /\ new.state = Drained(w)
          /\ new.seen => watch[w].seen /\ watch[w].queue = <<>>
      BY <1>1, <1>2, <1>4, <2>t DEF WatchState, still
    <2>2. /\ shown' = [shown EXCEPT ![w] = shown[w]]
          /\ UNCHANGED <<log, listeners, json, silent>>
      BY <1>1, <1>7 DEF Sync
    <2>3. \A p \in Pointer : new.at = {p} /\ new.seen => shown[w] = new.state
      <3>1. watch[w].queue = <<>> => Drained(w) = watch[w].state
        BY RangeFacts DEF Drained
      <3> QED
        BY <1>3, <2>1, <3>1
    <2> HIDE DEF new
    <2> QED
      BY <1>1, <1>5, <2>u, <2>1, <2>2, <2>3
  <1>8. CASE PeekAndMarkSeen(w)
    BY <1>6, <1>8 DEF PeekAndMarkSeen
  <1>9. CASE PollChanged(w)
    <2>1. CASE /\ watch' = [watch EXCEPT ![w].seen = TRUE]
               /\ shown' = [shown EXCEPT ![w] = watch[w].state]
               /\ UNCHANGED <<log, listeners, json, silent>>
      <3> DEFINE new == [watch[w] EXCEPT !.seen = TRUE]
      <3>1. /\ new \in WatchState /\ new.at = watch[w].at
            /\ new.queue = watch[w].queue /\ new.state = watch[w].state
            /\ watch[w].state \in SUBSET Nat
        BY <1>1 DEF WatchState
      <3>2. watch' = [watch EXCEPT ![w] = new]
        BY <2>1
      <3> HIDE DEF new
      <3> QED
        BY <1>5, <2>1, <3>1, <3>2
    <2>2. CASE Seen(w, FALSE)
      BY <1>6, <2>2
    <2> QED
      BY <1>9, <2>1, <2>2 DEF PollChanged
  <1>10. CASE WaitFor(w) \/ WaitForAgain(w)
    <2>1. Accepted(Drained(w)) \in BOOLEAN
      BY DEF Accepted
    <2> QED
      BY <1>6, <1>10, <2>1 DEF WaitFor, WaitForAgain
  <1>11. CASE CancelWait(w)
    <2> DEFINE new == [watch[w] EXCEPT !.waiting = FALSE]
    <2>1. /\ new \in WatchState /\ new.at = watch[w].at /\ new.seen = watch[w].seen
          /\ new.queue = watch[w].queue /\ new.state = watch[w].state
      BY <1>1 DEF WatchState
    <2>2. /\ watch' = [watch EXCEPT ![w] = new]
          /\ shown' = [shown EXCEPT ![w] = shown[w]]
          /\ UNCHANGED <<log, listeners, json, silent>>
      BY <1>1, <1>11 DEF CancelWait
    <2> HIDE DEF new
    <2> QED
      BY <1>1, <1>3, <1>5, <2>1, <2>2
  <1> QED
    BY <1>7, <1>8, <1>9, <1>10, <1>11

\* The steps of a JSON subscriber.
LEMMA JsonSteps ==
    ASSUME IInv, NEW j \in Json,
           JsonRecv(j) \/ DropJson(j) \/ \E p \in Pointer : NewJson(j, p)
    PROVE  IInv'
  <1>1. /\ json[j] \in JsonState /\ json[j].queue \in Seq(1..revision)
        /\ listeners \in [Pointer -> Listener] /\ revision \in Nat
        /\ \A p \in Pointer : Value(p) \in SUBSET (1..revision)
    BY Typed DEF IInv, Queues, TypeOK
  <1>2. \A p \in Pointer : listeners[p].dump # NoDump =>
           /\ listeners[p].dump \in 0..revision
           /\ Value(p) \ Made(p, listeners[p].dump) \subseteq silent
    BY DEF IInv, DumpOk
  <1>3. ASSUME NEW new \in JsonState,
               UNCHANGED <<log, listeners, watch, silent, shown>>,
               json' = [json EXCEPT ![j] = new],
               new.queue \in Seq(1..revision),
               \A p \in Pointer : new.at = {p} =>
                  /\ new.id \in 0..revision
                  /\ new.got \subseteq Made(p, new.id)
                  /\ Made(p, new.id) \ new.got \subseteq silent
                  /\ new.open => listeners[p].json
                  /\ new.open /\ ~new.lagged =>
                        Follows(new.got, new.queue, Value(p), silent)
        PROVE  IInv'
    <2>1. listeners' \in [Pointer -> Listener] /\ listeners' = listeners
      BY <1>1, <1>3
    <2> QED
      BY <1>2, <1>3, <2>1, JsonStep
  <1>4. CASE DropJson(j)
    <2>1. NoJson \in JsonState /\ NoJson.at = {} /\ NoJson.queue = <<>>
      BY DEF NoJson, JsonState
    <2>2. NoJson.queue \in Seq(1..revision) /\ \A p \in Pointer : NoJson.at # {p}
      BY <2>1
    <2>3. /\ json' = [json EXCEPT ![j] = NoJson]
          /\ UNCHANGED <<log, listeners, watch, silent, shown>>
      BY <1>4 DEF DropJson
    <2> HIDE DEF NoJson
    <2> QED
      BY <1>3, <2>1, <2>2, <2>3
  <1>5. ASSUME NEW p \in Pointer, NewJson(j, p) PROVE IInv'
    <2> DEFINE id == IF listeners[p].dump # NoDump THEN listeners[p].dump ELSE revision
               new == [NoJson EXCEPT !.at = {p}, !.got = Made(p, id), !.id = id,
                                     !.open = TRUE]
    <2>1. /\ json' = [json EXCEPT ![j] = new]
          /\ listeners' = [listeners EXCEPT ![p].json = TRUE, ![p].dump = id]
          /\ UNCHANGED <<log, watch, silent, shown>>
      BY <1>5 DEF NewJson, SubscribedJson
    <2>2. id \in 0..revision /\ Value(p) \ Made(p, id) \subseteq silent
      BY <1>1 DEF IInv, DumpOk, Value
    <2>3. Made(p, id) \subseteq Value(p) /\ Made(p, id) \in SUBSET Nat
      BY <1>1, <2>2 DEF Made, Value
    <2> HIDE DEF id
    <2>4. /\ new \in JsonState /\ new.at = {p} /\ new.queue = <<>> /\ new.id = id
          /\ new.got = Made(p, id)
      <3>1. <<>> \in Seq(Nat) /\ {p} \in SUBSET Pointer /\ id \in Int
        BY <1>1, <2>2
      <3> QED
        BY <2>3, <3>1 DEF NoJson, JsonState
    <2>5. Follows(Made(p, id), <<>>, Value(p), silent)
      BY <2>2, <2>3, RangeFacts DEF Follows, Increasing
    <2>6. /\ listeners' \in [Pointer -> Listener]
          /\ listeners'[p].json = TRUE /\ listeners'[p].dump = id
          /\ listeners'[p].unbounded = listeners[p].unbounded
          /\ \A q \in Pointer \ {p} : listeners'[q] = listeners[q]
      <3>1. id \in Int /\ listeners[p] \in Listener
        BY <1>1, <2>2
      <3> QED
        BY <1>1, <2>1, <3>1 DEF Listener
    <2>7. ASSUME NEW q \in Pointer, listeners'[q].dump # NoDump
          PROVE  /\ listeners'[q].dump \in 0..revision
                 /\ Value(q) \ Made(q, listeners'[q].dump) \subseteq silent
      BY <1>2, <2>2, <2>6, <2>7
    <2>8. new.queue \in Seq(1..revision)
      <3>1. <<>> \in Seq(1..revision)
        OBVIOUS
      <3> QED
        BY <2>4, <3>1
    <2> HIDE DEF new
    <2>9. \A q \in Pointer : new.at = {q} =>
             /\ new.id \in 0..revision
             /\ new.got \subseteq Made(q, new.id)
             /\ Made(q, new.id) \ new.got \subseteq silent
             /\ new.open => listeners'[q].json
             /\ new.open /\ ~new.lagged =>
                   Follows(new.got, new.queue, Value(q), silent)
      <3>1. \A q \in Pointer : new.at = {q} => q = p
        BY <2>4
      <3> QED
        BY <2>2, <2>4, <2>5, <2>6, <3>1
    <2>10. \A q \in Pointer :
              /\ listeners'[q].unbounded = listeners[q].unbounded
              /\ listeners[q].json => listeners'[q].json
              /\ listeners'[q].dump # NoDump =>
                    /\ listeners'[q].dump \in 0..revision
                    /\ Value(q) \ Made(q, listeners'[q].dump) \subseteq silent
      BY <2>6, <2>7
    <2> QED
      <3>1. new \in JsonState /\ listeners' \in [Pointer -> Listener]
        BY <2>4, <2>6
      <3> QED
        BY <2>1, <2>8, <2>9, <2>10, <3>1, JsonStep, Zenon
  <1>6. CASE JsonRecv(j)
    <2>0. JsonOk(j) /\ UNCHANGED <<log, listeners, watch, silent, shown>>
      BY <1>6 DEF IInv, JsonRecv
    <2>1. CASE json' = [json EXCEPT ![j].open = FALSE]
      <3> DEFINE new == [json[j] EXCEPT !.open = FALSE]
      <3>1. json' = [json EXCEPT ![j] = new]
        BY <2>1
      <3>2. /\ new \in JsonState /\ new.at = json[j].at /\ new.queue = json[j].queue
            /\ new.id = json[j].id /\ new.got = json[j].got /\ ~new.open
        BY <1>1 DEF JsonState
      <3> HIDE DEF new
      <3> QED
        BY <1>1, <1>3, <2>0, <3>1, <3>2 DEF JsonOk
    <2>2. CASE ~json[j].lagged /\ json[j].queue # <<>>
               /\ json' = [json EXCEPT ![j] =
                     [json[j] EXCEPT !.got = json[j].got \cup {Head(json[j].queue)},
                                     !.id = Head(json[j].queue),
                                     !.queue = Tail(json[j].queue)]]
      <3> DEFINE h == Head(json[j].queue)
                 t == Tail(json[j].queue)
                 new == [json[j] EXCEPT !.got = json[j].got \cup {h}, !.id = h,
                                        !.queue = t]
      <3>1. h \in 1..revision /\ t \in Seq(1..revision)
        BY <1>1, <2>2, RangeTail
      <3>2. t \in Seq(Nat)
        <4>1. 1..revision \subseteq Nat
          BY <1>1
        <4> QED
          BY <3>1, <4>1, SeqMono
      <3>3. json' = [json EXCEPT ![j] = new]
        BY <2>2
      <3>4. json[j].open
        BY <1>6 DEF JsonRecv
      <3>5. ASSUME NEW p \in Pointer, json[j].at = {p}
            PROVE  /\ Follows(json[j].got \cup {h}, t, Value(p), silent)
                   /\ json[j].got \cup {h} \subseteq Made(p, h)
                   /\ Made(p, h) \ (json[j].got \cup {h}) \subseteq silent
                   /\ listeners[p].json
        <4>1. /\ Follows(json[j].got, json[j].queue, Value(p), silent)
              /\ listeners[p].json
          BY <2>0, <2>2, <3>4, <3>5 DEF JsonOk
        <4>2. /\ Follows(json[j].got \cup {h}, t, Value(p), silent)
              /\ \A v \in Value(p) : v <= h => v \in json[j].got \/ v = h \/ v \in silent
              /\ \A v \in json[j].got \cup {h} : v <= h
          <5>1. /\ revision \in Nat /\ Value(p) \in SUBSET (1..revision)
                /\ json[j].queue \in Seq(1..revision) /\ json[j].queue # <<>>
            BY <1>1, <2>2
          <5>2. /\ Follows(json[j].got \cup {h}, t, Value(p), silent)
                /\ \A v \in json[j].got \cup {h} : v <= h
            BY <4>1, <5>1, FollowsFirst
          <5>3. ASSUME NEW v \in Value(p), v <= h, v \notin json[j].got, v # h
                PROVE  v \in silent
            BY <4>1, <5>1, <5>3, FollowsUpTo
          <5> QED
            BY <5>2, <5>3
        <4>3. json[j].got \cup {h} \subseteq Value(p)
          BY <4>2 DEF Follows
        <4>4. \A v : v \in Made(p, h) <=> v \in Value(p) /\ v <= h
          BY <1>1, <3>1 DEF Made, Value
        <4> QED
          BY <4>1, <4>2, <4>3, <4>4
      <3> HIDE DEF h, t
      <3>6. /\ new \in JsonState /\ new.at = json[j].at /\ new.queue = t
            /\ new.id = h /\ new.got = json[j].got \cup {h}
        <4>1. h \in Nat /\ h \in Int
          BY <1>1, <3>1
        <4>2. json[j].got \cup {h} \in SUBSET Nat
          BY <1>1, <4>1 DEF JsonState
        <4> QED
          BY <1>1, <3>2, <4>1, <4>2 DEF JsonState
      <3> HIDE DEF new
      <3> QED
        <4>1. h \in 0..revision /\ new.queue \in Seq(1..revision)
          BY <1>1, <3>1, <3>6
        <4>2. \A p \in Pointer : new.at = {p} =>
                 /\ new.id \in 0..revision
                 /\ new.got \subseteq Made(p, new.id)
                 /\ Made(p, new.id) \ new.got \subseteq silent
                 /\ listeners[p].json
                 /\ Follows(new.got, new.queue, Value(p), silent)
          <5> SUFFICES ASSUME NEW p \in Pointer, new.at = {p}
                       PROVE  /\ new.id \in 0..revision
                              /\ new.got \subseteq Made(p, new.id)
                              /\ Made(p, new.id) \ new.got \subseteq silent
                              /\ listeners[p].json
                              /\ Follows(new.got, new.queue, Value(p), silent)
            OBVIOUS
          <5>1. json[j].at = {p}
            BY <3>6
          <5>2. /\ Follows(json[j].got \cup {h}, t, Value(p), silent)
                /\ json[j].got \cup {h} \subseteq Made(p, h)
                /\ Made(p, h) \ (json[j].got \cup {h}) \subseteq silent
                /\ listeners[p].json
            BY <3>5, <5>1
          <5> QED
            BY <3>6, <4>1, <5>2
        <4> QED
          BY <1>3, <2>0, <3>3, <3>6, <4>1, <4>2
    <2> QED
      BY <1>6, <2>1, <2>2 DEF JsonRecv
  <1> QED
    BY <1>4, <1>5, <1>6

\* Every step preserves the invariant.
LEMMA NextInv == IInv /\ [Next]_vars => IInv'
  <1> SUFFICES ASSUME IInv, [Next]_vars PROVE IInv'
    OBVIOUS
  <1>1. CASE UNCHANGED vars
    <2>1. /\ UNCHANGED <<log, listeners, watch, json, silent, shown>>
          /\ revision' = revision /\ \A p \in Pointer : Value(p)' = Value(p)
          /\ \A p, n : Made(p, n)' = Made(p, n)
      BY <1>1 DEF vars, revision, Value, Made
    <2>2. TypeOK' /\ Queues'
      BY <2>1 DEF IInv, TypeOK, Queues
    <2>3. \A w \in Watch : WatchOk(w)'
      BY <2>1 DEF IInv, WatchOk, Follows, Increasing
    <2>4. \A j \in Json : JsonOk(j)'
      BY <2>1 DEF IInv, JsonOk, Follows, Increasing
    <2>5. \A p \in Pointer : DumpOk(p)'
      BY <2>1 DEF IInv, DumpOk
    <2> QED
      BY <2>2, <2>3, <2>4, <2>5 DEF IInv
  <1> QED
    BY <1>1, ApplyStep, ApplyUnannouncedStep, HandleSteps, WatchSteps, JsonSteps
       DEF Next

\* The invariant holds throughout.
LEMMA Invariance == Spec => []IInv
  BY InitInv, NextInv, PTL DEF Spec

(***************************************************************************)
(* The theorems.                                                           *)
(***************************************************************************)
\* What a watch holds and has queued is the value at its pointer, in order,
\* short of revisions that were never announced.
THEOREM WatchesFollow == Spec => []WatchFollows
  <1>1. IInv => WatchFollows
    BY DEF IInv, WatchOk, WatchFollows, Follows, Held
  <1> QED
    BY <1>1, Invariance, PTL

\* A watch whose changed() would block has told its holder of the current
\* value, in whatever order its operations were called and cancelled.
THEOREM NoWakeupIsLost == Spec => []NoLostWakeup
  <1>1. IInv => NoLostWakeup
    BY RangeFacts DEF IInv, WatchOk, NoLostWakeup, Follows
  <1> QED
    BY <1>1, Invariance, PTL

\* A JSON subscriber has every revision up to the last one it saw, whatever
\* the channel dropped.
THEOREM JsonHasNoGap == Spec => []JsonGapless
  <1>1. IInv => JsonGapless
    BY DEF IInv, JsonOk, JsonGapless
  <1> QED
    BY <1>1, Invariance, PTL

\* A JSON stream that has not overflowed has everything that was announced,
\* from a shared dump too.
THEOREM JsonIsComplete == Spec => []JsonFollows
  <1>1. IInv => JsonFollows
    BY DEF IInv, JsonOk, JsonFollows, Follows
  <1> QED
    BY <1>1, Invariance, PTL

\* Every variable keeps its type, and queues, cached dumps, watches and JSON
\* streams hold only revisions that were made.
THEOREM FeedTypeCorrect == Spec => [](TypeOK /\ OnlyMade)
  <1>1. ASSUME IInv PROVE OnlyMade
    <2>1. /\ \A w \in Watch : watch[w].queue \in Seq(1..revision)
          /\ \A j \in Json : json[j].queue \in Seq(1..revision)
      BY <1>1 DEF IInv, Queues
    <2>2. ASSUME NEW p \in Pointer
          PROVE  listeners[p].dump \in {NoDump} \cup 0..revision
      BY <1>1 DEF IInv, DumpOk
    <2>3. ASSUME NEW p \in Pointer, NEW w \in Watch, watch[w].at = {p}
          PROVE  watch[w].state \subseteq 1..revision
      BY <1>1, <2>3, Typed DEF IInv, WatchOk, Follows
    <2>4. ASSUME NEW p \in Pointer, NEW j \in Json, json[j].at = {p}
          PROVE  json[j].id \in 0..revision /\ json[j].got \subseteq 1..revision
      <3>1. json[j].id \in 0..revision /\ json[j].got \subseteq Made(p, json[j].id)
        BY <1>1, <2>4 DEF IInv, JsonOk
      <3>2. revision \in Nat
        BY <1>1, Typed DEF IInv
      <3> QED
        BY <3>1, <3>2 DEF Made
    <2> QED
      BY <2>1, <2>2, <2>3, <2>4 DEF OnlyMade
  <1>2. IInv => TypeOK /\ OnlyMade
    BY <1>1 DEF IInv
  <1> QED
    BY <1>2, Invariance, PTL
=============================================================================
