----------------------------- MODULE DbSyncProofs -----------------------------
(***************************************************************************)
(* Proofs about DbSync, for every number of calls, revisions and breaks.   *)
(***************************************************************************)
EXTENDS DbSync, TLAPS

USE FirstAssumption, MaxRevisionAssumption, MaxDropsAssumption

(***************************************************************************)
(* The stream.  What is on its way beyond a base is a websocket w followed *)
(* by a queue q: they hold every revision of the scope S after the base,   *)
(* in order, and no message is ahead of a revision that comes after it.    *)
(***************************************************************************)
WireAhead(w, S, base) ==
    /\ \A i \in 1..Len(w) : w[i].patch => w[i].id \in S /\ w[i].id > base
    /\ \A i, j \in 1..Len(w) : i < j /\ w[j].patch => w[i].id < w[j].id

QueueAhead(q, S, base) ==
    /\ \A k \in 1..Len(q) : q[k] \in S /\ q[k] > base
    /\ \A k, l \in 1..Len(q) : k < l => q[k] < q[l]

WireFirst(w, q) == \A i \in 1..Len(w), k \in 1..Len(q) : w[i].id < q[k]

Carried(w, r) == \E i \in 1..Len(w) : w[i].patch /\ w[i].id = r
Queued(q, r) == \E k \in 1..Len(q) : q[k] = r

Complete(w, q, S, base) ==
    \A r \in S : r > base => Carried(w, r) \/ Queued(q, r)

Stream(w, q, S, base) ==
    /\ WireAhead(w, S, base)
    /\ QueueAhead(q, S, base)
    /\ WireFirst(w, q)
    /\ Complete(w, q, S, base)

\* What Append does, element by element.
LEMMA AppendFacts ==
    ASSUME NEW S, NEW s \in Seq(S), NEW e \in S
    PROVE  /\ Append(s, e) \in Seq(S)
           /\ Len(s) \in Nat /\ Len(Append(s, e)) = Len(s) + 1
           /\ \A i \in 1..Len(s) : Append(s, e)[i] = s[i]
           /\ Append(s, e)[Len(s) + 1] = e
  OBVIOUS

\* What Head and Tail do, element by element.
LEMMA TailFacts ==
    ASSUME NEW S, NEW s \in Seq(S), s # <<>>
    PROVE  /\ Head(s) = s[1] /\ s[1] \in S
           /\ Len(s) \in Nat \ {0}
           /\ Tail(s) \in Seq(S)
           /\ Len(Tail(s)) = Len(s) - 1
           /\ \A i \in 1..Len(Tail(s)) : Tail(s)[i] = s[i + 1]
  OBVIOUS

\* An element of a sequence is in its set.
LEMMA ElementFacts ==
    ASSUME NEW S, NEW s \in Seq(S)
    PROVE  Len(s) \in Nat /\ \A i \in 1..Len(s) : s[i] \in S
  OBVIOUS

\* The messages of a websocket.
LEMMA MessageFacts ==
    ASSUME NEW n \in Nat, NEW w \in Seq(Message(n))
    PROVE  /\ Len(w) \in Nat
           /\ \A i \in 1..Len(w) : w[i].id \in 0..n /\ w[i].patch \in BOOLEAN
  <1>1. \A m \in Message(n) : m.id \in 0..n /\ m.patch \in BOOLEAN
    BY DEF Message
  <1>2. Len(w) \in Nat /\ \A i \in 1..Len(w) : w[i] \in Message(n)
    BY ElementFacts
  <1> QED
    BY <1>1, <1>2

\* A sequence over a set is one over any larger set.
LEMMA SeqMono ==
    ASSUME NEW S, NEW T, S \subseteq T, NEW s \in Seq(S)
    PROVE  s \in Seq(T)
  OBVIOUS

\* A commit in scope extends the stream.
LEMMA StreamCommit ==
    ASSUME NEW n \in Nat, NEW S \in SUBSET (1..n), NEW w \in Seq(Message(n)),
           NEW q \in Seq(1..n), NEW base \in 0..n, Stream(w, q, S, base)
    PROVE  Stream(w, Append(q, n + 1), S \cup {n + 1}, base)
  <1> DEFINE p == Append(q, n + 1)
  <1>1. q \in Seq(1..(n + 1))
    BY SeqMono
  <1>2. /\ Len(q) \in Nat /\ Len(p) = Len(q) + 1
        /\ \A k \in 1..Len(q) : p[k] = q[k]
        /\ p[Len(q) + 1] = n + 1
    BY <1>1, AppendFacts
  <1>3. \A k \in 1..Len(q) : q[k] \in 1..n
    BY ElementFacts
  <1>4. \A i \in 1..Len(w) : w[i].id \in 0..n
    BY MessageFacts
  <1> HIDE DEF p
  <1>5. WireAhead(w, S \cup {n + 1}, base)
    BY DEF Stream, WireAhead
  <1>6. QueueAhead(p, S \cup {n + 1}, base)
    <2>1. QueueAhead(q, S, base)
      BY DEF Stream
    <2>2. ASSUME NEW k \in 1..Len(p)
          PROVE  p[k] \in S \cup {n + 1} /\ p[k] > base /\ p[k] \in 1..(n + 1)
      <3>1. CASE k \in 1..Len(q)
        BY <1>2, <1>3, <2>1, <3>1 DEF QueueAhead
      <3>2. CASE k = Len(q) + 1
        BY <1>2, <3>2
      <3> QED
        BY <1>2, <3>1, <3>2
    <2>3. ASSUME NEW k \in 1..Len(p), NEW l \in 1..Len(p), k < l
          PROVE  p[k] < p[l]
      <3>1. k \in 1..Len(q) /\ p[k] = q[k] /\ q[k] \in 1..n
        BY <1>2, <1>3, <2>3
      <3>2. CASE l \in 1..Len(q)
        BY <1>2, <2>1, <2>3, <3>1, <3>2 DEF QueueAhead
      <3>3. CASE l = Len(q) + 1
        BY <1>2, <3>1, <3>3
      <3> QED
        BY <1>2, <3>2, <3>3
    <2> QED
      BY <2>2, <2>3 DEF QueueAhead
  <1>7. WireFirst(w, p)
    <2>1. WireFirst(w, q)
      BY DEF Stream
    <2> SUFFICES ASSUME NEW i \in 1..Len(w), NEW k \in 1..Len(p)
                 PROVE  w[i].id < p[k]
      BY DEF WireFirst
    <2>2. CASE k \in 1..Len(q)
      BY <1>2, <2>1, <2>2 DEF WireFirst
    <2>3. CASE k = Len(q) + 1
      BY <1>2, <1>4, <2>3
    <2> QED
      BY <1>2, <2>2, <2>3
  <1>8. Complete(w, p, S \cup {n + 1}, base)
    BY <1>2 DEF Stream, Complete, Carried, Queued
  <1> QED
    BY <1>5, <1>6, <1>7, <1>8 DEF Stream, p

\* A revision goes from the queue to the websocket.
LEMMA StreamSend ==
    ASSUME NEW n \in Nat, NEW S \in SUBSET (1..n), NEW w \in Seq(Message(n)),
           NEW q \in Seq(1..n), NEW base \in 0..n, Stream(w, q, S, base),
           q # <<>>
    PROVE  /\ Stream(Append(w, Real(Head(q))), Tail(q), S, base)
           /\ Append(w, Real(Head(q))) \in Seq(Message(n))
  <1> DEFINE v == Append(w, Real(Head(q)))
             p == Tail(q)
  <1>1. /\ Head(q) = q[1] /\ q[1] \in 1..n /\ Len(q) \in Nat \ {0}
        /\ Len(p) = Len(q) - 1
        /\ \A k \in 1..Len(p) : p[k] = q[k + 1]
    BY TailFacts
  <1>2. Real(q[1]) \in Message(n) /\ Real(q[1]).id = q[1] /\ Real(q[1]).patch
    BY <1>1 DEF Real, Message
  <1>3. /\ v \in Seq(Message(n)) /\ Len(w) \in Nat /\ Len(v) = Len(w) + 1
        /\ \A i \in 1..Len(w) : v[i] = w[i]
        /\ v[Len(w) + 1].id = q[1] /\ v[Len(w) + 1].patch
    BY <1>1, <1>2, AppendFacts
  <1>4. \A i \in 1..Len(w) : w[i].id \in 0..n /\ w[i].patch \in BOOLEAN
    BY MessageFacts
  <1>5. \A k \in 1..Len(q) : q[k] \in 1..n
    BY ElementFacts
  <1> HIDE DEF v, p
  <1>6. WireAhead(v, S, base)
    <2>1. \A i \in 1..Len(w) : w[i].id < q[1]
      BY <1>1 DEF Stream, WireFirst
    <2>2. \A i \in 1..Len(v) : v[i].patch => v[i].id \in S /\ v[i].id > base
      BY <1>1, <1>3 DEF Stream, WireAhead, QueueAhead
    <2>3. \A i, j \in 1..Len(v) : i < j /\ v[j].patch => v[i].id < v[j].id
      <3>1. WireAhead(w, S, base)
        BY DEF Stream
      <3> SUFFICES ASSUME NEW i \in 1..Len(v), NEW j \in 1..Len(v), i < j,
                          v[j].patch
                   PROVE  v[i].id < v[j].id
        OBVIOUS
      <3>2. i \in 1..Len(w) /\ v[i] = w[i]
        BY <1>3
      <3>3. CASE j \in 1..Len(w)
        BY <1>3, <3>1, <3>2, <3>3 DEF WireAhead
      <3>4. CASE j = Len(w) + 1
        BY <1>3, <2>1, <3>2, <3>4
      <3> QED
        BY <1>3, <3>3, <3>4
    <2> QED
      BY <2>2, <2>3 DEF WireAhead
  <1>7. QueueAhead(p, S, base)
    <2>1. QueueAhead(q, S, base)
      BY DEF Stream
    <2>2. \A k \in 1..Len(p) : k + 1 \in 1..Len(q)
      BY <1>1
    <2>3. \A k \in 1..Len(p) : p[k] \in S /\ p[k] > base
      BY <1>1, <2>1, <2>2 DEF QueueAhead
    <2>4. ASSUME NEW k \in 1..Len(p), NEW l \in 1..Len(p), k < l
          PROVE  p[k] < p[l]
      <3>1. k + 1 < l + 1
        BY <2>4
      <3> QED
        BY <1>1, <2>1, <2>2, <3>1 DEF QueueAhead
    <2> QED
      BY <2>3, <2>4 DEF QueueAhead
  <1>8. WireFirst(v, p)
    <2> SUFFICES ASSUME NEW i \in 1..Len(v), NEW k \in 1..Len(p)
                 PROVE  v[i].id < p[k]
      BY DEF WireFirst
    <2>1. k + 1 \in 1..Len(q) /\ p[k] = q[k + 1]
      BY <1>1
    <2>2. CASE i \in 1..Len(w)
      BY <1>3, <2>1, <2>2 DEF Stream, WireFirst
    <2>3. CASE i = Len(w) + 1
      <3>1. q[1] < q[k + 1]
        <4>1. QueueAhead(q, S, base)
          BY DEF Stream
        <4>2. 1 \in 1..Len(q) /\ 1 < k + 1
          BY <1>1, <2>1
        <4> QED
          BY <2>1, <4>1, <4>2 DEF QueueAhead
      <3> QED
        BY <1>3, <2>1, <2>3, <3>1
    <2> QED
      BY <1>3, <2>2, <2>3
  <1>9. Complete(v, p, S, base)
    <2> SUFFICES ASSUME NEW r \in S, r > base
                 PROVE  Carried(v, r) \/ Queued(p, r)
      BY DEF Complete
    <2>1. CASE Carried(w, r)
      BY <1>3, <2>1 DEF Carried
    <2>2. CASE Queued(q, r)
      <3> PICK k \in 1..Len(q) : q[k] = r
        BY <2>2 DEF Queued
      <3>1. CASE k = 1
        BY <1>3, <3>1 DEF Carried
      <3>2. CASE k # 1
        <4>1. k - 1 \in 1..Len(p) /\ p[k - 1] = q[k]
          BY <1>1, <3>2
        <4> QED
          BY <4>1 DEF Queued
      <3> QED
        BY <3>1, <3>2
    <2> QED
      BY <2>1, <2>2 DEF Stream, Complete
  <1> QED
    BY <1>3, <1>6, <1>7, <1>8, <1>9 DEF Stream, v, p

\* A synthetic revision is sent when nothing is queued.
LEMMA StreamSynthetic ==
    ASSUME NEW n \in Nat, NEW S \in SUBSET (1..n), NEW w \in Seq(Message(n)),
           NEW base \in 0..n, Stream(w, <<>>, S, base), NEW id \in 0..n
    PROVE  /\ Stream(Append(w, Synthetic(id)), <<>>, S, base)
           /\ Append(w, Synthetic(id)) \in Seq(Message(n))
  <1> DEFINE v == Append(w, Synthetic(id))
  <1>1. Synthetic(id) \in Message(n) /\ Synthetic(id).patch = FALSE
    BY DEF Synthetic, Message
  <1>2. /\ v \in Seq(Message(n)) /\ Len(w) \in Nat /\ Len(v) = Len(w) + 1
        /\ \A i \in 1..Len(w) : v[i] = w[i]
        /\ v[Len(w) + 1].patch = FALSE
    BY <1>1, AppendFacts
  <1> HIDE DEF v
  <1>3. WireAhead(v, S, base)
    BY <1>2 DEF Stream, WireAhead
  <1>4. QueueAhead(<<>>, S, base) /\ WireFirst(v, <<>>)
    BY DEF QueueAhead, WireFirst
  <1>5. Complete(v, <<>>, S, base)
    BY <1>2 DEF Stream, Complete, Carried, Queued
  <1> QED
    BY <1>2, <1>3, <1>4, <1>5 DEF Stream, v

\* The interface gets a message.  One that is not ahead is skipped; another
\* moves the base on, and what lies between is what the message brings.
LEMMA StreamDeliver ==
    ASSUME NEW n \in Nat, NEW S \in SUBSET (1..n), NEW w \in Seq(Message(n)),
           NEW q \in Seq(1..n), NEW base \in 0..n, Stream(w, q, S, base),
           w # <<>>
    PROVE  /\ Tail(w) \in Seq(Message(n))
           /\ Head(w).id \in 0..n /\ Head(w).patch \in BOOLEAN
           /\ Head(w).id <= base => Stream(Tail(w), q, S, base)
           /\ Head(w).id > base =>
                /\ Stream(Tail(w), q, S, Head(w).id)
                /\ Head(w).patch => Head(w).id \in S
                /\ \A r \in S : r <= Head(w).id <=>
                        r <= base \/ (Head(w).patch /\ r = Head(w).id)
  <1> DEFINE v == Tail(w)
             m == w[1]
  <1>1. /\ Head(w) = m /\ Len(w) \in Nat \ {0} /\ v \in Seq(Message(n))
        /\ Len(v) = Len(w) - 1
        /\ \A i \in 1..Len(v) : v[i] = w[i + 1]
    BY TailFacts
  <1>2. \A i \in 1..Len(w) : w[i].id \in 0..n /\ w[i].patch \in BOOLEAN
    BY MessageFacts
  <1>3. 1 \in 1..Len(w) /\ m.id \in 0..n /\ m.patch \in BOOLEAN
    BY <1>1, <1>2
  <1>4. \A k \in 1..Len(q) : q[k] \in 1..n
    BY ElementFacts
  <1>5. /\ WireAhead(w, S, base) /\ QueueAhead(q, S, base) /\ WireFirst(w, q)
        /\ Complete(w, q, S, base)
    BY DEF Stream
  <1>6. \A i \in 1..Len(v) : i + 1 \in 1..Len(w) /\ 1 < i + 1
    BY <1>1
  <1> HIDE DEF v, m
  <1>7. \A i \in 1..Len(v) : v[i].patch => v[i].id > m.id
    BY <1>1, <1>3, <1>5, <1>6 DEF WireAhead, m
  <1>8. \A i, j \in 1..Len(v) : i < j /\ v[j].patch => v[i].id < v[j].id
    <2> SUFFICES ASSUME NEW i \in 1..Len(v), NEW j \in 1..Len(v), i < j, v[j].patch
                 PROVE  v[i].id < v[j].id
      OBVIOUS
    <2>1. i + 1 < j + 1
      OBVIOUS
    <2> QED
      BY <1>1, <1>5, <1>6, <2>1 DEF WireAhead
  <1>9. WireFirst(v, q)
    BY <1>1, <1>5, <1>6 DEF WireFirst
  <1>10. \A r \in S : Carried(w, r) => Carried(v, r) \/ (m.patch /\ m.id = r)
    <2> SUFFICES ASSUME NEW r \in S, Carried(w, r), ~(m.patch /\ m.id = r)
                 PROVE  Carried(v, r)
      OBVIOUS
    <2> PICK i \in 1..Len(w) : w[i].patch /\ w[i].id = r
      BY DEF Carried
    <2>1. i # 1
      BY DEF m
    <2>2. i - 1 \in 1..Len(v) /\ v[i - 1] = w[i]
      BY <1>1, <2>1
    <2> QED
      BY <2>2 DEF Carried
  <1>11. CASE m.id <= base
    <2>1. m.patch = FALSE
      BY <1>3, <1>5, <1>11 DEF WireAhead, m
    <2>2. WireAhead(v, S, base)
      BY <1>1, <1>5, <1>6, <1>8 DEF WireAhead
    <2>3. Complete(v, q, S, base)
      BY <1>5, <1>10, <2>1 DEF Complete
    <2> QED
      BY <1>1, <1>3, <1>5, <1>9, <1>11, <2>2, <2>3 DEF Stream, v
  <1>12. CASE m.id > base
    <2>1. WireAhead(v, S, m.id)
      BY <1>1, <1>5, <1>6, <1>7, <1>8 DEF WireAhead
    <2>2. \A k \in 1..Len(q) : q[k] > m.id
      BY <1>3, <1>4, <1>5 DEF WireFirst, m
    <2>3. QueueAhead(q, S, m.id)
      BY <1>5, <2>2 DEF QueueAhead
    <2>4. Complete(v, q, S, m.id)
      <3> SUFFICES ASSUME NEW r \in S, r > m.id
                   PROVE  Carried(v, r) \/ Queued(q, r)
        BY DEF Complete
      <3>1. r > base /\ r # m.id
        BY <1>3, <1>12
      <3> QED
        BY <1>5, <1>10, <3>1 DEF Complete
    <2>5. ASSUME NEW r \in S, r <= m.id, r > base
          PROVE  m.patch /\ m.id = r
      <3>1. ~Queued(q, r)
        BY <1>3, <1>4, <2>2, <2>5 DEF Queued
      <3>2. ~Carried(v, r)
        BY <1>1, <1>2, <1>3, <1>6, <1>7, <2>5 DEF Carried
      <3> QED
        BY <1>5, <1>10, <2>5, <3>1, <3>2 DEF Complete
    <2>6. m.patch => m.id \in S
      BY <1>3, <1>5 DEF WireAhead, m
    <2>7. \A r \in S : r <= m.id <=> r <= base \/ (m.patch /\ r = m.id)
      BY <1>3, <1>12, <2>5
    <2>8. Stream(v, q, S, m.id)
      BY <1>9, <2>1, <2>3, <2>4 DEF Stream
    <2> QED
      BY <1>1, <1>3, <1>12, <2>6, <2>7, <2>8 DEF v
  <1> QED
    BY <1>3, <1>11, <1>12

(***************************************************************************)
(* The invariant.                                                          *)
(***************************************************************************)
\* The revisions that a subscription is sent.
Told == scope \ silent

\* The subscription, by how far it is set up.
Following ==
    /\ link \in {"down", "closed"} => wire = <<>> /\ sub.queue = <<>>
    /\ link = "closed" => live
    /\ link \in {"dumped", "offered"} =>
            /\ wire = <<>>
            /\ Stream(<<>>, sub.queue, Told, dump)
            /\ cache.id <= dump
    /\ link = "open" => live /\ Stream(wire, sub.queue, Told, cache.id)

\* The cache never claims a revision that does not exist, and claims none that
\* an answer could name before it holds a dump.
CacheBounded ==
    /\ cache.id <= seq
    /\ ~live => cache.id < First

\* What the header of an answer covers.
CallsCovered ==
    \A c \in Call :
        /\ call[c] \in {"read", "answered", "waiting", "done"} =>
                own[c] <= header[c] /\ header[c] >= First
        /\ call[c] = "done" => live /\ own[c] <= cache.id
        /\ own[c] \notin silent

IInv ==
    TypeOK /\ Following /\ CacheBounded /\ CacheConsistent /\ CallsCovered

\* What the type says of the parts of records.
LEMMA Typed ==
    ASSUME TypeOK
    PROVE  /\ seq \in Nat /\ First <= seq /\ seq <= MaxRevision
           /\ scope \in SUBSET (1..seq) /\ dump \in 0..seq
           /\ silent \in SUBSET scope /\ Told \in SUBSET (1..seq)
           /\ sub.queue \in Seq(1..seq) /\ sub.rev \in 0..seq /\ sub.seen \in Nat
           /\ wire \in Seq(Message(seq))
           /\ cache.id \in Nat /\ cache.shows \in SUBSET (1..seq)
           /\ sync.id \in 0..seq /\ sync.version \in Nat
  BY DEF TypeOK, Told

\* The interface starts with nothing, or with what an earlier visit left.
LEMMA InitInv == Init => IInv
  <1> SUFFICES ASSUME Init PROVE IInv
    OBVIOUS
  <1>1. cache \in [id : Nat, shows : SUBSET (1..seq)] /\ cache.id \in {0, 1}
    <2>1. CASE cache = [id |-> 0, shows |-> {}]
      BY <2>1 DEF Init
    <2>2. CASE \E old \in 0..First : cache = [id |-> 1, shows |-> 1..old]
      BY <2>2 DEF Init
    <2> QED
      BY <2>1, <2>2 DEF Init
  <1>2. TypeOK
    <2>1. /\ seq \in First..MaxRevision /\ scope \subseteq 1..seq
          /\ dump \in 0..seq /\ drops \in 0..MaxDrops /\ live \in BOOLEAN
          /\ link \in {"down", "dumped", "offered", "open", "closed"}
          /\ silent \subseteq scope
      <3>1. seq = First /\ scope = 1..First /\ dump = 0 /\ drops = 0
        BY DEF Init
      <3>2. First \in First..MaxRevision /\ 0 \in 0..First /\ 0 \in 0..MaxDrops
        OBVIOUS
      <3> QED
        BY <3>1, <3>2 DEF Init
    <2>2. /\ sync \in [id : 0..seq, version : Nat]
          /\ sub \in [rev : 0..seq, queue : Seq(1..seq), seen : Nat]
      <3>1. seq \in 0..seq /\ 0 \in 0..seq /\ <<>> \in Seq(1..seq) /\ seq = First
        BY <2>1 DEF Init
      <3> QED
        BY <3>1 DEF Init
    <2>3. wire \in Seq(Message(seq))
      BY DEF Init
    <2>4. /\ call \in [Call -> Phase]
          /\ own \in [Call -> 0..seq] /\ header \in [Call -> 0..seq]
      BY DEF Init, Phase
    <2> QED
      BY <1>1, <2>1, <2>2, <2>3, <2>4 DEF TypeOK
  <1>3. Following /\ CacheBounded /\ CacheConsistent /\ CallsCovered
    BY <1>1 DEF Init, Following, CacheBounded, CacheConsistent, CallsCovered
  <1> QED
    BY <1>2, <1>3 DEF IInv

\* A commit, whoever makes it, extends the stream of a subscription.
LEMMA CommitStream ==
    ASSUME IInv, NEW touches \in BOOLEAN, Commit(touches),
           UNCHANGED <<sync, link, dump, wire, cache, live, header, drops>>,
           own' \in [Call -> 0..seq'], call' \in [Call -> Phase]
    PROVE  TypeOK' /\ Following' /\ CacheBounded' /\ CacheConsistent'
  <1>1. /\ seq' = seq + 1 /\ seq' \in First..MaxRevision
        /\ 1..seq \subseteq 1..seq' /\ 0..seq \subseteq 0..seq'
    <2>1. seq \in Nat /\ First <= seq /\ seq < MaxRevision /\ seq' = seq + 1
      BY Typed DEF IInv, Commit
    <2> QED
      BY <2>1
  <1>2. wire \in Seq(Message(seq'))
    <2>1. Message(seq) \subseteq Message(seq')
      BY <1>1 DEF Message
    <2> QED
      BY <2>1, Typed, SeqMono DEF IInv
  <1>3. sub.queue \in Seq(1..seq')
    BY <1>1, Typed, SeqMono DEF IInv
  <1>4. /\ header' \in [Call -> 0..seq'] /\ sync' \in [id : 0..seq', version : Nat]
        /\ cache' \in [id : Nat, shows : SUBSET (1..seq')] /\ dump' \in 0..seq'
    BY <1>1 DEF IInv, TypeOK
  <1>0. silent' = silent /\ silent \in SUBSET scope /\ Told \in SUBSET (1..seq)
    BY Typed DEF Commit, IInv
  <1>5. ASSUME scope' \in SUBSET (1..seq'), scope \subseteq scope',
               sub' \in [rev : 0..seq', queue : Seq(1..seq'), seen : Nat]
        PROVE  TypeOK'
    BY <1>0, <1>1, <1>2, <1>4, <1>5 DEF IInv, TypeOK
  <1>6. CacheBounded'
    BY <1>1, Typed DEF IInv, CacheBounded
  <1>7. ASSUME scope' \in {scope, scope \cup {seq + 1}}
        PROVE  CacheConsistent'
    <2>1. cache.id \in Nat /\ seq \in Nat /\ cache.id < seq + 1
      BY Typed DEF IInv, CacheBounded
    <2>2. UpTo(cache.id)' = UpTo(cache.id)
      BY <1>7, <2>1 DEF UpTo
    <2> QED
      BY <1>0, <2>2 DEF IInv, CacheConsistent
  <1>8. CASE touches /\ Subscribed
    <2>1. /\ scope' = scope \cup {seq + 1}
          /\ sub' = [sub EXCEPT !.queue = Append(@, seq + 1)]
      BY <1>8 DEF Commit
    <2>0. Told' = Told \cup {seq + 1}
      <3>1. seq + 1 \notin silent
        BY <1>0, Typed DEF IInv
      <3> QED
        BY <1>0, <2>1, <3>1 DEF Told
    <2>2. sub'.queue = Append(sub.queue, seq + 1)
      BY <2>1 DEF IInv, TypeOK
    <2>3. Append(sub.queue, seq + 1) \in Seq(1..seq')
      BY <1>1, <1>3, Typed, AppendFacts DEF IInv
    <2>4. sub' \in [rev : 0..seq', queue : Seq(1..seq'), seen : Nat]
      BY <1>1, <2>1, <2>3 DEF IInv, TypeOK
    <2>5. TypeOK' /\ CacheConsistent'
      <3>1. scope \in SUBSET (1..seq) /\ seq + 1 \in 1..seq'
        BY <1>1, Typed DEF IInv
      <3>2. scope' \in SUBSET (1..seq')
        BY <1>1, <2>1, <3>1
      <3>3. TypeOK'
        BY <1>5, <2>1, <2>4, <3>2
      <3>4. CacheConsistent'
        BY <1>7, <2>1
      <3> QED
        BY <3>3, <3>4
    <2>6. CASE link \in {"dumped", "offered"}
      <3>1. Stream(<<>>, sub.queue, Told, dump)
        BY <2>6 DEF IInv, Following
      <3>2. Stream(<<>>, Append(sub.queue, seq + 1), Told \cup {seq + 1}, dump)
        <4>1. <<>> \in Seq(Message(seq))
          OBVIOUS
        <4> QED
          BY <3>1, <4>1, Typed, StreamCommit DEF IInv
      <3>3. Following'
        BY <2>0, <2>1, <2>2, <2>6, <3>2 DEF IInv, Following
      <3> QED
        BY <1>6, <2>5, <3>3
    <2>7. CASE link = "open"
      <3>1. Stream(wire, sub.queue, Told, cache.id) /\ cache.id \in 0..seq
        BY <2>7, Typed DEF IInv, Following, CacheBounded
      <3>2. Stream(wire, Append(sub.queue, seq + 1), Told \cup {seq + 1}, cache.id)
        BY <3>1, Typed, StreamCommit DEF IInv
      <3>3. Following'
        BY <2>0, <2>1, <2>2, <2>7, <3>2 DEF IInv, Following
      <3> QED
        BY <1>6, <2>5, <3>3
    <2> QED
      BY <1>8, <2>6, <2>7 DEF Subscribed
  <1>9. CASE touches /\ ~Subscribed
    <2>1. /\ scope' = scope \cup {seq + 1} /\ sub' = sub
          /\ link \in {"down", "closed"}
      BY <1>9 DEF Commit, Subscribed, IInv, TypeOK
    <2>2. TypeOK'
      BY <1>1, <1>3, <1>5, <2>1 DEF IInv, TypeOK
    <2> QED
      BY <1>6, <1>7, <2>1, <2>2 DEF IInv, Following
  <1>10. CASE ~touches
    <2>1. scope' = scope /\ sub' = sub
      BY <1>10 DEF Commit
    <2>2. TypeOK'
      BY <1>1, <1>3, <1>5, <2>1 DEF IInv, TypeOK
    <2>3. Told' = Told
      BY <1>0, <2>1 DEF Told
    <2> QED
      BY <1>6, <1>7, <2>1, <2>2, <2>3 DEF IInv, Following
  <1> QED
    BY <1>8, <1>9, <1>10

\* A revision that is not broadcast leaves every stream as it is.
LEMMA SilentStep ==
    ASSUME IInv, CommitSilent
    PROVE  IInv'
  <1>1. /\ seq \in Nat /\ First <= seq /\ seq < MaxRevision /\ seq' = seq + 1
        /\ scope' = scope \cup {seq + 1} /\ silent' = silent \cup {seq + 1}
        /\ UNCHANGED <<sync, link, sub, dump, wire, cache, live, call, own, header,
                       drops>>
        /\ scope \in SUBSET (1..seq) /\ silent \in SUBSET scope
        /\ cache.id \in Nat /\ cache.id <= seq
    BY Typed DEF IInv, CommitSilent, calls, CacheBounded
  <1>2. 1..seq \subseteq 1..seq' /\ 0..seq \subseteq 0..seq'
    BY <1>1
  <1>3. TypeOK'
    <2>1. Message(seq) \subseteq Message(seq')
      BY <1>2 DEF Message
    <2>2. wire' \in Seq(Message(seq'))
      BY <1>1, <2>1, Typed, SeqMono DEF IInv
    <2>3. sub.queue \in Seq(1..seq')
      BY <1>2, Typed, SeqMono DEF IInv
    <2>4. sub' \in [rev : 0..seq', queue : Seq(1..seq'), seen : Nat]
      BY <1>1, <1>2, <2>3 DEF IInv, TypeOK
    <2>5. /\ header' \in [Call -> 0..seq'] /\ own' \in [Call -> 0..seq']
          /\ sync' \in [id : 0..seq', version : Nat] /\ dump' \in 0..seq'
          /\ cache' \in [id : Nat, shows : SUBSET (1..seq')]
      BY <1>1, <1>2 DEF IInv, TypeOK
    <2>6. seq' \in First..MaxRevision /\ scope' \subseteq 1..seq'
          /\ silent' \subseteq scope'
      BY <1>1
    <2> QED
      BY <1>1, <2>2, <2>4, <2>5, <2>6 DEF IInv, TypeOK
  <1>4. Told' = Told
    BY <1>1 DEF Told
  <1>5. UpTo(cache.id)' = UpTo(cache.id)
    BY <1>1 DEF UpTo
  <1>6. Following' /\ CacheBounded'
    BY <1>1, <1>4 DEF IInv, Following, CacheBounded
  <1>7. CacheConsistent'
    BY <1>1, <1>5 DEF IInv, CacheConsistent
  <1>8. CallsCovered'
    <2>1. \A c \in Call : own[c] \in 0..seq
      BY DEF IInv, TypeOK
    <2>2. \A c \in Call : own[c] # seq + 1
      BY <1>1, <2>1
    <2> QED
      BY <1>1, <2>2 DEF IInv, CallsCovered
  <1> QED
    BY <1>3, <1>6, <1>7, <1>8 DEF IInv

\* The steps of a call.
LEMMA CallSteps ==
    ASSUME IInv, NEW c \in Call,
           \/ Handle(c)
           \/ \E touches \in BOOLEAN : HandleWrites(c, touches)
           \/ ReadSequence(c)
           \/ SendReplace(c)
           \/ Answered(c)
           \/ Resolve(c)
    PROVE  IInv'
  <1>1. CASE Handle(c)
    BY <1>1 DEF Handle, server, IInv, TypeOK, Phase, Following, CacheBounded,
                CacheConsistent, UpTo, Told, CallsCovered
  <1>2. ASSUME NEW touches \in BOOLEAN, HandleWrites(c, touches) PROVE IInv'
    <2>1. /\ Commit(touches)
          /\ UNCHANGED <<sync, link, dump, wire, cache, live, header, drops>>
      BY <1>2 DEF HandleWrites
    <2>2. own' \in [Call -> 0..seq'] /\ call' \in [Call -> Phase]
      <3>1. seq \in Nat /\ seq' = seq + 1
        BY <2>1, Typed DEF Commit, IInv
      <3>2. 0..seq \subseteq 0..seq' /\ seq + 1 \in 0..seq'
        BY <3>1
      <3>3. own \in [Call -> 0..seq'] /\ call \in [Call -> Phase]
        BY <3>2 DEF IInv, TypeOK
      <3> QED
        BY <1>2, <3>2, <3>3 DEF HandleWrites, Phase
    <2>3. TypeOK' /\ Following' /\ CacheBounded' /\ CacheConsistent'
      BY <2>1, <2>2, CommitStream
    <2>4. CallsCovered'
      <3>1. seq + 1 \notin silent /\ silent' = silent
        BY <2>1, Typed DEF Commit, IInv
      <3> QED
        BY <1>2, <3>1 DEF HandleWrites, IInv, TypeOK, CallsCovered
    <2> QED
      BY <2>3, <2>4 DEF IInv
  <1>3. CASE ReadSequence(c)
    <2>1. TypeOK'
      <3>1. seq \in 0..seq /\ header \in [Call -> 0..seq]
            /\ call \in [Call -> Phase] /\ "read" \in Phase
        BY Typed DEF IInv, TypeOK, Phase
      <3>2. header' \in [Call -> 0..seq] /\ call' \in [Call -> Phase]
        BY <1>3, <3>1 DEF ReadSequence
      <3> QED
        BY <1>3, <3>2 DEF ReadSequence, server, IInv, TypeOK
    <2>2. Following' /\ CacheBounded' /\ CacheConsistent'
      BY <1>3 DEF ReadSequence, server, IInv, Following, CacheBounded,
                  CacheConsistent, UpTo, Told
    <2>3. CallsCovered'
      <3>1. own[c] \in 0..seq /\ seq >= First
        BY Typed DEF IInv, TypeOK
      <3> QED
        BY <1>3, <3>1 DEF ReadSequence, server, IInv, TypeOK, CallsCovered
    <2> QED
      BY <2>1, <2>2, <2>3 DEF IInv
  <1>4. CASE SendReplace(c)
    <2>1. TypeOK'
      <3>1. /\ seq' = seq /\ scope' = scope /\ silent' = silent
            /\ link' = link /\ sub' = sub
            /\ dump' = dump /\ wire' = wire /\ cache' = cache /\ live' = live
            /\ own' = own /\ header' = header /\ drops' = drops
        BY <1>4 DEF SendReplace
      <3>2. sync' \in [id : 0..seq, version : Nat]
        <4>1. header[c] \in 0..seq /\ sync.version + 1 \in Nat
          BY DEF IInv, TypeOK
        <4> QED
          BY <1>4, <4>1 DEF SendReplace
      <3>3. call' \in [Call -> Phase]
        <4>1. call \in [Call -> Phase]
          BY DEF IInv, TypeOK
        <4> QED
          BY <1>4, <4>1 DEF SendReplace, Phase
      <3> QED
        BY <3>1, <3>2, <3>3 DEF IInv, TypeOK
    <2>2. Following' /\ CacheBounded' /\ CacheConsistent' /\ CallsCovered'
      BY <1>4 DEF SendReplace, IInv, TypeOK, Following, CacheBounded,
                  CacheConsistent, UpTo, Told, CallsCovered
    <2> QED
      BY <2>1, <2>2 DEF IInv
  <1>5. CASE Answered(c)
    BY <1>5 DEF Answered, server, IInv, TypeOK, Phase, Following, CacheBounded,
                CacheConsistent, UpTo, Told, CallsCovered
  <1>6. CASE Resolve(c)
    <2>1. TypeOK' /\ Following' /\ CacheBounded' /\ CacheConsistent'
      BY <1>6 DEF Resolve, server, IInv, TypeOK, Phase, Following, CacheBounded,
                  CacheConsistent, UpTo, Told
    <2>2. live /\ own[c] <= cache.id
      <3>1. /\ own[c] \in Nat /\ header[c] \in Nat /\ cache.id \in Nat
            /\ cache.id >= header[c]
        BY <1>6, Typed DEF Resolve, IInv, TypeOK
      <3>2. own[c] <= header[c] /\ header[c] >= First
        BY <1>6 DEF Resolve, IInv, CallsCovered
      <3> QED
        BY <3>1, <3>2 DEF IInv, CacheBounded
    <2>3. CallsCovered'
      BY <1>6, <2>2 DEF Resolve, server, IInv, TypeOK, CallsCovered
    <2> QED
      BY <2>1, <2>3 DEF IInv
  <1> QED
    BY <1>1, <1>2, <1>3, <1>4, <1>5, <1>6

\* The steps of the subscription on the server.
LEMMA SubscribeSteps ==
    ASSUME IInv, DumpAndSub \/ SubscribeSync
    PROVE  IInv'
  <1> USE DEF IInv
  <1>1. CASE DumpAndSub
    <2>1. sub'.queue = <<>> /\ dump' = seq /\ link' = "dumped" /\ wire = <<>>
      BY <1>1 DEF DumpAndSub, TypeOK, Following
    <2>2. TypeOK'
      <3>1. sub' \in [rev : 0..seq, queue : Seq(1..seq), seen : Nat]
        <4>1. <<>> \in Seq(1..seq) /\ seq \in 0..seq
          BY Typed
        <4> QED
          BY <1>1, <4>1 DEF DumpAndSub, TypeOK
      <3> QED
        BY <1>1, <3>1, Typed DEF DumpAndSub, server, calls, TypeOK
    <2>3. Stream(<<>>, <<>>, Told, seq)
      BY Typed DEF Stream, WireAhead, QueueAhead, WireFirst, Complete
    <2>4. Following'
      BY <1>1, <2>1, <2>3 DEF DumpAndSub, server, Following, CacheBounded, Told
    <2>5. CacheBounded' /\ CacheConsistent' /\ CallsCovered'
      BY <1>1 DEF DumpAndSub, server, calls, CacheBounded, CacheConsistent,
                  UpTo, Told, CallsCovered
    <2> QED
      BY <2>2, <2>4, <2>5
  <1>2. CASE SubscribeSync
    <2>1. sub'.queue = sub.queue
      BY <1>2 DEF SubscribeSync, TypeOK
    <2>2. TypeOK'
      BY <1>2, Typed DEF SubscribeSync, server, calls, TypeOK
    <2>3. Following' /\ CacheBounded' /\ CacheConsistent' /\ CallsCovered'
      BY <1>2, <2>1 DEF SubscribeSync, server, calls, Following, CacheBounded,
                        CacheConsistent, UpTo, Told, CallsCovered
    <2> QED
      BY <2>2, <2>3
  <1> QED
    BY <1>1, <1>2

\* The websocket task sends a revision, or a synthetic one.
LEMMA RecvSteps ==
    ASSUME IInv, RecvRevision \/ RecvSync
    PROVE  IInv'
  <1> USE DEF IInv
  <1>1. /\ link = "open" /\ live /\ cache.id \in 0..seq
        /\ Stream(wire, sub.queue, Told, cache.id)
        /\ UNCHANGED <<server, link, dump, cache, live, calls, drops>>
    BY Typed DEF RecvRevision, RecvSync, Following, CacheBounded
  <1>2. ASSUME sub' \in [rev : 0..seq, queue : Seq(1..seq), seen : Nat],
               wire' \in Seq(Message(seq)),
               Stream(wire', sub'.queue, Told, cache.id)
        PROVE  IInv'
    <2>1. TypeOK'
      BY <1>1, <1>2 DEF server, calls, TypeOK
    <2>2. Following' /\ CacheBounded' /\ CacheConsistent' /\ CallsCovered'
      BY <1>1, <1>2 DEF server, calls, Following, CacheBounded, CacheConsistent,
                        UpTo, Told, CallsCovered
    <2> QED
      BY <2>1, <2>2
  <1>3. ASSUME sub.queue # <<>>
        PROVE  /\ Append(wire, Real(Head(sub.queue))) \in Seq(Message(seq))
               /\ Stream(Append(wire, Real(Head(sub.queue))), Tail(sub.queue), Told,
                         cache.id)
               /\ Head(sub.queue) \in 0..seq /\ Tail(sub.queue) \in Seq(1..seq)
    <2>1. Head(sub.queue) \in 0..seq /\ Tail(sub.queue) \in Seq(1..seq)
      <3>1. sub.queue \in Seq(1..seq) /\ 1..seq \subseteq 0..seq
        BY Typed
      <3>2. Head(sub.queue) \in 1..seq /\ Tail(sub.queue) \in Seq(1..seq)
        BY <1>3, <3>1, TailFacts
      <3> QED
        BY <3>1, <3>2
    <2> QED
      BY <1>1, <1>3, <2>1, Typed, StreamSend
  <1>4. CASE RecvRevision
    <2>1. /\ sub.queue # <<>>
          /\ sub' = [sub EXCEPT !.rev = Head(sub.queue), !.queue = Tail(sub.queue)]
          /\ wire' = Append(wire, Real(Head(sub.queue)))
      BY <1>4 DEF RecvRevision
    <2>2. /\ sub' \in [rev : 0..seq, queue : Seq(1..seq), seen : Nat]
          /\ sub'.queue = Tail(sub.queue)
      BY <1>3, <2>1 DEF TypeOK
    <2> QED
      BY <1>2, <1>3, <2>1, <2>2
  <1>5. CASE RecvSync
    <2>1. CASE sync.id <= sub.rev
      <3>1. sub' = [sub EXCEPT !.seen = sync.version] /\ wire' = wire
        BY <1>5, <2>1 DEF RecvSync
      <3>2. /\ sub' \in [rev : 0..seq, queue : Seq(1..seq), seen : Nat]
            /\ sub'.queue = sub.queue
        BY <3>1, Typed DEF TypeOK
      <3> QED
        BY <1>1, <1>2, <3>1, <3>2, Typed
    <2>2. CASE ~(sync.id <= sub.rev) /\ sub.queue # <<>>
      <3>1. /\ sub' = [rev |-> Head(sub.queue), queue |-> Tail(sub.queue),
                       seen |-> sync.version]
            /\ wire' = Append(wire, Real(Head(sub.queue)))
        BY <1>5, <2>2 DEF RecvSync
      <3>2. /\ sub' \in [rev : 0..seq, queue : Seq(1..seq), seen : Nat]
            /\ sub'.queue = Tail(sub.queue)
        BY <1>3, <2>2, <3>1, Typed
      <3> QED
        BY <1>2, <1>3, <2>2, <3>1, <3>2
    <2>3. CASE ~(sync.id <= sub.rev) /\ sub.queue = <<>>
      <3>1. /\ sub' = [sub EXCEPT !.seen = sync.version]
            /\ wire' = Append(wire, Synthetic(sync.id))
        BY <1>5, <2>3 DEF RecvSync
      <3>2. /\ sub' \in [rev : 0..seq, queue : Seq(1..seq), seen : Nat]
            /\ sub'.queue = <<>>
        BY <2>3, <3>1, Typed DEF TypeOK
      <3>3. Stream(wire, <<>>, Told, cache.id)
        BY <1>1, <2>3
      <3>4. /\ Stream(Append(wire, Synthetic(sync.id)), <<>>, Told, cache.id)
            /\ Append(wire, Synthetic(sync.id)) \in Seq(Message(seq))
        BY <1>1, <3>3, Typed, StreamSynthetic
      <3> QED
        BY <1>2, <3>1, <3>2, <3>4
    <2> QED
      BY <2>1, <2>2, <2>3
  <1> QED
    BY <1>4, <1>5

\* A connection breaks or is closed, or the answer of subscribe opens it.
LEMMA LinkSteps ==
    ASSUME IInv, DumpArrives \/ Break \/ Close \/ LogIn
    PROVE  IInv'
  <1> USE DEF IInv
  <1>1. CASE DumpArrives
    <2>1. /\ link = "offered" /\ link' = "open" /\ wire' = <<>> /\ live' = TRUE
          /\ cache' = [id |-> dump, shows |-> UpTo(dump)]
          /\ UNCHANGED <<seq, scope, silent, sync, sub, dump, call, own, header,
                         drops>>
      BY <1>1 DEF DumpArrives, server, calls
    <2>2. cache'.id = dump /\ cache'.shows = UpTo(dump)
      BY <2>1
    <2>3. dump \in Nat /\ dump <= seq /\ UpTo(dump) \in SUBSET (1..seq)
      BY Typed DEF UpTo
    <2>4. TypeOK'
      <3>1. wire' \in Seq(Message(seq'))
        BY <2>1
      <3>2. cache' \in [id : Nat, shows : SUBSET (1..seq)]
        BY <2>1, <2>3
      <3> QED
        BY <2>1, <3>1, <3>2 DEF TypeOK
    <2>5. Following'
      BY <2>1, <2>2 DEF Following, Told
    <2>6. CacheBounded' /\ CacheConsistent'
      BY <2>1, <2>2, <2>3 DEF CacheBounded, CacheConsistent, UpTo, Told
    <2>7. CallsCovered'
      <3>1. cache.id \in Nat /\ cache.id <= dump /\ \A c \in Call : own[c] \in Nat
        BY <2>1, Typed DEF Following, TypeOK
      <3> QED
        BY <2>1, <2>2, <2>3, <3>1 DEF CallsCovered
    <2> QED
      BY <2>4, <2>5, <2>6, <2>7
  <1>2. CASE Break
    <2>1. /\ link' = "down" /\ wire' = <<>> /\ sub' = [sub EXCEPT !.queue = <<>>]
          /\ drops < MaxDrops /\ drops' = drops + 1
          /\ UNCHANGED <<seq, scope, silent, sync, dump, cache, live, call, own,
                         header>>
      BY <1>2 DEF Break, server, calls
    <2>2. TypeOK'
      <3>1. <<>> \in Seq(1..seq) /\ wire' \in Seq(Message(seq'))
        BY <2>1
      <3>2. sub' \in [rev : 0..seq, queue : Seq(1..seq), seen : Nat]
        BY <2>1, <3>1 DEF TypeOK
      <3>3. drops' \in 0..MaxDrops
        BY <2>1 DEF TypeOK
      <3> QED
        BY <2>1, <3>1, <3>2, <3>3 DEF TypeOK
    <2>3. sub'.queue = <<>>
      BY <2>1 DEF TypeOK
    <2>4. Following' /\ CacheBounded' /\ CacheConsistent' /\ CallsCovered'
      BY <2>1, <2>3 DEF Following, CacheBounded, CacheConsistent, UpTo, Told,
                        CallsCovered
    <2> QED
      BY <2>2, <2>4
  <1>3. CASE Close \/ LogIn
    <2>1. /\ link' \in {"down", "closed"} /\ live
          /\ wire = <<>> /\ sub.queue = <<>> /\ drops' \in 0..MaxDrops
      BY <1>3 DEF Close, LogIn, TypeOK, Following
    <2>2. UNCHANGED <<seq, scope, silent, sync, sub, dump, wire, cache, live, call,
                      own, header>>
      BY <1>3 DEF Close, LogIn, server, calls
    <2>3. TypeOK'
      BY <2>1, <2>2 DEF TypeOK
    <2>4. Following' /\ CacheBounded' /\ CacheConsistent' /\ CallsCovered'
      BY <2>1, <2>2 DEF Following, Told, CacheBounded, CacheConsistent, UpTo,
                        CallsCovered
    <2> QED
      BY <2>3, <2>4
  <1> QED
    BY <1>1, <1>2, <1>3

\* The interface applies a message, or skips one it is past.
LEMMA DeliverStep ==
    ASSUME IInv, Deliver
    PROVE  IInv'
  <1> USE DEF IInv
  <1> DEFINE m == Head(wire)
  <1>1. /\ link = "open" /\ live /\ cache.id \in 0..seq /\ wire # <<>>
        /\ Stream(wire, sub.queue, Told, cache.id) /\ wire' = Tail(wire)
        /\ UNCHANGED <<seq, scope, silent, sync, link, sub, dump, live, call, own,
                       header, drops>>
    BY Typed DEF Deliver, server, calls, Following, CacheBounded
  <1>2. /\ Tail(wire) \in Seq(Message(seq)) /\ m.id \in 0..seq
        /\ m.patch \in BOOLEAN
        /\ m.id <= cache.id => Stream(Tail(wire), sub.queue, Told, cache.id)
        /\ m.id > cache.id =>
              /\ Stream(Tail(wire), sub.queue, Told, m.id)
              /\ m.patch => m.id \in scope
              /\ \A r \in Told : r <= m.id <=>
                      r <= cache.id \/ (m.patch /\ r = m.id)
    <2>1. /\ seq \in Nat /\ Told \in SUBSET (1..seq)
          /\ wire \in Seq(Message(seq)) /\ sub.queue \in Seq(1..seq)
      BY Typed
    <2> HIDE DEF IInv
    <2>2. /\ Tail(wire) \in Seq(Message(seq)) /\ m.id \in 0..seq
          /\ m.patch \in BOOLEAN
          /\ m.id <= cache.id => Stream(Tail(wire), sub.queue, Told, cache.id)
          /\ m.id > cache.id => Stream(Tail(wire), sub.queue, Told, m.id)
      BY <1>1, <2>1, StreamDeliver
    <2>3. m.id > cache.id =>
            /\ m.patch => m.id \in Told
            /\ \A r \in Told : r <= m.id <=>
                    r <= cache.id \/ (m.patch /\ r = m.id)
      BY <1>1, <2>1, StreamDeliver
    <2>4. Told \subseteq scope
      BY DEF Told
    <2> QED
      BY <2>2, <2>3, <2>4
  <1>3. /\ cache.shows \subseteq UpTo(cache.id)
        /\ UpTo(cache.id) \ cache.shows \subseteq silent
    BY <1>1 DEF CacheConsistent
  <1>4. cache' = IF m.id < cache.id + 1 THEN cache
                 ELSE [id |-> m.id, shows |-> cache.shows \cup
                                        (IF m.patch THEN {m.id} ELSE {})]
    BY DEF Deliver
  <1> HIDE DEF m
  <1>5. CASE m.id < cache.id + 1
    <2>1. cache' = cache /\ m.id <= cache.id
      BY <1>1, <1>2, <1>4, <1>5
    <2>2. TypeOK'
      BY <1>1, <1>2, <2>1 DEF TypeOK
    <2>3. Following' /\ CacheBounded' /\ CacheConsistent' /\ CallsCovered'
      BY <1>1, <1>2, <2>1 DEF Following, CacheBounded, CacheConsistent, UpTo, Told,
                              CallsCovered
    <2> QED
      BY <2>2, <2>3
  <1>6. CASE ~(m.id < cache.id + 1)
    <2>1. m.id > cache.id /\ m.id \in Nat /\ m.id <= seq
      BY <1>1, <1>2, <1>6, Typed
    <2>2. /\ cache' = [id |-> m.id, shows |-> cache'.shows] /\ cache'.id = m.id
          /\ cache'.shows = cache.shows \cup (IF m.patch THEN {m.id} ELSE {})
      BY <1>4, <1>6
    <2>3. /\ cache'.shows \subseteq UpTo(m.id)
          /\ UpTo(m.id) \ cache'.shows \subseteq silent
      <3>1. cache.id \in Nat /\ scope \in SUBSET (1..seq) /\ seq \in Nat
        BY Typed
      <3>2. ASSUME NEW x \in cache'.shows PROVE x \in UpTo(m.id)
        <4>1. CASE x \in cache.shows
          <5>1. x \in scope /\ x <= cache.id
            BY <1>3, <4>1 DEF UpTo
          <5>2. x \in Nat
            BY <3>1, <5>1
          <5>3. x <= m.id
            BY <2>1, <3>1, <5>1, <5>2
          <5> QED
            BY <5>1, <5>3 DEF UpTo
        <4>2. CASE m.patch /\ x = m.id
          BY <1>2, <2>1, <3>1, <4>2 DEF UpTo
        <4> QED
          BY <2>2, <3>2, <4>1, <4>2
      <3>3. ASSUME NEW x \in UpTo(m.id), x \notin silent PROVE x \in cache'.shows
        <4>1. x \in Told /\ x \in scope /\ x <= m.id
          BY <3>3 DEF UpTo, Told
        <4>2. x <= cache.id \/ (m.patch /\ x = m.id)
          BY <1>2, <2>1, <4>1
        <4>3. CASE x <= cache.id
          BY <1>3, <2>2, <3>3, <4>1, <4>3 DEF UpTo
        <4>4. CASE m.patch /\ x = m.id
          BY <2>2, <4>4
        <4> QED
          BY <4>2, <4>3, <4>4
      <3> QED
        BY <3>2, <3>3
    <2>4. TypeOK'
      <3>1. UpTo(m.id) \in SUBSET (1..seq)
        BY Typed DEF UpTo
      <3>2. cache' \in [id : Nat, shows : SUBSET (1..seq)]
        BY <2>1, <2>2, <2>3, <3>1
      <3> QED
        BY <1>1, <1>2, <3>2 DEF TypeOK
    <2>5. Following' /\ CacheBounded' /\ CacheConsistent'
      <3>1. Told' = Told /\ UpTo(cache.id)' = UpTo(m.id)
        BY <1>1, <2>2 DEF Told, UpTo
      <3>2. Following' /\ CacheBounded'
        BY <1>1, <1>2, <2>1, <2>2, <3>1 DEF Following, CacheBounded
      <3>3. CacheConsistent'
        BY <1>1, <2>3, <3>1 DEF CacheConsistent
      <3> QED
        BY <3>2, <3>3
    <2>6. CallsCovered'
      <3>1. \A c \in Call : own[c] \in Nat
        BY Typed DEF TypeOK
      <3> QED
        BY <1>1, <2>1, <2>2, <3>1 DEF CallsCovered
    <2> QED
      BY <2>4, <2>5, <2>6
  <1> QED
    BY <1>5, <1>6

\* Every step preserves the invariant.
LEMMA NextInv == IInv /\ [Next]_vars => IInv'
  <1> SUFFICES ASSUME IInv, [Next]_vars PROVE IInv'
    OBVIOUS
  <1>1. ASSUME NEW touches \in BOOLEAN, CommitElsewhere(touches) PROVE IInv'
    <2>1. /\ Commit(touches) /\ UNCHANGED calls
          /\ UNCHANGED <<sync, link, dump, wire, cache, live, header, drops>>
      BY <1>1 DEF CommitElsewhere, calls
    <2>2. own' \in [Call -> 0..seq'] /\ call' \in [Call -> Phase]
      <3>1. seq \in Nat /\ seq' = seq + 1
        BY <2>1, Typed DEF Commit, IInv
      <3>2. 0..seq \subseteq 0..seq'
        BY <3>1
      <3> QED
        BY <2>1, <3>2 DEF calls, IInv, TypeOK
    <2>3. TypeOK' /\ Following' /\ CacheBounded' /\ CacheConsistent'
      BY <2>1, <2>2, CommitStream
    <2>4. CallsCovered'
      BY <2>1 DEF Commit, calls, IInv, CallsCovered
    <2> QED
      BY <2>3, <2>4 DEF IInv
  <1>2. CASE UNCHANGED vars
    BY <1>2 DEF vars, IInv, TypeOK, Following, CacheBounded, CacheConsistent,
                UpTo, Told, CallsCovered
  <1> QED
    BY <1>1, <1>2, SilentStep, CallSteps, SubscribeSteps, RecvSteps, LinkSteps,
       DeliverStep
       DEF Next

\* A cache that shows all up to a revision shows all up to an earlier one.
LEMMA Reads == IInv => ReadYourWrites
  <1> SUFFICES ASSUME IInv, NEW c \in Call, call[c] = "done"
               PROVE  /\ live /\ own[c] <= cache.id
                      /\ UpTo(own[c]) \ cache.shows \subseteq silent \ {own[c]}
    BY DEF ReadYourWrites
  <1>1. /\ live /\ own[c] <= cache.id /\ own[c] \notin silent
        /\ UpTo(cache.id) \ cache.shows \subseteq silent
    BY DEF IInv, CallsCovered, CacheConsistent
  <1>2. own[c] \in Nat /\ cache.id \in Nat /\ \A r \in scope : r \in Nat
    BY Typed DEF IInv, TypeOK
  <1>3. UpTo(own[c]) \subseteq UpTo(cache.id)
    BY <1>1, <1>2 DEF UpTo
  <1> QED
    BY <1>1, <1>3

\* The invariant holds throughout.
LEMMA Invariance == Spec => []IInv
  BY InitInv, NextInv, PTL DEF Spec

(***************************************************************************)
(* The theorems.                                                           *)
(***************************************************************************)
\* Every variable keeps its type; in particular no message and no header is
\* ahead of the database, whatever order sync_db was sent in.
THEOREM SyncTypeCorrect == Spec => []TypeOK
  <1>1. IInv => TypeOK
    BY DEF IInv
  <1> QED
    BY <1>1, Invariance, PTL

\* The cache shows the document at the revision it claims, but for revisions
\* that were never broadcast, through synthetic revisions, breaks, closes and
\* resubscriptions.
THEOREM CacheIsConsistent == Spec => []CacheConsistent
  <1>1. IInv => CacheConsistent
    BY DEF IInv
  <1> QED
    BY <1>1, Invariance, PTL

\* A call that resolved is reflected in the cache.
THEOREM WritesAreRead == Spec => []ReadYourWrites
  BY Reads, Invariance, PTL
=============================================================================
