------------------------- MODULE ConcurrentActorProofs -------------------------
(***************************************************************************)
(* Proofs about ConcurrentActor, for any services and any number of        *)
(* requests.                                                               *)
(*                                                                         *)
(* Exclusive and NotForgotten are each inductive given TypeOK: a message   *)
(* is let in only past every conflicting handler, and what lets a waiting  *)
(* message stay is a handler that is still there.                          *)
(* OrderKept and Drained rest on Fifo: what is still in an actor's channel *)
(* was sent after everything that has left it.                             *)
(* CalledBack rests on CallInv: the procedure that called has been let     *)
(* in and its event goes with the call (Callers), and no request in        *)
(* Kin(r), the least set with r that is closed under callers, keeps r      *)
(* waiting (NoKinAhead).  The recursive Ancestors(r) is within Kin(r);     *)
(* the least counterexample (WFMin) stands in for the induction.           *)
(***************************************************************************)
EXTENDS ConcurrentActor, WellFoundedInduction, TLAPS

\* A function on 1..n is a sequence of length n.
LEMMA FunctionIsSeq ==
    ASSUME NEW S, NEW n \in Nat, NEW f \in [1..n -> S]
    PROVE  f \in Seq(S) /\ Len(f) = n
  OBVIOUS

\* Setting an element of a sequence leaves a sequence of the same length.
LEMMA SetElement ==
    ASSUME NEW S, NEW q \in Seq(S), NEW i \in 1..Len(q), NEW x \in S
    PROVE  /\ [q EXCEPT ![i] = x] \in Seq(S)
           /\ Len([q EXCEPT ![i] = x]) = Len(q)
           /\ \A j \in 1..Len(q) :
                 [q EXCEPT ![i] = x][j] = IF j = i THEN x ELSE q[j]
  OBVIOUS

\* Conflicts is symmetric, as the comment at util/actor/mod.rs:26 demands: it
\* holds between the kinds other than GetActionInput.
LEMMA ConflictsSymmetric ==
    ASSUME NEW h, NEW r, request[h].kind \in Kind, request[r].kind \in Kind
    PROVE  /\ Conflicts(h, r) <=> (/\ request[h].kind # "GetActionInput"
                                   /\ request[r].kind # "GetActionInput")
           /\ Conflicts(h, r) <=> Conflicts(r, h)
  BY DEF Conflicts, Builder, Kind

\* The inductive invariant.
Inv == TypeOK /\ Exclusive /\ NotForgotten

\* The types of what the proofs look at.
LEMMA SentFacts ==
    ASSUME TypeOK
    PROVE  /\ request \in Seq(Request) /\ stage \in Seq(Stage)
           /\ Len(stage) = Len(request) /\ Len(request) \in Nat
           /\ Sent = 1..Len(request)
           /\ \A r \in Sent : request[r].kind \in Kind
  <1>1. /\ request \in Seq(Request) /\ stage \in Seq(Stage)
        /\ Len(stage) = Len(request) /\ Len(request) \in Nat
        /\ Sent = 1..Len(request)
    BY DEF TypeOK, Sent
  <1>2. \A r \in Sent : request[r] \in Request
    BY <1>1
  <1>3. \A q \in Request : q.kind \in Kind
    BY DEF Request
  <1> QED
    BY <1>1, <1>2, <1>3

\* Nothing has been sent at the start.
LEMMA InvInit == Init => Inv
  BY DEF Init, Inv, TypeOK, Exclusive, NotForgotten, Sent, At, Handling

\* A request that is sent is queued, at a service whose actor is open.
LEMMA InvQueue ==
    ASSUME Inv, NEW s \in Service, NEW event \in Nat, NEW caller \in Nat,
           NEW kind \in Kind, Queue(s, event, caller, kind)
    PROVE  Inv'
  <1> DEFINE n == Len(request)
             new == [to |-> s, event |-> event, caller |-> caller, kind |-> kind]
  <1>1. /\ request \in Seq(Request) /\ stage \in Seq(Stage)
        /\ Len(stage) = n /\ n \in Nat
    BY DEF Inv, TypeOK
  <1>2. new \in Request
    BY DEF Request
  <1>3. /\ request' = Append(request, new) /\ stage' = Append(stage, "queued")
        /\ executing' = executing /\ runner' = runner /\ due' = due
    BY DEF Queue
  <1>4. /\ request' \in Seq(Request) /\ stage' \in Seq(Stage)
        /\ Len(request') = n + 1 /\ Len(stage') = n + 1
    BY <1>1, <1>2, <1>3 DEF Stage
  <1>5. /\ \A r \in 1..n : request'[r] = request[r] /\ stage'[r] = stage[r]
        /\ request'[n + 1] = new /\ stage'[n + 1] = "queued"
    BY <1>1, <1>2, <1>3
  <1>6. Sent = 1..n /\ Sent' = 1..(n + 1)
    BY <1>4 DEF Sent
  <1>7. \A t \in Service : /\ Handling(t)' = Handling(t)
                           /\ At(t, "waiting")' = At(t, "waiting")
    BY <1>1, <1>5, <1>6 DEF Handling, At
  <1>8. \A h, r \in Sent : Conflicts(h, r)' <=> Conflicts(h, r)
    BY <1>5, <1>6 DEF Conflicts, Builder
  <1>9. TypeOK'
    <2>1. \A t \in Service : At(t, "queued") \subseteq At(t, "queued")'
      BY <1>1, <1>5, <1>6 DEF At
    <2>2. \A t \in Service : due'[t] \subseteq At(t, "queued")'
      BY <1>3, <2>1 DEF Inv, TypeOK
    <2> QED
      BY <1>1, <1>3, <1>4, <1>5, <1>6, <2>2 DEF Inv, TypeOK
  <1>10. Exclusive'
    <2> SUFFICES ASSUME NEW t \in Service, NEW h \in Handling(t), NEW r \in Handling(t),
                        Conflicts(h, r)'
                 PROVE  (request[h].event)' = (request[r].event)'
      BY <1>7 DEF Exclusive
    <2>1. h \in Sent /\ r \in Sent
      BY DEF Handling, At
    <2> QED
      BY <2>1, <1>5, <1>6, <1>8 DEF Inv, Exclusive
  <1>11. NotForgotten'
    <2> SUFFICES ASSUME NEW t \in Service, NEW r \in At(t, "waiting")
                 PROVE  \E h \in Handling(t) : Conflicts(h, r)'
      BY <1>7 DEF NotForgotten
    <2>1. PICK h \in Handling(t) : Conflicts(h, r)
      BY DEF Inv, NotForgotten
    <2>2. h \in Sent /\ r \in Sent
      BY DEF Handling, At
    <2> QED
      BY <2>1, <2>2, <1>8
  <1> QED
    BY <1>9, <1>10, <1>11 DEF Inv

\* A message is received: it is let in past every handler of another event, or
\* it waits for one of them.
LEMMA InvReceive ==
    ASSUME Inv, NEW s \in Service, Receive(s)
    PROVE  Inv'
  <1> DEFINE n == Len(request)
  <1>1. /\ request \in Seq(Request) /\ stage \in Seq(Stage)
        /\ Len(stage) = n /\ n \in Nat /\ Sent = 1..n
        /\ \A r \in Sent : request[r].kind \in Kind
    BY SentFacts DEF Inv
  <1>2. PICK m \in At(s, "queued") :
           /\ IF MustWait(s, m)
              THEN stage' = [stage EXCEPT ![m] = "waiting"] /\ executing' = executing
              ELSE /\ stage' = [stage EXCEPT ![m] = "handling"]
                   /\ executing' = executing \cup Procedures({m})
           /\ due' = [due EXCEPT ![s] = At(s, "queued") \ {m}]
           /\ request' = request /\ runner' = runner
    BY DEF Receive
  <1>3. m \in 1..n /\ request[m].to = s /\ stage[m] = "queued"
    BY <1>1 DEF At
  <1> DEFINE to == IF MustWait(s, m) THEN "waiting" ELSE "handling"
  <1>4. stage' = [stage EXCEPT ![m] = to] /\ to \in Stage
    BY <1>2 DEF Stage
  <1>5. /\ stage' \in Seq(Stage) /\ Len(stage') = n
        /\ \A r \in 1..n : stage'[r] = IF r = m THEN to ELSE stage[r]
    <2> HIDE DEF to
    <2> QED
      BY <1>1, <1>3, <1>4, SetElement
  <1>6. Sent' = 1..n
    BY <1>1, <1>2 DEF Sent
  <1>7. \A h, r : Conflicts(h, r)' <=> Conflicts(h, r)
    BY <1>2 DEF Conflicts, Builder
  <1>8. TypeOK'
    <2>1. executing' \subseteq executing \cup {m}
      BY <1>2 DEF Procedures
    <2>2. to # "handling" => executing' = executing
      BY <1>2
    <2>3. \A r \in executing' : r \in 1..n /\ stage'[r] \in {"handling", "answered"}
      <3> HIDE DEF to
      <3> QED
        BY <2>1, <2>2, <1>1, <1>3, <1>5 DEF Inv, TypeOK
    <2>4. \A t \in Service :
             At(t, "queued") \ (IF t = s THEN {m} ELSE {}) \subseteq At(t, "queued")'
      BY <1>1, <1>2, <1>3, <1>5, <1>6 DEF At
    <2>5. DOMAIN due' = Service /\ \A t \in Service : due'[t] \subseteq At(t, "queued")'
      BY <1>2, <2>4 DEF Inv, TypeOK
    <2> QED
      BY <2>3, <2>5, <1>1, <1>2, <1>5, <1>6 DEF Inv, TypeOK
  <1>9. \A t \in Service :
           /\ Handling(t) \subseteq Handling(t)'
           /\ Handling(t)' \subseteq
                 IF t = s /\ ~MustWait(s, m) THEN Handling(t) \cup {m} ELSE Handling(t)
           /\ At(t, "waiting")' \subseteq
                 IF t = s /\ MustWait(s, m)
                 THEN At(t, "waiting") \cup {m} ELSE At(t, "waiting")
    BY <1>1, <1>2, <1>3, <1>5, <1>6 DEF Handling, At
  <1>10. Exclusive'
    <2> SUFFICES ASSUME NEW t \in Service, NEW h \in Handling(t)',
                        NEW r \in Handling(t)', Conflicts(h, r),
                        request[h].event # request[r].event
                 PROVE  FALSE
      BY <1>2, <1>7 DEF Exclusive
    <2>0. h \in 1..n /\ r \in 1..n
      BY <1>6 DEF Handling, At
    <2>1. ~(h \in Handling(t) /\ r \in Handling(t))
      BY DEF Inv, Exclusive
    <2>2. t = s /\ ~MustWait(s, m) /\ (h = m \/ r = m)
      BY <2>1, <1>9
    <2>3. Conflicts(r, h)
      BY <2>0, <1>1, ConflictsSymmetric
    <2>4. \A g \in Handling(s) : request[g].event # request[m].event => ~Conflicts(g, m)
      BY <2>2 DEF MustWait
    <2>5. h # r
      OBVIOUS
    <2> QED
      BY <2>2, <2>3, <2>4, <2>5, <1>9
  <1>11. NotForgotten'
    <2> SUFFICES ASSUME NEW t \in Service, NEW r \in At(t, "waiting")'
                 PROVE  \E h \in Handling(t) : Conflicts(h, r)
      BY <1>7, <1>9 DEF NotForgotten
    <2>1. CASE r \in At(t, "waiting")
      BY <2>1 DEF Inv, NotForgotten
    <2>2. CASE r \notin At(t, "waiting")
      BY <2>2, <1>9 DEF MustWait
    <2> QED
      BY <2>1, <2>2
  <1> QED
    BY <1>8, <1>10, <1>11 DEF Inv

\* A handler is done: the scan lets in messages that conflict with no handler
\* and not with one another, and each of the others that waited is kept out by
\* a handler that is left.
LEMMA InvComplete ==
    ASSUME Inv, NEW s \in Service, NEW d \in Handling(s), NEW ended,
           Complete(s, d, ended)
    PROVE  Inv'
  <1> DEFINE n == Len(request)
  <1>1. /\ request \in Seq(Request) /\ stage \in Seq(Stage)
        /\ Len(stage) = n /\ n \in Nat /\ Sent = 1..n
        /\ \A r \in Sent : request[r].kind \in Kind
    BY SentFacts DEF Inv
  <1>2. PICK in \in SUBSET At(s, "waiting") :
           /\ LetIn(s, d, in)
           /\ stage' = [r \in Sent |-> CASE r = d -> "answered"
                                        [] r \in in -> "handling"
                                        [] OTHER -> stage[r]]
           /\ executing' = (executing \ ended) \cup Procedures(in)
           /\ request' = request /\ runner' = runner /\ due' = due
    BY DEF Complete
  <1>3. /\ d \in 1..n /\ request[d].to = s /\ stage[d] = "handling"
        /\ \A r \in in : r \in 1..n /\ request[r].to = s /\ stage[r] = "waiting"
    BY <1>1 DEF Handling, At
  <1>4. \A r \in 1..n : stage'[r] = IF r = d THEN "answered"
                                   ELSE IF r \in in THEN "handling" ELSE stage[r]
    BY <1>1, <1>2, <1>3
  <1>5. stage' \in Seq(Stage) /\ Len(stage') = n
    <2>1. \A r \in 1..n : stage[r] \in Stage
      BY <1>1
    <2>2. \A r \in 1..n : stage'[r] \in Stage
      BY <2>1, <1>4 DEF Stage
    <2>3. stage' \in [1..n -> Stage]
      BY <2>2, <1>1, <1>2
    <2> QED
      BY <2>3, <1>1, FunctionIsSeq
  <1>6. Sent' = 1..n
    BY <1>1, <1>2 DEF Sent
  <1>7. \A h, r : Conflicts(h, r)' <=> Conflicts(h, r)
    BY <1>2 DEF Conflicts, Builder
  <1>8. TypeOK'
    <2>1. executing' \subseteq executing \cup in
      BY <1>2 DEF Procedures
    <2>2. \A r \in executing' : r \in 1..n /\ stage'[r] \in {"handling", "answered"}
      BY <2>1, <1>1, <1>3, <1>4 DEF Inv, TypeOK
    <2>3. \A t \in Service : At(t, "queued") \subseteq At(t, "queued")'
      BY <1>1, <1>2, <1>3, <1>4, <1>6 DEF At
    <2>4. \A t \in Service : due'[t] \subseteq At(t, "queued")'
      BY <1>2, <2>3 DEF Inv, TypeOK
    <2> QED
      BY <2>2, <2>4, <1>1, <1>2, <1>5, <1>6 DEF Inv, TypeOK
  <1>9. \A t \in Service :
           /\ Handling(t)' = IF t = s THEN (Handling(t) \ {d}) \cup in ELSE Handling(t)
           /\ At(t, "waiting")' = IF t = s THEN At(t, "waiting") \ in
                                 ELSE At(t, "waiting")
    BY <1>1, <1>2, <1>3, <1>4, <1>6 DEF Handling, At
  <1>10. \A r \in At(s, "waiting") :
            r \in in <=>
               /\ Conflicts(d, r)
               /\ \A g \in (Handling(s) \ {d}) \cup {q \in in : q < r} : ~Conflicts(g, r)
    BY <1>2 DEF LetIn
  <1>11. Exclusive'
    <2> SUFFICES ASSUME NEW t \in Service, NEW h \in Handling(t)',
                        NEW r \in Handling(t)', Conflicts(h, r), h # r,
                        request[h].event # request[r].event
                 PROVE  FALSE
      BY <1>2, <1>7 DEF Exclusive
    <2>1. h \in 1..n /\ r \in 1..n
      BY <1>6 DEF Handling, At
    <2>2. Conflicts(r, h)
      BY <2>1, <1>1, ConflictsSymmetric
    <2>3. ~(h \in Handling(t) /\ r \in Handling(t))
      BY DEF Inv, Exclusive
    <2>4. t = s /\ (h \in in \/ r \in in)
      BY <2>3, <1>9
    <2>5. \A x \in in, y \in (Handling(s) \ {d}) : ~Conflicts(y, x)
      BY <1>10
    <2>6. \A x \in in, y \in in : y < x => ~Conflicts(y, x)
      BY <1>10
    <2>7. CASE h \in in /\ r \in in
      <3>1. h < r \/ r < h
        BY <2>1, <1>1
      <3> QED
        BY <3>1, <2>2, <2>6, <2>7
    <2>8. CASE ~(h \in in /\ r \in in)
      BY <2>8, <2>2, <2>4, <2>5, <1>9
    <2> QED
      BY <2>7, <2>8
  <1>12. NotForgotten'
    <2> SUFFICES ASSUME NEW t \in Service, NEW r \in At(t, "waiting")'
                 PROVE  \E h \in Handling(t)' : Conflicts(h, r)
      BY <1>7 DEF NotForgotten
    <2>1. r \in At(t, "waiting")
      BY <1>9
    <2>2. PICK h \in Handling(t) : Conflicts(h, r)
      BY <2>1 DEF Inv, NotForgotten
    <2>3. CASE t # s \/ h # d
      BY <2>2, <2>3, <1>9
    <2>4. CASE t = s /\ h = d
      <3>1. r \notin in
        BY <2>4, <1>9
      <3>2. PICK g \in (Handling(s) \ {d}) \cup {q \in in : q < r} : Conflicts(g, r)
        BY <3>1, <2>1, <2>2, <2>4, <1>10
      <3>3. g \in Handling(s)'
        BY <1>9
      <3> QED
        BY <3>2, <3>3, <2>4
    <2> QED
      BY <2>3, <2>4
  <1> QED
    BY <1>8, <1>11, <1>12 DEF Inv

\* Shutting an actor down touches no message.
LEMMA InvShutdown ==
    ASSUME Inv, NEW s \in Service, Shutdown(s)
    PROVE  Inv'
  <1>1. request' = request /\ stage' = stage /\ executing' = executing /\ due' = due
    BY DEF Shutdown
  <1>2. /\ Sent' = Sent
        /\ \A t, st : At(t, st)' = At(t, st)
        /\ \A t : Handling(t)' = Handling(t)
        /\ \A h, r : Conflicts(h, r)' <=> Conflicts(h, r)
    BY <1>1 DEF Sent, At, Handling, Conflicts, Builder
  <1>3. TypeOK'
    BY <1>1, <1>2 DEF Inv, TypeOK, Shutdown
  <1>4. Exclusive' /\ NotForgotten'
    BY <1>1, <1>2 DEF Inv, Exclusive, NotForgotten
  <1> QED
    BY <1>3, <1>4 DEF Inv

\* An actor that ends drops what is in its channel, and touches nothing else.
LEMMA EndFacts ==
    ASSUME TypeOK, NEW s \in Service, End(s)
    PROVE  /\ request' = request /\ executing' = executing /\ due' = due
           /\ Sent' = Sent
           /\ \A r \in Sent : stage'[r] = IF request[r].to = s /\ stage[r] = "queued"
                                           THEN "dropped" ELSE stage[r]
           /\ stage' \in Seq(Stage) /\ Len(stage') = Len(request)
           /\ \A t : At(t, "waiting")' = At(t, "waiting") /\ Handling(t)' = Handling(t)
           /\ \A t \in Service \ {s} : At(t, "queued")' = At(t, "queued")
  <1> DEFINE n == Len(request)
  <1>1. /\ request \in Seq(Request) /\ stage \in Seq(Stage)
        /\ Len(stage) = n /\ n \in Nat /\ Sent = 1..n
    BY SentFacts
  <1>2. /\ request' = request /\ executing' = executing /\ due' = due
        /\ stage' = [r \in Sent |->
                       IF r \in At(s, "queued") THEN "dropped" ELSE stage[r]]
    BY DEF End
  <1>3. Sent' = Sent
    BY <1>2 DEF Sent
  <1>4. \A r \in Sent : stage'[r] = IF request[r].to = s /\ stage[r] = "queued"
                                    THEN "dropped" ELSE stage[r]
    BY <1>2 DEF At
  <1>5. stage' \in Seq(Stage) /\ Len(stage') = n
    <2>1. \A r \in 1..n : stage[r] \in Stage
      BY <1>1
    <2>2. \A r \in 1..n : stage'[r] \in Stage
      BY <1>1, <1>4, <2>1 DEF Stage
    <2>3. stage' \in [1..n -> Stage]
      BY <1>1, <1>2, <2>2
    <2> QED
      BY <1>1, <2>3, FunctionIsSeq
  <1>6. \A t : At(t, "waiting")' = At(t, "waiting") /\ Handling(t)' = Handling(t)
    BY <1>2, <1>3, <1>4 DEF At, Handling
  <1>7. \A t \in Service \ {s} : At(t, "queued")' = At(t, "queued")
    BY <1>2, <1>3, <1>4 DEF At
  <1> QED
    BY <1>2, <1>3, <1>4, <1>5, <1>6, <1>7

LEMMA InvEnd ==
    ASSUME Inv, NEW s \in Service, End(s)
    PROVE  Inv'
  <1>0. TypeOK
    BY DEF Inv
  <1>1. /\ request' = request /\ executing' = executing /\ due' = due
        /\ Sent' = Sent /\ stage' \in Seq(Stage) /\ Len(stage') = Len(request)
        /\ \A t : At(t, "waiting")' = At(t, "waiting") /\ Handling(t)' = Handling(t)
        /\ \A t \in Service \ {s} : At(t, "queued")' = At(t, "queued")
        /\ \A r \in Sent : stage'[r] = IF request[r].to = s /\ stage[r] = "queued"
                                        THEN "dropped" ELSE stage[r]
    BY <1>0, EndFacts
  <1>2. \A h, r : Conflicts(h, r)' <=> Conflicts(h, r)
    BY <1>1 DEF Conflicts, Builder
  <1>3. TypeOK'
    <2>1. /\ due[s] = {} /\ runner' = [runner EXCEPT ![s] = "ended"]
      BY DEF End
    <2>2. \A t \in Service : due'[t] \subseteq At(t, "queued")'
      BY <1>0, <1>1, <2>1 DEF TypeOK
    <2>3. \A r \in executing' : r \in Sent' /\ stage'[r] \in {"handling", "answered"}
      BY <1>0, <1>1 DEF TypeOK
    <2> QED
      BY <1>0, <1>1, <2>1, <2>2, <2>3 DEF TypeOK
  <1>4. Exclusive' /\ NotForgotten'
    BY <1>1, <1>2 DEF Inv, Exclusive, NotForgotten
  <1> QED
    BY <1>3, <1>4 DEF Inv

\* Every step keeps the invariant.
LEMMA InvStep == Inv /\ [Next]_vars => Inv'
  <1> SUFFICES ASSUME Inv, [Next]_vars PROVE Inv'
    OBVIOUS
  <1>1. ASSUME NEW s \in Service, NEW kind \in Kind, Ask(s, kind) PROVE Inv'
    <2>1. Len(request) + 1 \in Nat
      BY SentFacts DEF Inv
    <2> QED
      BY <2>1, <1>1, InvQueue DEF Ask
  <1>2. ASSUME NEW r \in executing, NEW s \in Service, NEW kind \in Kind,
               Call(r, s, kind)
        PROVE  Inv'
    <2>1. r \in 1..Len(request) /\ request \in Seq(Request)
      BY SentFacts DEF Inv, TypeOK
    <2>2. request[r] \in Request
      BY <2>1
    <2>3. request[r].event \in Nat /\ r \in Nat
      BY <2>1, <2>2 DEF Request
    <2> QED
      BY <2>3, <1>2, InvQueue DEF Call
  <1>3. ASSUME NEW s \in Service, Receive(s) PROVE Inv'
    BY <1>3, InvReceive
  <1>4. ASSUME NEW s \in Service, Finish(s) PROVE Inv'
    BY <1>4, InvComplete DEF Finish
  <1>5. ASSUME NEW s \in Service, TimesOut(s) PROVE Inv'
    BY <1>5, InvComplete DEF TimesOut
  <1>6. ASSUME NEW s \in Closable, Shutdown(s) PROVE Inv'
    BY <1>6, InvShutdown, ServiceAssumption
  <1>7. ASSUME NEW s \in Service, End(s) PROVE Inv'
    BY <1>7, InvEnd
  <1>8. CASE UNCHANGED vars
    BY <1>8 DEF vars, Inv, TypeOK, Exclusive, NotForgotten, Sent, At,
                Handling, Conflicts, Builder
  <1> QED
    BY <1>1, <1>2, <1>3, <1>4, <1>5, <1>6, <1>7, <1>8 DEF Next

\* However requests, calls between services, time limits and shutdowns
\* interleave, an actor never handles two conflicting messages of different
\* events at once.
THEOREM Exclusion == Safety => []Exclusive
  <1>1. Inv => Exclusive
    BY DEF Inv
  <1> QED
    BY <1>1, InvInit, InvStep, PTL DEF Safety

\* No waiting message is ever left without a handler whose end brings it in.
THEOREM NothingLost == Safety => []NotForgotten
  <1>1. Inv => NotForgotten
    BY DEF Inv
  <1> QED
    BY <1>1, InvInit, InvStep, PTL DEF Safety

\* Every request is where the code can have it, and only messages that were
\* let in run a procedure.
THEOREM RequestsTypeCorrect == Safety => []TypeOK
  <1>1. Inv => TypeOK
    BY DEF Inv
  <1> QED
    BY <1>1, InvInit, InvStep, PTL DEF Safety
--------------------------------------------------------------------------------
(***************************************************************************)
(* The order of messages.                                                  *)
(***************************************************************************)

\* The channel is first in, first out: whatever left it was sent before what
\* is still in it.
Fifo ==
    \A q, r \in Sent :
        (request[q].to = request[r].to /\ stage[q] = "queued" /\ stage[r] # "queued")
            => r < q

\* Sending, receiving, completing and shutting down keep the channels in order.
LEMMA FifoStep ==
    ASSUME Inv, Fifo, [Next]_vars
    PROVE  Fifo'
  <1> DEFINE n == Len(request)
  <1>1. /\ request \in Seq(Request) /\ stage \in Seq(Stage)
        /\ Len(stage) = n /\ n \in Nat /\ Sent = 1..n
    BY SentFacts DEF Inv
  <1>2. ASSUME NEW s, NEW event, NEW caller, NEW kind, Queue(s, event, caller, kind)
        PROVE  Fifo'
    <2> DEFINE new == [to |-> s, event |-> event, caller |-> caller, kind |-> kind]
    <2>1. request' = Append(request, new) /\ stage' = Append(stage, "queued")
      BY <1>2 DEF Queue
    <2>2. Sent' = 1..(n + 1)
      BY <1>1, <2>1 DEF Sent
    <2>3. /\ \A r \in 1..n : request'[r] = request[r] /\ stage'[r] = stage[r]
          /\ stage'[n + 1] = "queued"
      BY <1>1, <2>1
    <2> HIDE DEF new
    <2> QED
      BY <1>1, <2>2, <2>3 DEF Fifo
  <1>3. ASSUME NEW s \in Service, Receive(s)
        PROVE  Fifo'
    <2>1. PICK m \in At(s, "queued") :
             /\ \A q \in At(s, "queued") : m <= q
             /\ \E to \in {"waiting", "handling"} : stage' = [stage EXCEPT ![m] = to]
             /\ request' = request
      BY <1>3 DEF Receive
    <2>2. PICK to \in {"waiting", "handling"} : stage' = [stage EXCEPT ![m] = to]
      BY <2>1
    <2>3. m \in 1..n /\ request[m].to = s /\ stage[m] = "queued"
      BY <1>1 DEF At
    <2>4. \A r \in 1..n : stage'[r] = IF r = m THEN to ELSE stage[r]
      BY <1>1, <2>2, <2>3
    <2>5. Sent' = 1..n
      BY <1>1, <2>1 DEF Sent
    <2>6. \A q \in 1..n : request[q].to = s /\ stage[q] = "queued" => m <= q
      BY <1>1, <2>1 DEF At
    <2> QED
      BY <1>1, <2>1, <2>3, <2>4, <2>5, <2>6 DEF Fifo
  <1>4. ASSUME NEW s \in Service, NEW d \in Handling(s), NEW ended, Complete(s, d, ended)
        PROVE  Fifo'
    <2>1. PICK in \in SUBSET At(s, "waiting") :
             /\ stage' = [r \in Sent |-> CASE r = d -> "answered"
                                          [] r \in in -> "handling"
                                          [] OTHER -> stage[r]]
             /\ request' = request
      BY <1>4 DEF Complete
    <2>2. /\ d \in 1..n /\ stage[d] = "handling"
          /\ \A r \in in : r \in 1..n /\ stage[r] = "waiting"
      BY <1>1 DEF Handling, At
    <2>3. \A r \in 1..n : stage'[r] = IF r = d THEN "answered"
                                     ELSE IF r \in in THEN "handling" ELSE stage[r]
      BY <1>1, <2>1, <2>2
    <2>4. Sent' = 1..n
      BY <1>1, <2>1 DEF Sent
    <2>5. \A r \in 1..n : stage'[r] = "queued" <=> stage[r] = "queued"
      BY <2>2, <2>3
    <2> QED
      BY <1>1, <2>1, <2>4, <2>5 DEF Fifo
  <1>5. CASE request' = request /\ stage' = stage
    BY <1>5 DEF Fifo, Sent
  <1>6. ASSUME NEW s \in Service, End(s)
        PROVE  Fifo'
    <2>1. /\ request' = request /\ Sent' = Sent
          /\ \A r \in Sent : stage'[r] = IF request[r].to = s /\ stage[r] = "queued"
                                          THEN "dropped" ELSE stage[r]
      BY <1>6, EndFacts DEF Inv
    <2> QED
      BY <1>1, <2>1 DEF Fifo
  <1> QED
    BY <1>2, <1>3, <1>4, <1>5, <1>6
       DEF Next, vars, Ask, Call, Finish, TimesOut, Shutdown

\* No message is sent to an actor that was shut down, what it drops was still
\* in its channel, and what it had taken was sent before.
LEMMA DrainedStep ==
    ASSUME Inv, Fifo, Drained, [Next]_vars
    PROVE  Drained'
  <1> DEFINE n == Len(request)
  <1>1. /\ request \in Seq(Request) /\ stage \in Seq(Stage)
        /\ Len(stage) = n /\ n \in Nat /\ Sent = 1..n
        /\ \A r \in Sent : stage[r] \in Stage
    <2>1. stage \in Seq(Stage) /\ Sent = 1..Len(stage)
      BY SentFacts DEF Inv
    <2> QED
      BY <2>1, SentFacts DEF Inv
  <1>2. ASSUME NEW s \in Service, NEW event, NEW caller, NEW kind,
               Queue(s, event, caller, kind)
        PROVE  Drained'
    <2> DEFINE new == [to |-> s, event |-> event, caller |-> caller, kind |-> kind]
    <2>1. /\ request' = Append(request, new) /\ stage' = Append(stage, "queued")
          /\ runner' = runner /\ runner[s] = "open"
      BY <1>2 DEF Queue
    <2>2. Sent' = 1..(n + 1)
      BY <1>1, <2>1 DEF Sent
    <2>3. /\ \A r \in 1..n : request'[r] = request[r] /\ stage'[r] = stage[r]
          /\ stage'[n + 1] = "queued" /\ request'[n + 1] = new
      BY <1>1, <2>1
    <2>4. new.to = s
      OBVIOUS
    <2> HIDE DEF new
    <2> QED
      BY <1>1, <2>1, <2>2, <2>3, <2>4 DEF Drained, Over
  <1>3. ASSUME NEW s \in Service, Receive(s)
        PROVE  Drained'
    <2>1. PICK m \in At(s, "queued") :
             /\ \E to \in {"waiting", "handling"} : stage' = [stage EXCEPT ![m] = to]
             /\ request' = request /\ runner' = runner
      BY <1>3 DEF Receive
    <2>2. PICK to \in {"waiting", "handling"} : stage' = [stage EXCEPT ![m] = to]
      BY <2>1
    <2>3. m \in 1..n /\ request[m].to = s /\ stage[m] = "queued"
      BY <1>1 DEF At
    <2>4. \A r \in 1..n : stage'[r] = IF r = m THEN to ELSE stage[r]
      BY <1>1, <2>2, <2>3
    <2>5. Sent' = 1..n
      BY <1>1, <2>1 DEF Sent
    <2>6. runner[s] # "ended"
      BY <1>1, <2>3 DEF Drained, Over
    <2> QED
      BY <1>1, <2>1, <2>3, <2>4, <2>5, <2>6 DEF Drained
  <1>4. ASSUME NEW s \in Service, NEW d \in Handling(s), NEW ended, Complete(s, d, ended)
        PROVE  Drained'
    <2>1. PICK in \in SUBSET At(s, "waiting") :
             /\ stage' = [r \in Sent |-> CASE r = d -> "answered"
                                          [] r \in in -> "handling"
                                          [] OTHER -> stage[r]]
             /\ request' = request /\ runner' = runner
      BY <1>4 DEF Complete
    <2>2. /\ d \in 1..n /\ stage[d] = "handling" /\ request[d].to = s
          /\ \A r \in in : r \in 1..n /\ stage[r] = "waiting" /\ request[r].to = s
      BY <1>1 DEF Handling, At
    <2>3. \A r \in 1..n : stage'[r] = IF r = d THEN "answered"
                                     ELSE IF r \in in THEN "handling" ELSE stage[r]
      BY <1>1, <2>1, <2>2
    <2>4. Sent' = 1..n
      BY <1>1, <2>1 DEF Sent
    <2>5. runner[s] # "ended"
      BY <1>1, <2>2 DEF Drained, Over
    <2>6. \A r \in 1..n : stage[r] = "dropped" <=> stage'[r] = "dropped"
      BY <2>2, <2>3
    <2>7. \A r \in 1..n : request[r].to # s => stage'[r] = stage[r]
      BY <2>2, <2>3
    <2> QED
      BY <1>1, <2>1, <2>4, <2>5, <2>6, <2>7 DEF Drained
  <1>5. ASSUME NEW s \in Service, Shutdown(s)
        PROVE  Drained'
    <2>1. /\ request' = request /\ stage' = stage /\ runner[s] = "open"
          /\ runner' = [runner EXCEPT ![s] = "closing"]
          /\ runner \in [Service -> {"open", "closing", "ended"}]
      BY <1>5 DEF Shutdown, Inv, TypeOK
    <2> QED
      BY <2>1 DEF Drained, Sent
  <1>6. ASSUME NEW s \in Service, End(s)
        PROVE  Drained'
    <2>1. /\ request' = request /\ Sent' = Sent
          /\ \A r \in Sent : stage'[r] = IF request[r].to = s /\ stage[r] = "queued"
                                          THEN "dropped" ELSE stage[r]
      BY <1>6, EndFacts DEF Inv
    <2>2. /\ runner' = [runner EXCEPT ![s] = "ended"] /\ runner[s] = "closing"
          /\ runner \in [Service -> {"open", "closing", "ended"}]
          /\ At(s, "waiting") = {} /\ Handling(s) = {}
      BY <1>6 DEF End, Inv, TypeOK
    <2>3. \A r \in Sent : request[r].to = s => stage[r] \in {"queued", "answered"}
      BY <1>1, <2>2 DEF At, Handling, Stage, Drained
    <2>4. \A r, q \in Sent : request[r].to = s /\ request[q].to = s /\ q > r
                                /\ stage[r] = "queued" => stage[q] = "queued"
      BY <1>1 DEF Fifo
    <2> QED
      BY <1>1, <2>1, <2>2, <2>3, <2>4 DEF Drained, Over
  <1>7. CASE UNCHANGED vars
    BY <1>7 DEF vars, Drained, Sent
  <1>8. ASSUME NEW r \in executing, NEW s \in Service, NEW kind \in Kind,
               Call(r, s, kind)
        PROVE  Drained'
    BY <1>2, <1>8 DEF Call
  <1> QED
    BY <1>2, <1>3, <1>4, <1>5, <1>6, <1>7, <1>8, ServiceAssumption
       DEF Next, Ask, Finish, TimesOut

\* shutdown(FinishAll) ends with a result for every sender: a message that the
\* runner took is answered, and so is every message sent before it; only
\* messages that came after the last one it took are dropped, with an error.
THEOREM ShutdownDrains == Safety => []Drained
  <1>1. Init => Fifo /\ Drained
    BY DEF Init, Fifo, Drained, Sent
  <1>2. Inv /\ Fifo /\ Drained /\ [Next]_vars => Fifo' /\ Drained'
    BY FifoStep, DrainedStep
  <1> QED
    BY <1>1, <1>2, InvInit, InvStep, PTL DEF Safety

\* A message let in by its receipt is the lowest in the channel, and one that
\* waits is kept out by a handler that would keep the new one out too.
LEMMA OrderReceive ==
    ASSUME Inv, Fifo, NEW s \in Service, Receive(s), NEW t \in Service,
           NEW r \in Handling(t)' \ Handling(t),
           \A h \in Handling(t) : request[h].event # request[r].event,
           NEW q \in 1..(r - 1), request[q].to = t, stage[q] \in {"queued", "waiting"},
           Conflicts(q, r)
    PROVE  FALSE
  <1> DEFINE n == Len(request)
  <1>1. /\ request \in Seq(Request) /\ stage \in Seq(Stage)
        /\ Len(stage) = n /\ n \in Nat /\ Sent = 1..n
        /\ \A x \in Sent : request[x].kind \in Kind
    BY SentFacts DEF Inv
  <1>2. PICK m \in At(s, "queued") :
           /\ \A x \in At(s, "queued") : m <= x
           /\ IF MustWait(s, m) THEN stage' = [stage EXCEPT ![m] = "waiting"]
                                ELSE stage' = [stage EXCEPT ![m] = "handling"]
           /\ request' = request
    BY DEF Receive
  <1>3. m \in 1..n /\ request[m].to = s /\ stage[m] = "queued"
    BY <1>1 DEF At
  <1>4. r = m /\ t = s /\ ~MustWait(s, m)
    BY <1>1, <1>2, <1>3 DEF Handling, At, Sent
  <1>5. q \in Sent /\ q < m
    BY <1>1, <1>3, <1>4
  <1>6. stage[q] = "waiting"
    BY <1>2, <1>4, <1>5, <1>1 DEF At
  <1>7. PICK h \in Handling(s) : Conflicts(h, q)
    BY <1>4, <1>5, <1>6 DEF Inv, NotForgotten, At
  <1>8. h \in Sent /\ m \in Sent
    BY <1>1, <1>3 DEF Handling, At
  <1>9. Conflicts(h, m)
    BY <1>1, <1>4, <1>5, <1>7, <1>8, ConflictsSymmetric
  <1> QED
    BY <1>4, <1>7, <1>9 DEF MustWait

\* Of the messages that waited, the scan lets in the earlier before the later,
\* and what is still in the channel was sent after both.
LEMMA OrderComplete ==
    ASSUME Inv, Fifo, NEW s \in Service, NEW d \in Handling(s), NEW ended,
           Complete(s, d, ended), NEW t \in Service,
           NEW r \in Handling(t)' \ Handling(t),
           NEW q \in 1..(r - 1), request[q].to = t, stage[q] \in {"queued", "waiting"},
           Conflicts(q, r)
    PROVE  q \in Handling(t)'
  <1> DEFINE n == Len(request)
  <1>1. /\ request \in Seq(Request) /\ stage \in Seq(Stage)
        /\ Len(stage) = n /\ n \in Nat /\ Sent = 1..n
        /\ \A x \in Sent : request[x].kind \in Kind
    BY SentFacts DEF Inv
  <1>2. PICK in \in SUBSET At(s, "waiting") :
           /\ LetIn(s, d, in)
           /\ stage' = [x \in Sent |-> CASE x = d -> "answered"
                                        [] x \in in -> "handling"
                                        [] OTHER -> stage[x]]
           /\ request' = request
    BY DEF Complete
  <1>3. /\ d \in 1..n /\ request[d].to = s /\ stage[d] = "handling"
        /\ \A x \in in : x \in 1..n /\ request[x].to = s /\ stage[x] = "waiting"
    BY <1>1 DEF Handling, At
  <1>4. \A x \in 1..n : stage'[x] = IF x = d THEN "answered"
                                   ELSE IF x \in in THEN "handling" ELSE stage[x]
    BY <1>1, <1>2, <1>3
  <1>5. Sent' = 1..n
    BY <1>1, <1>2 DEF Sent
  <1>6. r \in in /\ t = s /\ r \in Sent
    BY <1>1, <1>2, <1>3, <1>4, <1>5 DEF Handling, At
  <1>7. q \in Sent /\ q < r
    BY <1>1, <1>6
  <1>8. stage[q] = "waiting"
    BY <1>3, <1>6, <1>7 DEF Fifo
  <1>9. q \in At(s, "waiting") /\ r \in At(s, "waiting")
    BY <1>2, <1>6, <1>7, <1>8 DEF At
  <1>10. /\ Conflicts(d, r)
         /\ \A g \in (Handling(s) \ {d}) \cup {x \in in : x < r} : ~Conflicts(g, r)
    BY <1>2, <1>6, <1>9 DEF LetIn
  <1>11. d \in Sent /\ Conflicts(d, q)
    BY <1>1, <1>3, <1>6, <1>7, <1>10, ConflictsSymmetric
  <1>12. ASSUME NEW g \in (Handling(s) \ {d}) \cup {x \in in : x < q}, Conflicts(g, q)
         PROVE  FALSE
    <2>1. g \in Sent
      BY <1>1, <1>3 DEF Handling, At
    <2>2. Conflicts(g, r)
      BY <1>1, <1>6, <1>7, <1>12, <2>1, ConflictsSymmetric
    <2>3. g \in (Handling(s) \ {d}) \cup {x \in in : x < r}
      BY <1>1, <1>6, <1>7, <1>12, <2>1
    <2> QED
      BY <1>10, <2>2, <2>3
  <1>13. q \in in
    BY <1>2, <1>9, <1>11, <1>12 DEF LetIn
  <1> QED
    BY <1>1, <1>2, <1>3, <1>4, <1>5, <1>6, <1>13 DEF Handling, At

\* Conflicting messages that wait for one actor are let in in the order they
\* were sent, whatever else happens; a message overtakes only for an event that
\* is being handled.
THEOREM LetInInOrder == Safety => OrderKept
  <1> DEFINE Ordered ==
        \A s \in Service : \A r \in Handling(s)' \ Handling(s) :
          \/ \E h \in Handling(s) : request[h].event = request[r].event
          \/ \A q \in 1..(r - 1) :
                request[q].to = s /\ stage[q] \in {"queued", "waiting"}
                    => q \in Handling(s)' \/ ~Conflicts(q, r)
  <1>1. Init => Fifo
    BY DEF Init, Fifo, Sent
  <1>2. Inv /\ Fifo /\ [Next]_vars => [Ordered]_vars
    <2> SUFFICES ASSUME Inv, Fifo, Next,
                        NEW t \in Service, NEW r \in Handling(t)' \ Handling(t),
                        \A h \in Handling(t) : request[h].event # request[r].event,
                        NEW q \in 1..(r - 1), request[q].to = t,
                        stage[q] \in {"queued", "waiting"}, Conflicts(q, r)
                 PROVE  q \in Handling(t)'
      OBVIOUS
    <2>1. ASSUME NEW s, NEW event, NEW caller, NEW kind, Queue(s, event, caller, kind)
          PROVE  FALSE
      <3> DEFINE n == Len(request)
                 new == [to |-> s, event |-> event, caller |-> caller, kind |-> kind]
      <3>1. /\ request \in Seq(Request) /\ stage \in Seq(Stage)
            /\ Len(stage) = n /\ n \in Nat /\ Sent = 1..n
        BY SentFacts DEF Inv
      <3>2. request' = Append(request, new) /\ stage' = Append(stage, "queued")
        BY <2>1 DEF Queue
      <3>3. Sent' = 1..(n + 1)
        BY <3>1, <3>2 DEF Sent
      <3>4. /\ \A x \in 1..n : request'[x] = request[x] /\ stage'[x] = stage[x]
            /\ stage'[n + 1] = "queued"
        BY <3>1, <3>2
      <3> HIDE DEF new
      <3> QED
        BY <3>1, <3>3, <3>4 DEF Handling, At
    <2>2. ASSUME request' = request, stage' = stage
          PROVE  FALSE
      BY <2>2 DEF Handling, At, Sent
    <2>3. ASSUME NEW s \in Service, Receive(s) PROVE FALSE
      BY <2>3, OrderReceive
    <2>4. ASSUME NEW s \in Service, NEW d \in Handling(s), NEW ended, Complete(s, d, ended)
          PROVE  q \in Handling(t)'
      BY <2>4, OrderComplete
    <2>5. ASSUME NEW s \in Service, End(s) PROVE FALSE
      BY <2>5, EndFacts DEF Inv
    <2> QED
      BY <2>1, <2>2, <2>3, <2>4, <2>5 DEF Next, Ask, Call, Finish, TimesOut, Shutdown
  <1>3. Inv /\ Fifo /\ [Next]_vars => Fifo'
    BY FifoStep
  <1>4. OrderKept <=> [][Ordered]_vars
    BY DEF OrderKept
  <1> QED
    BY <1>1, <1>2, <1>3, <1>4, InvInit, InvStep, PTL DEF Safety
--------------------------------------------------------------------------------
(***************************************************************************)
(* Being called back.  Ancestors is a recursive function; induction over   *)
(* it goes by the least counterexample, which WFMin gives without an       *)
(* operator as parameter.                                                  *)
(***************************************************************************)

\* A set of numbers that is not empty has a least element.
LEMMA LeastNat ==
    ASSUME NEW T, T \subseteq Nat, T # {}
    PROVE  \E x \in T : \A y \in T : x <= y
  <1> DEFINE R == OpToRel(<, Nat)
  <1>1. IsWellFoundedOn(R, Nat)
    BY NatLessThanWellFounded
  <1>2. \A x, y \in Nat : <<x, y>> \in R <=> x < y
    BY DEF OpToRel
  <1> HIDE DEF R
  <1>3. PICK x \in T : \A y \in T : ~(<<y, x>> \in R)
    BY <1>1, WFMin, Zenon
  <1>4. \A y \in T : ~(y < x)
    BY <1>2, <1>3, Zenon
  <1> QED
    BY <1>4

\* A set with 0 and with the successor of each of its numbers has them all.
LEMMA SetInduction ==
    ASSUME NEW S, 0 \in S, \A n \in Nat : n \in S => n + 1 \in S
    PROVE  \A n \in Nat : n \in S
  <1> DEFINE T == {n \in Nat : n \notin S}
  <1> SUFFICES ASSUME T # {} PROVE FALSE
    OBVIOUS
  <1>1. PICK x \in T : \A y \in T : x <= y
    BY LeastNat
  <1>2. x # 0 /\ x \in Nat /\ x - 1 \in Nat /\ x = (x - 1) + 1
    BY <1>1
  <1>3. x - 1 \notin T
    BY <1>1, <1>2
  <1> QED
    BY <1>2, <1>3

\* The callers of the requests in U, one level up.
CallersOf(U) == {request[q].caller : q \in U \ {0}}

\* The equation of the function in Ancestors, on 0..m.
Climbs(f, r, m) ==
    f = [n \in 0..m |-> IF n = 0 THEN {r} ELSE f[n - 1] \cup CallersOf(f[n - 1])]

\* The equation has a solution, of any length.
LEMMA ClimbExists ==
    ASSUME NEW r
    PROVE  \A m \in Nat : \E f : Climbs(f, r, m)
  <1> DEFINE S == {m \in Nat : \E f : Climbs(f, r, m)}
  <1>1. 0 \in S
    <2> DEFINE f == [n \in 0..0 |-> {r}]
    <2>1. Climbs(f, r, 0)
      BY DEF Climbs
    <2> QED
      BY <2>1
  <1>2. ASSUME NEW m \in Nat, m \in S PROVE m + 1 \in S
    <2>1. PICK f : Climbs(f, r, m)
      BY <1>2
    <2> DEFINE g == [n \in 0..(m + 1) |->
                        IF n = m + 1 THEN f[m] \cup CallersOf(f[m]) ELSE f[n]]
    <2>2. \A n \in 0..m : f[n] = IF n = 0 THEN {r} ELSE f[n - 1] \cup CallersOf(f[n - 1])
      BY <2>1 DEF Climbs
    <2>3. ASSUME NEW n \in 0..(m + 1)
          PROVE  g[n] = IF n = 0 THEN {r} ELSE g[n - 1] \cup CallersOf(g[n - 1])
      <3>1. CASE n = m + 1
        <4>1. g[n] = f[m] \cup CallersOf(f[m]) /\ n # 0 /\ n - 1 = m
          BY <3>1
        <4>2. m \in 0..(m + 1) /\ m # m + 1
          OBVIOUS
        <4>3. g[m] = f[m]
          BY <4>2
        <4> QED
          BY <4>1, <4>3
      <3>2. CASE n # m + 1
        <4>1. n \in 0..m /\ g[n] = f[n]
          BY <3>2
        <4>2. n # 0 => g[n - 1] = f[n - 1]
          BY <4>1
        <4> QED
          BY <2>2, <4>1, <4>2
      <3> QED
        BY <3>1, <3>2
    <2>4. Climbs(g, r, m + 1)
      <3>1. g = [n \in 0..(m + 1) |-> g[n]]
        OBVIOUS
      <3> HIDE DEF g
      <3> QED
        BY <2>3, <3>1 DEF Climbs
    <2> QED
      BY <2>4
  <1> HIDE DEF S
  <1>3. \A m \in Nat : m \in S
    BY <1>1, <1>2, SetInduction
  <1> QED
    BY <1>3 DEF S

\* A set that has r, and with a request its caller, has the ancestors of r.
LEMMA AncestorsWithin ==
    ASSUME TypeOK, NEW r, NEW A, r \in A, CallersOf(A) \subseteq A
    PROVE  Ancestors(r) \subseteq A
  <1> DEFINE L == Len(request)
             up == CHOOSE f : f = [n \in 0..L |->
                       IF n = 0 THEN {r}
                       ELSE f[n - 1] \cup {request[q].caller : q \in f[n - 1] \ {0}}]
  <1>1. L \in Nat
    BY DEF TypeOK
  <1>2. \E f : f = [n \in 0..L |->
                       IF n = 0 THEN {r}
                       ELSE f[n - 1] \cup {request[q].caller : q \in f[n - 1] \ {0}}]
    <2>1. PICK f : Climbs(f, r, L)
      BY <1>1, ClimbExists
    <2> QED
      BY <2>1 DEF Climbs, CallersOf
  <1>3. up = [n \in 0..L |->
                 IF n = 0 THEN {r}
                 ELSE up[n - 1] \cup {request[q].caller : q \in up[n - 1] \ {0}}]
    BY <1>2
  <1>4. Ancestors(r) = up[L] \ {0, r}
    BY DEF Ancestors
  <1> HIDE DEF up
  <1> DEFINE S == {n \in Nat : n <= L => up[n] \subseteq A}
  <1>5. 0 \in S
    BY <1>1, <1>3
  <1>6. ASSUME NEW n \in Nat, n \in S PROVE n + 1 \in S
    <2> SUFFICES ASSUME n + 1 <= L PROVE up[n + 1] \subseteq A
      OBVIOUS
    <2>1. up[n] \subseteq A
      BY <1>1, <1>6
    <2>2. n + 1 \in 0..L /\ n + 1 # 0 /\ (n + 1) - 1 = n
      BY <1>1
    <2>3. up[n + 1] = up[n] \cup {request[q].caller : q \in up[n] \ {0}}
      BY <1>3, <2>2
    <2> QED
      BY <2>1, <2>3 DEF CallersOf
  <1> HIDE DEF S
  <1>7. L \in S
    BY <1>1, <1>5, <1>6, SetInduction
  <1>8. up[L] \subseteq A
    BY <1>1, <1>7 DEF S
  <1> QED
    BY <1>4, <1>8

\* A procedure that calls has been let in, and its event goes with the call.
Callers ==
    \A r \in Sent :
        LET c == request[r].caller
        IN  c # 0 => /\ c \in Sent
                     /\ request[c].event = request[r].event
                     /\ stage[c] \in {"handling", "answered"}

\* The requests that every set closed under callers has when it has r.
Kin(r) ==
    {h \in 0..Len(request) :
        \A A \in SUBSET (0..Len(request)) :
            r \in A /\ CallersOf(A) \subseteq A => h \in A}

\* CalledBack over Kin, which only shrinks as requests are sent.
NoKinAhead ==
    \A s \in Service : \A r \in At(s, "waiting") :
        \A h \in Handling(s) : h \in Kin(r) => ~Conflicts(h, r)

CallInv == Callers /\ NoKinAhead

\* What is an ancestor is kin.
LEMMA AncestorsAreKin ==
    ASSUME Inv, Callers, NEW r \in Sent
    PROVE  Ancestors(r) \subseteq Kin(r)
  <1>1. Len(request) \in Nat /\ Sent = 1..Len(request) /\ TypeOK
    BY SentFacts DEF Inv
  <1>2. CallersOf(0..Len(request)) \subseteq 0..Len(request)
    BY <1>1 DEF CallersOf, Callers
  <1>3. Ancestors(r) \subseteq 0..Len(request)
    <2>1. r \in 0..Len(request)
      BY <1>1
    <2> QED
      BY <1>1, <1>2, <2>1, AncestorsWithin
  <1>4. \A A : r \in A /\ CallersOf(A) \subseteq A => Ancestors(r) \subseteq A
    BY <1>1, AncestorsWithin
  <1> QED
    BY <1>3, <1>4 DEF Kin

\* Kin belong to one event, and have been let in.
LEMMA KinFacts ==
    ASSUME Inv, Callers, NEW r \in Sent, NEW h \in Kin(r), h \in Sent, h # r
    PROVE  request[h].event = request[r].event /\ stage[h] \in {"handling", "answered"}
  <1> DEFINE A == {0, r} \cup {q \in Sent : /\ request[q].event = request[r].event
                                           /\ stage[q] \in {"handling", "answered"}}
  <1>1. Len(request) \in Nat /\ Sent = 1..Len(request)
    BY SentFacts DEF Inv
  <1>2. A \in SUBSET (0..Len(request)) /\ r \in A
    BY <1>1
  <1>3. CallersOf(A) \subseteq A
    <2> SUFFICES ASSUME NEW q \in A \ {0} PROVE request[q].caller \in A
      BY DEF CallersOf
    <2>1. q \in Sent /\ request[q].event = request[r].event
      BY <1>1
    <2> QED
      BY <2>1 DEF Callers
  <1>4. h \in A
    BY <1>2, <1>3 DEF Kin
  <1> QED
    BY <1>1, <1>4

\* A request that is sent is nobody's caller yet.
LEMMA CallQueue ==
    ASSUME Inv, CallInv, NEW s \in Service, NEW event \in Nat, NEW caller \in Nat,
           NEW kind \in Kind, Queue(s, event, caller, kind),
           caller # 0 => caller \in executing /\ request[caller].event = event
    PROVE  CallInv'
  <1> DEFINE n == Len(request)
             new == [to |-> s, event |-> event, caller |-> caller, kind |-> kind]
  <1>1. /\ request \in Seq(Request) /\ stage \in Seq(Stage)
        /\ Len(stage) = n /\ n \in Nat /\ Sent = 1..n
    BY SentFacts DEF Inv
  <1>2. request' = Append(request, new) /\ stage' = Append(stage, "queued")
    BY DEF Queue
  <1>3. Sent' = 1..(n + 1) /\ Len(request') = n + 1
    BY <1>1, <1>2 DEF Sent
  <1>4. /\ \A r \in 1..n : request'[r] = request[r] /\ stage'[r] = stage[r]
        /\ request'[n + 1] = new /\ stage'[n + 1] = "queued"
    BY <1>1, <1>2
  <1>5. new.caller = caller /\ new.event = event
    OBVIOUS
  <1> HIDE DEF new
  <1>6. Callers'
    <2>1. caller # 0 => /\ caller \in 1..n /\ request[caller].event = event
                        /\ stage[caller] \in {"handling", "answered"}
      BY <1>1 DEF Inv, TypeOK
    <2> QED
      BY <1>1, <1>3, <1>4, <1>5, <2>1 DEF CallInv, Callers
  <1>7. NoKinAhead'
    <2> SUFFICES ASSUME NEW t \in Service, NEW r \in At(t, "waiting")',
                        NEW h \in Handling(t)', h \in Kin(r)', Conflicts(h, r)'
                 PROVE  FALSE
      BY DEF NoKinAhead
    <2>1. /\ r \in 1..n /\ h \in 1..n
          /\ r \in At(t, "waiting") /\ h \in Handling(t)
      BY <1>1, <1>3, <1>4 DEF At, Handling
    <2>2. Conflicts(h, r)
      BY <1>4, <2>1 DEF Conflicts, Builder
    <2>3. ASSUME NEW A \in SUBSET (0..n), r \in A, CallersOf(A) \subseteq A
          PROVE  h \in A
      <3>1. A \in SUBSET (0..Len(request'))
        BY <1>1, <1>3
      <3>2. \A q \in A \ {0} : request'[q] = request[q]
        BY <1>1, <1>4
      <3>3. {request'[q].caller : q \in A \ {0}} \subseteq A
        BY <2>3, <3>2 DEF CallersOf
      <3> QED
        BY <2>3, <3>1, <3>3 DEF Kin, CallersOf
    <2>4. h \in Kin(r)
      BY <1>1, <2>1, <2>3 DEF Kin
    <2> QED
      BY <2>1, <2>2, <2>4 DEF CallInv, NoKinAhead
  <1> QED
    BY <1>6, <1>7 DEF CallInv

\* A message that must wait is kept out by a handler of another event, beside
\* which none of its kin can be handled; one that is let in is kin to none that
\* waits.
LEMMA CallReceive ==
    ASSUME Inv, CallInv, NEW s \in Service, Receive(s)
    PROVE  CallInv'
  <1> DEFINE n == Len(request)
  <1>1. /\ request \in Seq(Request) /\ stage \in Seq(Stage)
        /\ Len(stage) = n /\ n \in Nat /\ Sent = 1..n
        /\ \A x \in Sent : request[x].kind \in Kind
    BY SentFacts DEF Inv
  <1>2. PICK m \in At(s, "queued") :
           /\ IF MustWait(s, m) THEN stage' = [stage EXCEPT ![m] = "waiting"]
                                ELSE stage' = [stage EXCEPT ![m] = "handling"]
           /\ request' = request
    BY DEF Receive
  <1>3. m \in 1..n /\ request[m].to = s /\ stage[m] = "queued"
    BY <1>1 DEF At
  <1>4. \A r \in 1..n : stage'[r] = IF r = m THEN (IF MustWait(s, m) THEN "waiting" ELSE "handling")
                                   ELSE stage[r]
    BY <1>1, <1>2, <1>3
  <1>5. Sent' = 1..n
    BY <1>1, <1>2 DEF Sent
  <1>6. Callers'
    BY <1>1, <1>2, <1>3, <1>4, <1>5 DEF CallInv, Callers
  <1>7. NoKinAhead'
    <2> SUFFICES ASSUME NEW t \in Service, NEW r \in At(t, "waiting")',
                        NEW h \in Handling(t)', h \in Kin(r), Conflicts(h, r)
                 PROVE  FALSE
      <3>1. /\ \A h, r : Conflicts(h, r)' <=> Conflicts(h, r)
            /\ \A r : Kin(r)' = Kin(r)
        BY <1>2 DEF Kin, CallersOf, Conflicts, Builder
      <3> QED
        BY <3>1 DEF NoKinAhead
    <2>1. /\ r \in Sent /\ h \in Sent /\ h # r
          /\ request[r].to = t /\ request[h].to = t
          /\ stage'[r] = "waiting" /\ stage'[h] = "handling"
      BY <1>1, <1>2, <1>5 DEF At, Handling
    <2>2. request[h].event = request[r].event /\ stage[h] \in {"handling", "answered"}
      BY <2>1, KinFacts DEF CallInv
    <2>3. h # m /\ h \in Handling(t)
      BY <1>1, <1>3, <1>4, <2>1, <2>2 DEF Handling, At
    <2>4. CASE r # m
      BY <1>1, <1>4, <2>1, <2>3, <2>4 DEF CallInv, NoKinAhead, At
    <2>5. CASE r = m
      <3>1. t = s /\ MustWait(s, m)
        BY <1>1, <1>3, <1>4, <2>1, <2>5
      <3>2. PICK g \in Handling(s) : request[g].event # request[m].event /\ Conflicts(g, m)
        BY <3>1 DEF MustWait
      <3>3. g \in Sent
        BY DEF Handling, At
      <3>4. Conflicts(g, h)
        BY <1>1, <2>1, <2>5, <3>2, <3>3, ConflictsSymmetric
      <3> QED
        BY <2>2, <2>3, <2>5, <3>1, <3>2, <3>4 DEF Inv, Exclusive
    <2> QED
      BY <2>4, <2>5
  <1> QED
    BY <1>6, <1>7 DEF CallInv

\* What the scan lets in had not been let in, and so is kin to none that waits.
LEMMA CallComplete ==
    ASSUME Inv, CallInv, NEW s \in Service, NEW d \in Handling(s), NEW ended,
           Complete(s, d, ended)
    PROVE  CallInv'
  <1> DEFINE n == Len(request)
  <1>1. /\ request \in Seq(Request) /\ stage \in Seq(Stage)
        /\ Len(stage) = n /\ n \in Nat /\ Sent = 1..n
    BY SentFacts DEF Inv
  <1>2. PICK in \in SUBSET At(s, "waiting") :
           /\ stage' = [r \in Sent |-> CASE r = d -> "answered"
                                        [] r \in in -> "handling"
                                        [] OTHER -> stage[r]]
           /\ request' = request
    BY DEF Complete
  <1>3. /\ d \in 1..n /\ stage[d] = "handling"
        /\ \A r \in in : r \in 1..n /\ stage[r] = "waiting"
    BY <1>1 DEF Handling, At
  <1>4. \A r \in 1..n : stage'[r] = IF r = d THEN "answered"
                                   ELSE IF r \in in THEN "handling" ELSE stage[r]
    BY <1>1, <1>2, <1>3
  <1>5. Sent' = 1..n
    BY <1>1, <1>2 DEF Sent
  <1>6. Callers'
    BY <1>1, <1>2, <1>3, <1>4, <1>5 DEF CallInv, Callers
  <1>7. NoKinAhead'
    <2> SUFFICES ASSUME NEW t \in Service, NEW r \in At(t, "waiting")',
                        NEW h \in Handling(t)', h \in Kin(r), Conflicts(h, r)
                 PROVE  FALSE
      <3>1. /\ \A h, r : Conflicts(h, r)' <=> Conflicts(h, r)
            /\ \A r : Kin(r)' = Kin(r)
        BY <1>2 DEF Kin, CallersOf, Conflicts, Builder
      <3> QED
        BY <3>1 DEF NoKinAhead
    <2>1. /\ r \in Sent /\ h \in Sent /\ h # r
          /\ request[r].to = t /\ request[h].to = t
          /\ stage'[r] = "waiting" /\ stage'[h] = "handling"
      BY <1>1, <1>2, <1>5 DEF At, Handling
    <2>2. stage[h] \in {"handling", "answered"}
      BY <2>1, KinFacts DEF CallInv
    <2>3. h \in Handling(t) /\ r \in At(t, "waiting")
      BY <1>1, <1>3, <1>4, <2>1, <2>2 DEF Handling, At
    <2> QED
      BY <2>3 DEF CallInv, NoKinAhead
  <1> QED
    BY <1>6, <1>7 DEF CallInv

\* A service that is called back in the middle of an action, however deep the
\* calls between services are nested, never keeps the call waiting behind one
\* of the procedures that wait for it.
THEOREM CallbacksGetIn == Safety => []CalledBack
  <1>1. Init => CallInv
    BY DEF Init, CallInv, Callers, NoKinAhead, Sent, At, Handling
  <1>2. Inv /\ CallInv /\ [Next]_vars => CallInv'
    <2> SUFFICES ASSUME Inv, CallInv, [Next]_vars PROVE CallInv'
      OBVIOUS
    <2>1. ASSUME NEW s \in Service, NEW kind \in Kind, Ask(s, kind) PROVE CallInv'
      <3>1. Len(request) + 1 \in Nat
        BY SentFacts DEF Inv
      <3> QED
        BY <2>1, <3>1, CallQueue DEF Ask
    <2>2. ASSUME NEW r \in executing, NEW s \in Service, NEW kind \in Kind,
                 Call(r, s, kind)
          PROVE  CallInv'
      <3>1. r \in 1..Len(request) /\ request \in Seq(Request)
        BY SentFacts DEF Inv, TypeOK
      <3>2. request[r] \in Request
        BY <3>1
      <3>3. request[r].event \in Nat /\ r \in Nat
        BY <3>1, <3>2 DEF Request
      <3> QED
        BY <2>2, <3>3, CallQueue DEF Call
    <2>3. ASSUME NEW s \in Service, Receive(s) PROVE CallInv'
      BY <2>3, CallReceive
    <2>4. ASSUME NEW s \in Service, Finish(s) \/ TimesOut(s) PROVE CallInv'
      BY <2>4, CallComplete DEF Finish, TimesOut
    <2>5. CASE request' = request /\ stage' = stage
      <3>1. /\ Sent' = Sent
            /\ \A t, st : At(t, st)' = At(t, st)
            /\ \A t : Handling(t)' = Handling(t)
            /\ \A h, r : Conflicts(h, r)' <=> Conflicts(h, r)
            /\ \A r : Kin(r)' = Kin(r)
        BY <2>5 DEF Sent, At, Handling, Conflicts, Builder, Kin, CallersOf
      <3> QED
        BY <2>5, <3>1 DEF CallInv, Callers, NoKinAhead
    <2>6. ASSUME NEW s \in Service, End(s) PROVE CallInv'
      <3>1. /\ request' = request /\ Sent' = Sent
            /\ \A t : At(t, "waiting")' = At(t, "waiting") /\ Handling(t)' = Handling(t)
            /\ \A r \in Sent : stage'[r] = IF request[r].to = s /\ stage[r] = "queued"
                                            THEN "dropped" ELSE stage[r]
        BY <2>6, EndFacts DEF Inv
      <3>2. /\ \A h, r : Conflicts(h, r)' <=> Conflicts(h, r)
            /\ \A r : Kin(r)' = Kin(r)
        BY <3>1 DEF Conflicts, Builder, Kin, CallersOf
      <3> QED
        BY <3>1, <3>2 DEF CallInv, Callers, NoKinAhead
    <2> QED
      BY <2>1, <2>2, <2>3, <2>4, <2>5, <2>6 DEF Next, vars, Shutdown
  <1>3. Inv /\ CallInv => CalledBack
    <2> SUFFICES ASSUME Inv, CallInv, NEW s \in Service, NEW r \in At(s, "waiting"),
                        NEW h \in Handling(s) \cap Ancestors(r)
                 PROVE  ~Conflicts(h, r)
      BY DEF CalledBack
    <2>1. h \in Kin(r)
      BY AncestorsAreKin DEF CallInv, At
    <2> QED
      BY <2>1 DEF CallInv, NoKinAhead
  <1> QED
    BY <1>1, <1>2, <1>3, InvInit, InvStep, PTL DEF Safety
================================================================================
