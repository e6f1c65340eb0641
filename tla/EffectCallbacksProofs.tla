------------------------ MODULE EffectCallbacksProofs ------------------------
(***************************************************************************)
(* Proofs about EffectCallbacks, for every set of registrations.           *)
(***************************************************************************)
EXTENDS EffectCallbacks, TLAPS

\* The entry is watched by a task that will come for it.
EntryWatched ==
    /\ entry.watcher = NoTask => entry.handlers = {}
    /\ entry.watcher # NoTask =>
            /\ task[entry.watcher] \in {"waiting", "fired"}
            /\ entry.watcher \notin aborted

\* Nothing is known of a registration before its handler is added.
AddedFirst ==
    /\ \A r \in entry.handlers : phase[r] = "added"
    /\ \A t \in Reg : \A r \in hands[t] : phase[r] = "added"
    /\ \A t \in Reg : task[t] # "none" => phase[t] = "added"
    /\ \A r \in called \cup lost \cup failed : phase[r] = "added"
    /\ \A t \in aborted : task[t] # "none"

\* A handler is in one place, and in none once it was called, dropped or
\* given up.
OnePlace ==
    /\ \A t, u \in Reg : t # u => hands[t] \cap hands[u] = {}
    /\ \A t \in Reg : hands[t] \cap entry.handlers = {}
    /\ \A t \in Reg : hands[t] \cap (called \cup lost \cup failed) = {}
    /\ entry.handlers \cap (called \cup lost \cup failed) = {}
    /\ called \cap (lost \cup failed) = {}

\* A task holds handlers from taking them to calling the last, and those it
\* calls are no longer registered.
Holding ==
    \A t \in Reg :
        /\ hands[t] # {} => task[t] \in {"taken", "calling"}
        /\ task[t] = "calling" => hands[t] \cap registered = {}

\* An active handler is somewhere.
Kept ==
    \A r \in Reg : phase[r] = "added" /\ Active(r) =>
        r \in entry.handlers \/ \E t \in Reg : r \in hands[t]

IInv == TypeOK /\ EntryWatched /\ AddedFirst /\ OnePlace /\ Holding /\ Kept

USE OwnerAssumption, RewatchingAssumption, MaxChangesAssumption, NoTaskAssumption

\* The state the callbacks start in satisfies the invariant.
LEMMA InitInv == Init => IInv
  <1> SUFFICES ASSUME Init PROVE IInv
    OBVIOUS
  <1>1. TypeOK
    <2>1. value \in 0..MaxChanges
      BY DEF Init
    <2>2. /\ basis \in [Reg -> 0..MaxChanges]
          /\ seen \in [Reg -> 0..MaxChanges]
          /\ added \in [Reg -> 0..MaxChanges]
      BY DEF Init
    <2>3. entry \in [watcher : Reg \cup {NoTask}, handlers : SUBSET Reg]
      BY DEF Init, NoEntry
    <2>4. hands \in [Reg -> SUBSET Reg]
      BY DEF Init
    <2>5. /\ phase \in [Reg -> {"idle", "read", "registered", "ready", "added"}]
          /\ task \in [Reg -> {"none", "waiting", "fired", "taken", "calling",
                               "ended"}]
      BY DEF Init
    <2> QED
      BY <2>1, <2>2, <2>3, <2>4, <2>5, Zenon DEF Init, TypeOK
  <1>2. EntryWatched /\ AddedFirst
    BY DEF Init, EntryWatched, AddedFirst, NoEntry
  <1>3. OnePlace /\ Holding
    BY DEF Init, OnePlace, Holding, NoEntry
  <1>4. Kept
    BY DEF Init, Kept
  <1> QED
    BY <1>1, <1>2, <1>3, <1>4 DEF IInv

\* The steps of the effect before its handler is added.
LEMMA EffectSteps ==
    ASSUME IInv, NEW r \in Reg, Change \/ Read(r) \/ Register(r) \/ Rewatch(r)
    PROVE  IInv'
  <1> USE DEF IInv, Active, outcome
  <1>1. CASE Change
    BY <1>1 DEF Change, effect, TypeOK, EntryWatched, AddedFirst, OnePlace,
                Holding, Kept
  <1>2. CASE Read(r)
    BY <1>2 DEF Read, TypeOK, EntryWatched, AddedFirst, OnePlace, Holding, Kept
  <1>3. CASE Register(r)
    <2> USE <1>3 DEF Register
    <2>1. TypeOK'
      BY DEF TypeOK
    <2>2. EntryWatched' /\ AddedFirst' /\ OnePlace'
      BY DEF TypeOK, EntryWatched, AddedFirst, OnePlace
    <2>3. Holding'
      BY DEF TypeOK, AddedFirst, Holding
    <2>4. Kept'
      BY DEF TypeOK, Kept
    <2> QED
      BY <2>1, <2>2, <2>3, <2>4
  <1>4. CASE Rewatch(r)
    BY <1>4 DEF Rewatch, TypeOK, EntryWatched, AddedFirst, OnePlace, Holding, Kept
  <1> QED
    BY <1>1, <1>2, <1>3, <1>4

\* A handler joins the entry or starts one, with a task of its own.
LEMMA AddStep ==
    ASSUME IInv, NEW r \in Reg, Add(r)
    PROVE  IInv'
  <1> USE DEF IInv, Active, Add, outcome
  <1>1. TypeOK'
    BY DEF TypeOK
  <1>2. EntryWatched'
    BY DEF TypeOK, EntryWatched, AddedFirst
  <1>3. AddedFirst'
    BY DEF TypeOK, EntryWatched, AddedFirst
  <1>4. r \notin called \cup lost \cup failed /\ \A t \in Reg : r \notin hands[t]
    BY DEF AddedFirst
  <1>5. OnePlace'
    BY <1>4 DEF TypeOK, EntryWatched, OnePlace
  <1>6. Holding'
    BY DEF TypeOK, Holding, AddedFirst
  <1>7. Kept'
    BY DEF TypeOK, EntryWatched, Kept
  <1> QED
    BY <1>1, <1>2, <1>3, <1>5, <1>6, <1>7

\* The watch fires.
LEMMA FireStep ==
    ASSUME IInv, NEW t \in Reg, Fire(t)
    PROVE  IInv'
  BY DEF IInv, Active, Fire, effect, outcome, TypeOK, EntryWatched, AddedFirst,
         OnePlace, Holding, Kept

\* A task takes the entry, its own or another's.
LEMMA TakeStep ==
    ASSUME IInv, NEW t \in Reg, Take(t)
    PROVE  IInv'
  <1> USE DEF IInv, Active, Take, effect, outcome, NoEntry
  <1>1. TypeOK'
    BY DEF TypeOK
  <1>2. EntryWatched'
    BY DEF TypeOK, EntryWatched
  <1>3. AddedFirst'
    BY DEF TypeOK, AddedFirst
  <1>4. hands[t] = {}
    BY DEF Holding
  <1>5. OnePlace'
    BY <1>4 DEF TypeOK, OnePlace
  <1>6. Holding'
    BY <1>4 DEF TypeOK, Holding
  <1>7. Kept'
    BY <1>4 DEF TypeOK, Kept, EntryWatched
  <1> QED
    BY <1>1, <1>2, <1>3, <1>5, <1>6, <1>7

\* A task takes the callbacks from the containers' states.
LEMMA CallAllStep ==
    ASSUME IInv, NEW t \in Reg, CallAll(t)
    PROVE  IInv'
  <1> USE DEF IInv, Active, CallAll, effect, outcome, After
  <1>1. TypeOK'
    BY DEF TypeOK
  <1>2. EntryWatched'
    BY DEF TypeOK, EntryWatched
  <1>3. AddedFirst'
    BY DEF TypeOK, AddedFirst
  <1>4. OnePlace'
    BY DEF TypeOK, OnePlace
  <1>5. Holding'
    BY DEF TypeOK, Holding
  <1>6. Kept'
    BY DEF TypeOK, Kept
  <1> QED
    BY <1>1, <1>2, <1>3, <1>4, <1>5, <1>6

\* A notification goes out, or is given up.
LEMMA NotifyStep ==
    ASSUME IInv, NEW t \in Reg, NEW r \in Reg,
           Notify(t, r) \/ NotifyFails(t, r)
    PROVE  IInv'
  <1> USE DEF IInv, Active, Notify, NotifyFails, effect, outcome, After
  <1>1. TypeOK'
    BY DEF TypeOK
  <1>2. EntryWatched'
    BY DEF TypeOK, EntryWatched
  <1>3. AddedFirst'
    BY DEF TypeOK, AddedFirst
  <1>4. OnePlace'
    BY DEF TypeOK, OnePlace
  <1>5. Holding'
    BY DEF TypeOK, Holding
  <1>6. Kept'
    BY DEF TypeOK, Kept, Holding
  <1> QED
    BY <1>1, <1>2, <1>3, <1>4, <1>5, <1>6

\* A task that was aborted ends with what it holds.
LEMMA CancelStep ==
    ASSUME IInv, NEW t \in Reg, Cancel(t)
    PROVE  IInv'
  <1> USE DEF IInv, Active, Cancel, effect, outcome
  <1>1. TypeOK'
    BY DEF TypeOK
  <1>2. EntryWatched'
    BY DEF TypeOK, EntryWatched
  <1>3. AddedFirst'
    BY DEF TypeOK, AddedFirst
  <1>4. OnePlace'
    BY DEF TypeOK, OnePlace
  <1>5. Holding'
    BY DEF TypeOK, Holding
  <1>6. Kept'
    BY DEF TypeOK, Kept, Holding
  <1> QED
    BY <1>1, <1>2, <1>3, <1>4, <1>5, <1>6

\* Callbacks are cleared, or their service stops.
LEMMA WithdrawSteps ==
    ASSUME IInv, NEW s \in Service, NEW ids \in SUBSET Reg,
           ClearCallbacks(s, ids) \/ Stop(s)
    PROVE  IInv'
  <1> USE DEF IInv, Active, effect, outcome
  <1>1. CASE ClearCallbacks(s, ids)
    BY <1>1 DEF ClearCallbacks, TypeOK, EntryWatched, AddedFirst, OnePlace,
                Holding, Kept
  <1>2. CASE Stop(s)
    BY <1>2 DEF Stop, TypeOK, EntryWatched, AddedFirst, OnePlace, Holding, Kept
  <1> QED
    BY <1>1, <1>2

\* The garbage is collected.
LEMMA GcStep ==
    ASSUME IInv, Gc
    PROVE  IInv'
  <1> DEFINE kept == {r \in entry.handlers : Active(r)}
  <1>1. CASE entry.watcher = NoTask \/ kept # {}
    <2>0. /\ entry' = [entry EXCEPT !.handlers = kept]
          /\ UNCHANGED <<task, aborted>>
          /\ UNCHANGED <<value, effect, registered, up, hands, cleared, outcome>>
          /\ sweep' = FALSE
      BY <1>1 DEF Gc
    <2> QED
      BY <1>1, <2>0 DEF IInv, Active, effect, outcome, TypeOK, EntryWatched,
                        AddedFirst, OnePlace, Holding, Kept
  <1>2. CASE ~(entry.watcher = NoTask \/ kept # {})
    <2>0. /\ entry' = NoEntry
          /\ task' = [task EXCEPT ![entry.watcher] =
                            IF @ = "waiting" THEN "ended" ELSE @]
          /\ aborted' = aborted \cup {entry.watcher}
          /\ UNCHANGED <<value, effect, registered, up, hands, cleared, outcome>>
          /\ sweep' = FALSE
      BY <1>2 DEF Gc
    <2>1. entry.watcher \in Reg
      BY <1>2 DEF IInv, TypeOK
    <2>2. TypeOK'
      BY <2>0, <2>1 DEF IInv, TypeOK, NoEntry, effect, outcome
    <2>3. EntryWatched'
      BY <2>0 DEF EntryWatched, NoEntry
    <2>4. AddedFirst'
      BY <2>0, <2>1, <1>2 DEF IInv, TypeOK, EntryWatched, AddedFirst, NoEntry,
                               effect, outcome
    <2>5. OnePlace'
      BY <2>0 DEF IInv, OnePlace, NoEntry, outcome
    <2>6. Holding'
      BY <2>0, <2>1 DEF IInv, TypeOK, Holding
    <2>7. Kept'
      BY <1>2, <2>0 DEF IInv, Kept, Active, NoEntry, effect, outcome
    <2> QED
      BY <2>2, <2>3, <2>4, <2>5, <2>6, <2>7 DEF IInv
  <1> QED
    BY <1>1, <1>2

\* Every step preserves the invariant.
LEMMA NextInv == IInv /\ [Next]_vars => IInv'
  <1> SUFFICES ASSUME IInv, [Next]_vars PROVE IInv'
    OBVIOUS
  <1>1. CASE UNCHANGED vars
    BY <1>1 DEF vars, IInv, TypeOK, EntryWatched, AddedFirst, OnePlace, Holding,
                Kept, Active
  <1>2. CASE Change
    <2>1. CASE Reg = {}
      BY <1>2, <2>1 DEF Change, effect, outcome, IInv, TypeOK, EntryWatched,
                        AddedFirst, OnePlace, Holding, Kept, Active
    <2>2. CASE Reg # {}
      BY <1>2, <2>2, EffectSteps
    <2> QED
      BY <2>1, <2>2
  <1>3. CASE \E r \in Reg : Read(r) \/ Register(r) \/ Rewatch(r)
    BY <1>3, EffectSteps
  <1>4. CASE \E r \in Reg : Add(r)
    BY <1>4, AddStep
  <1>5. CASE \E t \in Reg : Fire(t)
    BY <1>5, FireStep
  <1>6. CASE \E t \in Reg : Take(t)
    BY <1>6, TakeStep
  <1>7. CASE \E t \in Reg : CallAll(t)
    BY <1>7, CallAllStep
  <1>8. CASE \E t, r \in Reg : Notify(t, r) \/ NotifyFails(t, r)
    BY <1>8, NotifyStep
  <1>9. CASE \E t \in Reg : Cancel(t)
    BY <1>9, CancelStep
  <1>10. CASE \E s \in Service, ids \in SUBSET Reg : ClearCallbacks(s, ids)
    BY <1>10, WithdrawSteps
  <1>11. CASE \E s \in Service : Stop(s)
    BY <1>11, WithdrawSteps
  <1>12. CASE Gc
    BY <1>12, GcStep
  <1> QED
    BY <1>1, <1>2, <1>3, <1>4, <1>5, <1>6, <1>7, <1>8, <1>9, <1>10, <1>11, <1>12
       DEF Next

\* The invariant holds throughout.
LEMMA Invariance == Spec => []IInv
  BY InitInv, NextInv, PTL DEF Spec

\* The state of the callbacks has its type.
THEOREM CallbacksTypeCorrect == Spec => []TypeOK
  <1>1. IInv => TypeOK
    BY DEF IInv
  <1> QED
    BY <1>1, Invariance, PTL

\* However tasks, effects, clearing and collection interleave, no callback is
\* called twice (callbacks.rs add, detach_watcher, call; rpc.rs params).
THEOREM AtMostOnce == Spec => []CalledOnce
  <1>1. IInv => CalledOnce
    BY DEF IInv, TypeOK, OnePlace, CalledOnce, Places
  <1> QED
    BY <1>1, Invariance, PTL

\* A callback that is registered and was added is in the hands of somebody who
\* will call it (callbacks.rs add, gc, detach_watcher).
THEOREM NobodyForgotten == Spec => []SomebodyCalls
  <1>1. IInv => SomebodyCalls
    BY DEF IInv, EntryWatched, Kept, SomebodyCalls, Places
  <1> QED
    BY <1>1, Invariance, PTL
=============================================================================
