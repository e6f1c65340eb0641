---------------------------- MODULE ConcurrentActor ----------------------------
(***************************************************************************)
(* The actors that serialise what is asked of the services, and the calls  *)
(* that services make to one another through them                          *)
(* (shared-libs/crates/start-core/src/util/actor; the messages are those   *)
(* of service/action.rs and service/transition/backup.rs).                 *)
(*                                                                         *)
(* An actor handles several messages at once, and makes one wait that      *)
(* conflicts with a message being handled for another event.  A message's  *)
(* handler runs a procedure of the package in its container; the procedure *)
(* may ask things of this service or of another, for the same event, and   *)
(* waits for the answer.                                                   *)
(*                                                                         *)
(* Requests are numbered in the order they are sent, which is the order of *)
(* every actor's channel and of its list of waiting messages.              *)
(***************************************************************************)
EXTENDS Naturals, Sequences, FiniteSets

CONSTANTS
    Service,        \* the services, each with its actor
    Closable,       \* the services that are shut down at some point
    MaxRequests,    \* bound on the requests that are sent, ...
    MaxOther        \* ... and on those among them that are not RunAction

Kind == {"GetActionInput", "RunAction", "Backup"}

ASSUME ServiceAssumption == Closable \subseteq Service
ASSUME RequestBoundsAssumption == MaxRequests \in Nat /\ MaxOther \in Nat

VARIABLES
    request,    \* the requests sent: to whom, for which event, by which
                \* procedure (0: a user or the server), of which kind
    stage,      \* where each request is
    executing,  \* the requests whose procedure runs in a container
    runner,     \* each actor: "open", "closing" (shutdown called), "ended"
    due         \* the messages that were left in each actor's channel when it
                \* last took one: it takes them all before it does anything else

vars == <<request, stage, executing, runner, due>>

Stage == {"queued", "waiting", "handling", "answered", "dropped"}
Over == {"answered", "dropped"}     \* the sender has a result, or an error
Sent == 1..Len(request)
Request == [to : Service, event : Nat, caller : Nat, kind : Kind]

At(s, st) == {r \in Sent : request[r].to = s /\ stage[r] = st}
Handling(s) == At(s, "handling")

\* The conflicts_with of a handler and the ConflictBuilder behind it: a base
\* case, and the kinds it does not apply to.
Builder(kind) ==
    [everything |-> kind # "GetActionInput",
     except |-> IF kind = "GetActionInput" THEN {} ELSE {"GetActionInput"}]

\* Mutant: a backup is let in beside an action.
ConflictsBackupIn(h, r) ==
    LET b == Builder(request[h].kind)
    IN  b.everything # (request[r].kind \in b.except \cup {"Backup"})

Conflicts(h, r) ==
    LET b == Builder(request[h].kind)
    IN  b.everything # (request[r].kind \in b.except)

Init ==
    /\ request = <<>>
    /\ stage = <<>>
    /\ executing = {}
    /\ runner = [s \in Service |-> "open"]
    /\ due = [s \in Service |-> {}]

(***************************************************************************)
(* ConcurrentActor::queue.                                                 *)
(***************************************************************************)
Queue(s, event, caller, kind) ==
    /\ Len(request) < MaxRequests
    /\ kind # "RunAction" =>
          Cardinality({r \in Sent : request[r].kind # "RunAction"}) < MaxOther
    /\ runner[s] = "open"
    /\ request' = Append(request, [to |-> s, event |-> event,
                                   caller |-> caller, kind |-> kind])
    /\ stage' = Append(stage, "queued")
    /\ UNCHANGED <<executing, runner, due>>

\* The user runs an action or asks for its input, or the server backs up.
Ask(s, kind) == Queue(s, Len(request) + 1, 0, kind)

\* effects run_action and get_action_input, called by a procedure.
Call(r, s, kind) ==
    /\ r \in executing
    /\ kind # "Backup"
    /\ Queue(s, request[r].event, r, kind)

(***************************************************************************)
(* ConcurrentRunner::poll.                                                 *)
(***************************************************************************)

\* The messages that are let in with rs whose handlers run a procedure: a
\* backup's only prepares the transition.
Procedures(rs) == {r \in rs : request[r].kind # "Backup"}

\* Mutant: a message waits although it belongs to the event being handled.
MustWaitForItself(s, r) == \E h \in Handling(s) : Conflicts(h, r)

MustWait(s, r) ==
    \E h \in Handling(s) : request[h].event # request[r].event /\ Conflicts(h, r)

\* The runner takes the next message from its channel.
Receive(s) ==
    \E r \in At(s, "queued") :
        /\ \A q \in At(s, "queued") : r <= q
        /\ IF MustWait(s, r)
           THEN /\ stage' = [stage EXCEPT ![r] = "waiting"]
                /\ UNCHANGED executing
           ELSE /\ stage' = [stage EXCEPT ![r] = "handling"]
                /\ executing' = executing \cup Procedures({r})
        /\ due' = [due EXCEPT ![s] = At(s, "queued") \ {r}]
        /\ UNCHANGED <<request, runner>>

\* Mutants: the scan goes from the last message to the first; there is none.
LetInLast(s, h, in) ==
    /\ in \subseteq At(s, "waiting")
    /\ \A r \in At(s, "waiting") :
          r \in in <=>
              /\ Conflicts(h, r)
              /\ \A g \in (Handling(s) \ {h}) \cup {q \in in : q > r} :
                    ~Conflicts(g, r)

LetInNone(s, h, in) == in = {}

\* The scan of the waiting messages when handler h is done: in their order,
\* those that h kept out are let in if they conflict with no message that is
\* being handled, those just let in included.
LetIn(s, h, in) ==
    /\ in \subseteq At(s, "waiting")
    /\ \A r \in At(s, "waiting") :
          r \in in <=>
              /\ Conflicts(h, r)
              /\ \A g \in (Handling(s) \ {h}) \cup {q \in in : q < r} :
                    ~Conflicts(g, r)

\* h is done: it is answered and the waiting messages are scanned.
Complete(s, h, ended) ==
    \E in \in SUBSET At(s, "waiting") :
        /\ LetIn(s, h, in)
        /\ stage' = [r \in Sent |->
                        CASE r = h -> "answered"
                          [] r \in in -> "handling"
                          [] OTHER -> stage[r]]
        /\ executing' = (executing \ ended) \cup Procedures(in)
        /\ UNCHANGED <<request, runner, due>>

\* The requests that procedure r waits for.
Awaited(r) == {c \in Sent : request[c].caller = r /\ stage[c] \notin Over}

\* A handler's procedure returns, or the backup is prepared.
Finish(s) ==
    \E h \in Handling(s) : Awaited(h) = {} /\ Complete(s, h, {h})

\* Mutant: no procedure is given a time limit.
TimesOutNever(s) == FALSE /\ UNCHANGED vars

\* The handler's time limit is over.  The procedure is not stopped: it may
\* still make calls, and when it returns nobody hears of it.
TimesOut(s) ==
    \E h \in Handling(s) \cap executing : Complete(s, h, {})

\* ConcurrentActor::shutdown(FinishAll): the channel is closed.
Shutdown(s) ==
    /\ runner[s] = "open"
    /\ runner' = [runner EXCEPT ![s] = "closing"]
    /\ UNCHANGED <<request, stage, executing, due>>

\* The runner is done, and with it shutdown.  It does not look again whether
\* the channel is empty, only whether it is closed: the messages that came
\* after it emptied the channel are dropped, their senders told of an actor
\* that has exited.
End(s) ==
    /\ runner[s] = "closing"
    /\ At(s, "waiting") = {} /\ Handling(s) = {}
    /\ due[s] = {}
    /\ runner' = [runner EXCEPT ![s] = "ended"]
    /\ stage' = [r \in Sent |->
                    IF r \in At(s, "queued") THEN "dropped" ELSE stage[r]]
    /\ UNCHANGED <<request, executing, due>>

Next ==
    \/ \E s \in Service, kind \in Kind : Ask(s, kind)
    \/ \E r \in executing, s \in Service, kind \in Kind : Call(r, s, kind)
    \/ \E s \in Service : Receive(s)
    \/ \E s \in Service : Finish(s)
    \/ \E s \in Service : TimesOut(s)
    \/ \E s \in Closable : Shutdown(s)
    \/ \E s \in Service : End(s)

\* A runner is polled when it has something to do, procedures that wait for
\* nothing return, and time passes.
Fairness ==
    \A s \in Service :
        /\ WF_vars(Receive(s)) /\ WF_vars(Finish(s)) /\ WF_vars(TimesOut(s))
        /\ WF_vars(End(s))

Safety == Init /\ [][Next]_vars
Spec == Safety /\ Fairness

(***************************************************************************)
(* Properties.                                                             *)
(***************************************************************************)

\* The type invariant: only messages that were let in run a procedure.
TypeOK ==
    /\ request \in Seq(Request)
    /\ stage \in Seq(Stage)
    /\ Len(stage) = Len(request)
    /\ executing \subseteq {r \in Sent : stage[r] \in {"handling", "answered"}}
    /\ runner \in [Service -> {"open", "closing", "ended"}]
    /\ \A s \in Service : due[s] \subseteq At(s, "queued")
    /\ DOMAIN due = Service

\* No service handles two conflicting messages of different events at once:
\* no action runs beside another user's action or the preparation of a backup.
Exclusive ==
    \A s \in Service : \A h, r \in Handling(s) :
        Conflicts(h, r) => request[h].event = request[r].event

\* The procedures that wait, through calls of their own or of other services,
\* for request r.
Ancestors(r) ==
    LET up[n \in 0..Len(request)] ==
            IF n = 0 THEN {r}
            ELSE up[n - 1] \cup {request[q].caller : q \in up[n - 1] \ {0}}
    IN  up[Len(request)] \ {0, r}

\* A service that is called back in the middle of an action, by itself or by
\* the services it called, answers: a message never waits for one of those
\* that wait for it.
CalledBack ==
    \A s \in Service : \A r \in At(s, "waiting") :
        \A h \in Handling(s) \cap Ancestors(r) : ~Conflicts(h, r)

\* Conflicting messages are let in in the order they were sent, except those
\* of an event that is being handled.
OrderKept ==
    [][\A s \in Service : \A r \in Handling(s)' \ Handling(s) :
          \/ \E h \in Handling(s) : request[h].event = request[r].event
          \/ \A q \in 1..(r - 1) :
                request[q].to = s /\ stage[q] \in {"queued", "waiting"}
                    => q \in Handling(s)' \/ ~Conflicts(q, r)]_vars

\* shutdown(FinishAll) ends with a result for every sender.  Only an actor that
\* was shut down drops messages, and none that was sent before one it took.
Drained ==
    \A s \in Service : \A r \in Sent : request[r].to = s =>
        /\ runner[s] = "ended" => stage[r] \in Over
        /\ stage[r] = "dropped" =>
              /\ runner[s] = "ended"
              /\ \A q \in Sent : request[q].to = s /\ q > r => stage[q] = "dropped"

\* A message that waits is always kept out by one that is being handled, so
\* that the end of that one brings it in: none is forgotten in the list.
NotForgotten ==
    \A s \in Service : \A r \in At(s, "waiting") :
        \E h \in Handling(s) : Conflicts(h, r)

\* Every sender is answered, also when two services that are both in an
\* action call each other: the time limit breaks the circle.  Only a message
\* that an actor drops as it is shut down is answered by an error.
Answered ==
    (\E r \in Sent : stage[r] \notin Over) ~> (\A r \in Sent : stage[r] \in Over)
================================================================================
