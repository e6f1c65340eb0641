------------------------------- MODULE DbSync -------------------------------
(***************************************************************************)
(* How a web interface follows the database: db.subscribe gives it a dump  *)
(* and a websocket of revisions (start-core/src/db/mod.rs), a call of an   *)
(* RPC marked sync_db is answered with the revision the interface must     *)
(* have seen before the call resolves (middleware/db.rs, the live API      *)
(* service), and the client library applies what arrives to its cache      *)
(* (patch-db/client/lib/patch-db.ts).                                      *)
(*                                                                         *)
(* A revision is its number.  Those that touch the subscribed pointer are  *)
(* in scope; the others reach no subscriber, which is why a call whose     *)
(* last revision is out of scope needs the sync_db channel.                *)
(***************************************************************************)
EXTENDS Integers, Sequences, FiniteSets

CONSTANTS
    Call,           \* calls of RPCs marked sync_db, of any interface
    First,          \* the revision of the database when the interface starts
    MaxRevision,    \* bound on the revisions committed
    MaxSilent,      \* bound on the revisions that are not broadcast
    MaxDrops        \* bound on the connections that break or are closed

\* Setting up and initialising a server commits more than one revision.
ASSUME FirstAssumption == First \in Nat /\ First > 1
ASSUME MaxRevisionAssumption == MaxRevision \in Nat /\ MaxRevision >= First
ASSUME MaxDropsAssumption == MaxDrops \in Nat /\ MaxSilent \in Nat

VARIABLES
    seq,        \* Store.revision
    scope,      \* the revisions that touch the subscribed pointer
    silent,     \* ghost: those of them that no subscription was sent
    sync,       \* RpcContext.sync_db: the id last sent, and how many were sent
    link,       \* the subscription: where it stands
    sub,        \* DbSubscriber: rev, the queue of sub, the version sync_db saw
    dump,       \* the dump of the subscription that is being set up
    wire,       \* what the websocket carries, oldest first
    cache,      \* PatchDB.cache$: its id, and the revisions it shows
    live,       \* whether the cache holds a dump of this server yet
    call,       \* [Call -> phase]
    own,        \* [Call -> the revision its handler committed, 0 if none]
    header,     \* [Call -> X-Patch-Sequence of its answer]
    drops       \* connections that broke or were closed

server == <<seq, scope, silent, sync>>
calls == <<call, own, header>>
vars == <<seq, scope, silent, sync, link, sub, dump, wire, cache, live, call,
          own, header, drops>>

Message(n) == [id : 0..n, patch : BOOLEAN]
Phase == {"idle", "handled", "read", "answered", "waiting", "done"}

\* The type invariant: no message, held revision or sequence number is ahead of
\* the database, and a call's sequence is one of a committed revision.
TypeOK ==
    /\ seq \in First..MaxRevision
    /\ scope \subseteq 1..seq
    /\ silent \subseteq scope
    /\ sync \in [id : 0..seq, version : Nat]
    /\ link \in {"down", "dumped", "offered", "open", "closed"}
    /\ sub \in [rev : 0..seq, queue : Seq(1..seq), seen : Nat]
    /\ dump \in 0..seq
    /\ wire \in Seq(Message(seq))
    /\ cache \in [id : Nat, shows : SUBSET (1..seq)]
    /\ live \in BOOLEAN
    /\ call \in [Call -> Phase]
    /\ own \in [Call -> 0..seq]
    /\ header \in [Call -> 0..seq]
    /\ drops \in 0..MaxDrops

\* What was committed before the interface starts is in scope, and all in its
\* first dump.  LocalStorageBootstrap.init: nothing, or the document of an
\* earlier visit, whenever that was, under the revision 1.
Init ==
    /\ seq = First
    /\ scope = 1..First
    /\ silent = {}
    /\ sync = [id |-> First, version |-> 0]
    /\ link = "down"
    /\ sub = [rev |-> 0, queue |-> <<>>, seen |-> 0]
    /\ dump = 0
    /\ wire = <<>>
    /\ \/ cache = [id |-> 0, shows |-> {}]
       \/ \E old \in 0..First : cache = [id |-> 1, shows |-> 1..old]
    /\ live = FALSE
    /\ call = [c \in Call |-> "idle"]
    /\ own = [c \in Call |-> 0]
    /\ header = [c \in Call |-> 0]
    /\ drops = 0

(***************************************************************************)
(* The server.                                                             *)
(***************************************************************************)
Subscribed == link \in {"dumped", "offered", "open"}

\* Store::apply with its broadcast, under the write lock.
Commit(touches) ==
    /\ seq < MaxRevision
    /\ seq' = seq + 1
    /\ IF touches
       THEN /\ scope' = scope \cup {seq + 1}
            /\ sub' = IF Subscribed
                      THEN [sub EXCEPT !.queue = Append(@, seq + 1)] ELSE sub
       ELSE UNCHANGED <<scope, sub>>
    /\ UNCHANGED silent

\* A revision of the server itself.
CommitElsewhere(touches) ==
    /\ Commit(touches)
    /\ UNCHANGED <<sync, link, dump, wire, cache, live, calls, drops>>

\* Store::apply with a compaction that fails past its commit point: the
\* revision stays and is not broadcast, and whoever made it gets an error.
CommitSilent ==
    /\ seq < MaxRevision
    /\ Cardinality(silent) < MaxSilent
    /\ seq' = seq + 1
    /\ scope' = scope \cup {seq + 1}
    /\ silent' = silent \cup {seq + 1}
    /\ UNCHANGED <<sync, link, sub, dump, wire, cache, live, calls, drops>>

\* The handler of a call, which may change the database.
Handle(c) ==
    /\ call[c] = "idle"
    /\ call' = [call EXCEPT ![c] = "handled"]
    /\ UNCHANGED <<server, link, sub, dump, wire, cache, live, own, header, drops>>

HandleWrites(c, touches) ==
    /\ call[c] = "idle"
    /\ call' = [call EXCEPT ![c] = "handled"]
    /\ own' = [own EXCEPT ![c] = seq + 1]
    /\ Commit(touches)
    /\ UNCHANGED <<sync, link, dump, wire, cache, live, header, drops>>

\* Mutant of ReadSequence: the sequence as it was before the handler ran.
ReadSequenceEarly(c) ==
    /\ call[c] = "handled"
    /\ call' = [call EXCEPT ![c] = "read"]
    /\ header' = [header EXCEPT ![c] = IF own[c] > 0 THEN own[c] - 1 ELSE seq]
    /\ UNCHANGED <<server, link, sub, dump, wire, cache, live, own, drops>>

\* SyncDb::process_http_response reads the sequence ...
ReadSequence(c) ==
    /\ call[c] = "handled"
    /\ call' = [call EXCEPT ![c] = "read"]
    /\ header' = [header EXCEPT ![c] = seq]
    /\ UNCHANGED <<server, link, sub, dump, wire, cache, live, own, drops>>

\* ... and sends it to the subscriptions.
SendReplace(c) ==
    /\ call[c] = "read"
    /\ call' = [call EXCEPT ![c] = "answered"]
    /\ sync' = [id |-> header[c], version |-> sync.version + 1]
    /\ UNCHANGED <<seq, scope, silent, link, sub, dump, wire, cache, live, own,
                   header, drops>>

\* subscribe: the dump and the revision queue, in one step of the store ...
DumpAndSub ==
    /\ link = "down"
    /\ link' = "dumped"
    /\ dump' = seq
    /\ sub' = [sub EXCEPT !.rev = seq, !.queue = <<>>]
    /\ UNCHANGED <<server, wire, cache, live, calls, drops>>

\* ... then the sync_db receiver, which has seen what was sent before; the
\* answer goes out.
SubscribeSync ==
    /\ link = "dumped"
    /\ link' = "offered"
    /\ sub' = [sub EXCEPT !.seen = sync.version]
    /\ UNCHANGED <<server, dump, wire, cache, live, calls, drops>>

Real(id) == [id |-> id, patch |-> TRUE]
Synthetic(id) == [id |-> id, patch |-> FALSE]

\* DbSubscriber::recv, the branch of the revision queue.
RecvRevision ==
    /\ link = "open"
    /\ sub.queue # <<>>
    /\ sub' = [sub EXCEPT !.rev = Head(sub.queue), !.queue = Tail(sub.queue)]
    /\ wire' = Append(wire, Real(Head(sub.queue)))
    /\ UNCHANGED <<server, link, dump, cache, live, calls, drops>>

\* Mutant of RecvSync: the queue is not looked at.
RecvSyncAtOnce ==
    /\ link = "open"
    /\ sub.seen # sync.version
    /\ sub' = [sub EXCEPT !.seen = sync.version]
    /\ wire' = IF sync.id > sub.rev THEN Append(wire, Synthetic(sync.id))
               ELSE wire
    /\ UNCHANGED <<server, link, dump, cache, live, calls, drops>>

\* DbSubscriber::recv, the branch of sync_db.changed(): a revision that is
\* queued goes first, and the id of the notification is then forgotten.
RecvSync ==
    /\ link = "open"
    /\ sub.seen # sync.version
    /\ IF sync.id <= sub.rev
       THEN /\ sub' = [sub EXCEPT !.seen = sync.version]
            /\ wire' = wire
       ELSE IF sub.queue # <<>>
       THEN /\ sub' = [rev |-> Head(sub.queue), queue |-> Tail(sub.queue),
                       seen |-> sync.version]
            /\ wire' = Append(wire, Real(Head(sub.queue)))
       ELSE /\ sub' = [sub EXCEPT !.seen = sync.version]
            /\ wire' = Append(wire, Synthetic(sync.id))
    /\ UNCHANGED <<server, link, dump, cache, live, calls, drops>>

(***************************************************************************)
(* The interface.                                                          *)
(***************************************************************************)
UpTo(id) == {r \in scope : r <= id}

\* PatchDbSource gets the answer of subscribe: handleDump, and the websocket
\* is opened.
DumpArrives ==
    /\ link = "offered"
    /\ link' = "open"
    /\ wire' = <<>>
    /\ cache' = [id |-> dump, shows |-> UpTo(dump)]
    /\ live' = TRUE
    /\ UNCHANGED <<server, sub, dump, calls, drops>>

\* Mutant of Deliver: a revision that skips ahead is refused.
DeliverGapless ==
    /\ link = "open"
    /\ wire # <<>>
    /\ wire' = Tail(wire)
    /\ LET m == Head(wire)
       IN  cache' = IF m.id # cache.id + 1 THEN cache
                    ELSE [id |-> m.id, shows |-> cache.shows \cup
                                           (IF m.patch THEN {m.id} ELSE {})]
    /\ UNCHANGED <<server, link, sub, dump, live, calls, drops>>

\* processUpdates with one revision.
Deliver ==
    /\ link = "open"
    /\ wire # <<>>
    /\ wire' = Tail(wire)
    /\ LET m == Head(wire)
       IN  cache' = IF m.id < cache.id + 1 THEN cache
                    ELSE [id |-> m.id, shows |-> cache.shows \cup
                                           (IF m.patch THEN {m.id} ELSE {})]
    /\ UNCHANGED <<server, link, sub, dump, live, calls, drops>>

\* The connection breaks, or the continuation is not taken up in time; the
\* stream's catchError subscribes again.
Break ==
    /\ Subscribed
    /\ drops < MaxDrops
    /\ drops' = drops + 1
    /\ link' = "down"
    /\ wire' = <<>>
    /\ sub' = [sub EXCEPT !.queue = <<>>]
    /\ UNCHANGED <<server, dump, cache, live, calls>>

\* The server's store goes with what is queued all sent, and its websocket is
\* closed as complete.  The stream of PatchDbSource then neither fails nor
\* ends, and nothing subscribes again, ...
Close ==
    /\ link = "open" /\ wire = <<>> /\ sub.queue = <<>>
    /\ drops < MaxDrops
    /\ drops' = drops + 1
    /\ link' = "closed"
    /\ UNCHANGED <<server, sub, dump, wire, cache, live, calls>>

\* ... until the user logs out and in again.
LogIn ==
    /\ link = "closed"
    /\ link' = "down"
    /\ UNCHANGED <<server, sub, dump, wire, cache, live, calls, drops>>

\* rpcRequest has the answer ...
Answered(c) ==
    /\ call[c] = "answered"
    /\ call' = [call EXCEPT ![c] = "waiting"]
    /\ UNCHANGED <<server, link, sub, dump, wire, cache, live, own, header, drops>>

\* ... and resolves once the cache has caught up.
Resolve(c) ==
    /\ call[c] = "waiting"
    /\ cache.id >= header[c]
    /\ call' = [call EXCEPT ![c] = "done"]
    /\ UNCHANGED <<server, link, sub, dump, wire, cache, live, own, header, drops>>

Next ==
    \/ \E touches \in BOOLEAN : CommitElsewhere(touches)
    \/ CommitSilent
    \/ \E c \in Call : Handle(c)
    \/ \E c \in Call, touches \in BOOLEAN : HandleWrites(c, touches)
    \/ \E c \in Call : ReadSequence(c)
    \/ \E c \in Call : SendReplace(c)
    \/ DumpAndSub
    \/ SubscribeSync
    \/ RecvRevision
    \/ RecvSync
    \/ DumpArrives
    \/ Deliver
    \/ Break
    \/ Close
    \/ LogIn
    \/ \E c \in Call : Answered(c)
    \/ \E c \in Call : Resolve(c)

Spec == Init /\ [][Next]_vars

\* The server answers, the websocket task runs and what is sent arrives; the
\* interface subscribes again after a break.  Nothing else is promised: no
\* revision need be committed, no connection need break, nobody need log in.
Fairness ==
    /\ WF_vars(DumpAndSub)
    /\ WF_vars(SubscribeSync)
    /\ WF_vars(DumpArrives)
    /\ WF_vars(RecvRevision)
    /\ WF_vars(RecvSync)
    /\ WF_vars(Deliver)
    /\ \A c \in Call : /\ WF_vars(ReadSequence(c))
                       /\ WF_vars(SendReplace(c))
                       /\ WF_vars(Answered(c))
                       /\ WF_vars(Resolve(c))

FairSpec == Spec /\ Fairness

(***************************************************************************)
(* Properties.                                                             *)
(***************************************************************************)
\* What the interface shows is the document at the revision it claims to be
\* at, but for revisions that were never broadcast: synthetic revisions, sent
\* to move the id on, never jump over a change that is still queued, across
\* breaks, closes and resubscriptions (db/mod.rs recv, patch-db.ts
\* processUpdates).
CacheConsistent ==
    live => /\ cache.shows \subseteq UpTo(cache.id)
            /\ UpTo(cache.id) \ cache.shows \subseteq silent

\* A call that has resolved is reflected by the interface: the revision its
\* handler committed, and all before it that were broadcast, are shown, then
\* and ever after
\* (middleware/db.rs, the rpcRequest of the live API service).
ReadYourWrites ==
    \A c \in Call : call[c] = "done" =>
        /\ live
        /\ own[c] <= cache.id
        /\ UpTo(own[c]) \ cache.shows \subseteq silent \ {own[c]}

\* A change in the subscribed part of the database is eventually shown, unless
\* it was never broadcast or the server closes the websocket as complete
\* (dump_and_sub taken with the queue, recv, resubscription).
EventuallyShown ==
    \A r \in First..MaxRevision :
        r \in scope ~> \/ live /\ r \in cache.shows
                       \/ r \in silent \/ link = "closed"

\* A call that was answered resolves: "it waits for the PatchDB WebSocket to
\* catch up before resolving" (ts-modules/ARCHITECTURE.md).
CallReturns == \A c \in Call : call[c] = "waiting" ~> call[c] = "done"
=============================================================================
