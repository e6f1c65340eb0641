# StartOS in TLA+

This directory models the core of StartOS: the database everything is kept in
(patch-db), the actor that drives each installed package to the status the user
asked for, the update of a package with its rollback, the actors through which
services are asked to run actions, the ways a change of the database reaches a
task, a service's callback or a browser, and the port forwards that are
reconciled from it. Paths below are relative to the
repository; `CORE` is `shared-libs/crates/start-core/src` and `PDB` is
`shared-libs/crates/patch-db`.

## 1. Inventory

| Part | State it keeps | Operations | What is hard |
|---|---|---|---|
| patch-db store (`PDB/core/src/store.rs`) | document and revision in memory; main file (snapshot + log), `.bak`, `.bak.tmp`; file cursor | open, apply, compress, close; undo guard on drop | power loss and I/O errors between any two file operations, dropped futures, stale `.bak` |
| documents (`PDB/json-patch`, `PDB/json-ptr`, `PDB/core/src/patch.rs`) | none: functions of documents and patches | diff, patch with undo, scoping of a patch to a pointer | array indices that move, sharing of allocations, parts that appear and disappear |
| change feed (`PDB/core/src/subscriber.rs`) | per-pointer listeners, queues, cached dump, watch cursor | send, subscribe, recv, sync, peek, poll_changed, wait_for | lost wake-ups, overflow, a dump and a stream that do not fit |
| database synchronisation (`CORE/db/mod.rs`, `CORE/middleware/db.rs`, `PDB/client`, the web interface's live API) | sequence notification, websocket, client cache | subscribe, recv, answer with a sequence, processUpdates, resubscribe | notifications racing queued revisions, broken sockets |
| service callbacks (`CORE/service/effects/callbacks.rs`) | per-key watcher task and handlers | add, fire, call, clear_callbacks, gc | a task that removes its own handle, registration racing a change |
| port forwards (`CORE/net/forward.rs`, `CORE/net/net_controller.rs`) | leases, controller entries, mappings, kernel rules, upstream maps | bind and retire, a service's pass, add_range, sync, gc, restart | weak references, snapshots that are stale when used, failing scripts, rules that outlive the daemon |
| package status (`CORE/status/mod.rs`) | `desired`, `started` | start, stop, restart, started, backing_up, updating, init | several requests folded into one value |
| service actor (`CORE/service/service_actor.rs`, `service/transition`, `control.rs`, `service/effects/control.rs`) | the transition in flight, cooldown, stored backup future | reconcile loop, start, stop, backup, quiesce, shutdown | requests and crashes between an RPC and the write that records it |
| update and rollback (`CORE/service/service_map.rs`, `service/mod.rs`, `volume.rs`) | database entry, s9pk files, volume root, rollback point, restore marker | install, load (retry or undo), restore, resolve_pending, sweep, rebuild | three stores changed one at a time; cancel and crash anywhere |
| concurrent actor (`CORE/util/actor`) and actions (`CORE/service/action.rs`, `service/effects/action.rs`) | channel, waiting list, running handlers | queue, receive, re-check, shutdown; run_action, get_action_input, backup | conflicts, call-backs, circular calls, time limits |
| install, uninstall, restore, bulk backup | entry state, volumes, s9pk files, backup target | install, uninstall::cleanup, restore, backup_all | as for updates |
| other networking, containers, OS update, registry, tunnel, s9pk, signing, auth, front ends, router firmware | see `components` in PROJECT.json | | mostly external commands, cryptography or request/response over patch-db |

How the parts interact. All durable state of the server is one patch-db
document. A request (`start`, `restart`, …) never acts on a container: it
rewrites the package's `desired` status in a database transaction. The actor of
the package watches its entry and starts the one transition the entry calls
for; the transition calls into the container over RPC and then writes the
outcome back (`started`). The container calls the server back through effects
(`setMainStatus`, `action.run`, …). Backups and updates use the same mechanism:
they mark the entry (`backing-up`, `updating`), the actor stops main, and they
wait for that. Every committed change is broadcast, scoped to the pointers that
somebody subscribes to: tasks hold a `DbWatch`, browsers a websocket fed from a
subscription, containers a callback that is called once. The task of a service's
network watches its hosts and asks the forward controller for leases; the
controller keeps the kernel's rules in step with the leases and the interfaces.
Messages that need a procedure of the package (actions, the
preparation of a backup) go through the package's concurrent actor.

What makes each part correct: the store never loses an acknowledged patch and
always reopens; the entry and the container agree when nothing is in flight, a
backup never runs beside main, no request is lost or unanswered; after an
update that failed, was cancelled or interrupted, code and data are of one
version; conflicting messages exclude one another without deadlock; whoever
follows the database sees all of it, in order, and is told; the kernel's rules
are those that the bindings call for. The hazards
behind these, at their lines, are under `hazards` in PROJECT.json.

## 2. Modules

| Module | Models |
|---|---|
| `DurableLog` | the abstract promise of a store: a log grown by acknowledged patches, at most one unacknowledged patch more after a stop |
| `PatchDbStore` | the store, one action per `.await` of open, apply and compress |
| `PatchDbProofs` | theorems about `PatchDbStore` and `JsonPatch` |
| `PackageStatus` | the status algebra, as operators |
| `ServiceActor`, `ServiceActorProofs` | one package: entry, actor, container, callers of backup and quiesce; uses `PackageStatus` |
| `PackageUpdate`, `PackageUpdateProofs` | an update of one package with everything that undoes it |
| `ConcurrentActor` | the actors of several services and the calls between them |
| `ConcurrentActorProofs` | theorems about `ConcurrentActor` |
| `JsonPatch` | diff, patch, undo and scoping, their loops as recursive functions, driven by changes between documents and puts at pointers |
| `PatchDbFeed`, `PatchDbFeedProofs` | broadcast, watches and JSON streams |
| `DbSync`, `DbSyncProofs` | one web interface following the database, and its calls |
| `EffectCallbacks`, `EffectCallbacksProofs` | one key of the callback registry |
| `PortForwards`, `PortForwardsProofs` | services, the forward controller, the kernel's rules and the gateways |
| `MC*` | the instances for TLC (symmetry sets; constants are in the `.cfg`s) |

The modules meet at the store's promises: `PatchDbStore` says which revisions
there are, `JsonPatch` that scoping one to a pointer gives that pointer's next
value, `PatchDbFeed` (which takes both as given: a revision is a number and the
set of pointers it touches) that a watch or stream holds them all, and `DbSync`,
`EffectCallbacks`, `PortForwards` and `ServiceActor` take a watch for what
`PatchDbFeed` shows it to be.

Operators named after a fault (`RollBackKeepsRevision`, `RequiredTransitionEager`, …)
stand before the definition they vary. They are not used by the specifications;
substituting one for its original must break the property it is listed with
under `mutants` in PROJECT.json, which shows that the property depends on that
piece of code.

### PatchDbStore

`persistent`, `revision`, `cursor` are the fields of `Store` and `FileStorage`;
`undo` is what `TentativeUpdated` would restore. A document is the sequence of
patches applied to it, so applying is `Append`. `disk` is what the running
system sees. `images` is the set of disks a power loss may leave: an unsynced
operation adds to it (with a torn variant for writes), a sync collapses it. The
file system is assumed to journal metadata in order; contents written and not
synced may be lost or torn.

| Action | Code |
|---|---|
| `OpenReplay` | `Store::open`: rename of `.bak`, replay, then compaction |
| `Apply(p)` | `apply` up to the choice between append and compaction |
| `AppendSeek`, `AppendWrite`, `AppendSync` | truncation to the cursor, write, sync + broadcast + return |
| `CompressCommit`, `CompressTruncate`, `CompressRewrite`, `CompressFlush`, `CompressRemove(Fails)` | `compress`, the rename to `.bak` being the commit point |
| `FailBeforeCommit`, `FailAfterCommit` | an I/O error, with or without the undo |
| `Cancel` | the caller drops the future |
| `Stop`, `PowerLoss` | close, and the machine |

`Faults` selects which operations may fail: `append`, `precommit` (up to the
rename), `rewrite` (main file after the rename), `remove` (of `.bak`).

### ServiceActor and PackageStatus

`desired`, `started`, `blocked` are the entry (`blocked` stands for
`has_blocking_task`); `task` is the transition in flight and its step (`call`:
RPC to be made, `rpc`/`reported`: main launching, `db`: outcome to be written,
`work`: backup procedure running); `wake` is whether the loop's select has
something to return for; `cooldown` the sleep after an error. `system`
distinguishes packages for the current OS from legacy ones (`embassy`), whose
main loop reports its status itself and whose `stopped` report is not awaited
(`late`). `backup`, `cell` and `update` are the callers of `Service::backup` and
`quiesce`. `Crash`/`Boot`/`Initialized` kill the server and load the package
again with the normalisation of `StatusInfo::init`. The ghost `halfway` is set
when the container acted and the write that records it failed; from then on the
code itself makes no promise about the entry, and the safety properties say so.

### PackageUpdate

`entry`, `files` and the trees `live`, `bak` (`.install-backup`), `tmp`, `aside`
(`.restore-old`) are the three stores an update changes. A tree is abstracted
to whose data it holds. `pc` is the step of the one update, load or boot in
progress (the service's write lock serialises them); `prev` is whether the update
found a service to replace, or a package whose service had failed to load. The ghost `excused` records
the three ways of section 5 in which the code leaves the rollback guarantee, so
that the properties of the passing run are not refuted by known findings and
still cover every other path. Renames, snapshots, subvolume deletions and
database commits are taken as atomic and durable (the latter is what
`PatchDbStore` is about).

### ConcurrentActor

`request` is the sequence of all requests sent (target, event id, calling
procedure, kind), `stage` where each is, `executing` the procedures running in
containers, `runner` the state of each actor. `Conflicts` is the matrix of the
messages the service actor really handles: `RunAction` conflicts with all but
`GetActionInput`, `Backup` with all but `GetActionInput`, `GetActionInput` with
nothing. A procedure may call its own or another service with its own event id
(`Call`) and then waits. A request of a user gets a fresh event id. `due` is what
was in the channel when a shutdown closed it: the runner takes that in before it
can find nothing left to do. It does not look whether the channel is empty when it
ends, so `End` drops what came later, and the senders get an error.

### JsonPatch

A value is null, a string, an array or an object; a pointer is a sequence of
segments. `Add`, `Delete`, `Replace` return the document and what was there;
`ApplyPatches` performs the operations in turn and collects those that undo them,
or undoes them if one fails; `Scoped` cuts one operation down to a pointer.
`Diff` is `diff`, with the sharing of allocations as a parameter, since `ptr_eq`
decides which elements of two arrays it takes for the same. `DiffMut` is one
level of `diff_mut`, and `deeper` in it the level below: `Diff` is a recursive
function of the number of levels, as `Get`, `Update`, `Course` and `DiffArrays`
are of the number of segments, operations or rounds. `DiffElement` is one round
of the three loops over two arrays, which differ in where they look for a match.
The state machine applies `ApplyFunction` (a new root, any sharing of allocations
with the old one) and `Put`, keeps one `view` per watched pointer up to date from
the scoped patches, and records whether the undo gives the document before.

Constants: `Index` is the sequence of the segments that parse as array indices
(usize); an array of a caller is at most half as long, because a patch from one
array to another may for a moment need the places of both. `Depth` bounds the
nesting of documents and of the values put (`Nested`). A pointer that is watched
leads into no array of any document or value put (`Keyed`, in `PointerAssumption`):
the pointers that the server's tasks and effects watch and the interface's `/public`
all lead through objects. A segment may still parse as an index, as the port of
`/bindings/{port}/interfaces/{id}` does (`net/interface.rs`), where the document has
an object keyed by numbers; the run watches such a pointer. The RPC functions
that subscribe take any pointer; one to an element of an array would not follow
the element when others before it come or go, which `for_path` does not look at.
The segment `-` (append) is not a target: `diff` never writes it.

### PatchDbFeed

`log` is the history, `listeners` the broadcast's map, `watch` the `DbWatch`
values with `state`, `queue` and `seen`, `json` the bounded streams. `Apply`
commits and broadcasts under one lock; `ApplyUnannounced` is the compaction that
fails after its commit point, whose revision is never broadcast (`silent`).
`Sync`, `PeekAndMarkSeen`, `PollChanged`, `WaitFor`, `WaitForAgain` and
`CancelWait` are the operations of a watch, `JsonRecv` that of a stream, whose
channel (`Pushed`, tokio's broadcast) drops its oldest message when full.
`shown` is what the holder of a watch was last told of.

### DbSync

`sync` is the `watch` channel with the sequence of the last answered call,
`sub` the `DbSubscriber` with its queue and the version of `sync` it has seen,
`wire` the socket, `cache` what the client shows. `DumpAndSub` and
`SubscribeSync` are the two halves of `subscribe`; `RecvRevision` and `RecvSync`
the two branches of its select; `Deliver` is `processUpdates`; `Break` loses the
socket with what it carried, and the client subscribes again. `Close` is the other
end of a socket: the server closes it as complete when its store goes, the client's
stream neither fails nor starts anew, and only a login (`LogIn`) subscribes again.
`CommitSilent` is the revision that a failed compaction leaves without a broadcast
(`silent`). A call goes through `Handle` (and perhaps a commit),
`ReadSequence`, `SendReplace`, `Answered` and `Resolve`, each an await of the
middleware or the client.

### EffectCallbacks

A registration `r` reads the value with a watch (`Read`), registers its id with
the container (`Register`), perhaps makes its watch again (`Rewatch`,
`getServiceInterface`) and is added. The first one in an entry spawns its task;
`Fire` is its watch's `changed()`, `Take` the moment it gets the map's mutex,
`CallAll` and `Notify` the calls. The handler is taken before its service is
notified: `NotifyFails` is the notification that is given up after its retries and
logged (`failed`). `Gc` drops entries with nobody active and so
aborts their watcher, which `Cancel` ends at its next await.

### PortForwards

`want` is the database, `held` the leases of a service, `pass` its task's pass
over a snapshot (`goal`), `queue` the controller's channel, `entries` its state
with weak references to leases, `mappings` the rules with weak references held by
entries, `kernel` the rules installed, `upstream` what gateways are asked for. A
lease is alive while a service, a queued request or the request in hand holds it
(`Live`). `TakeForward`, `TakeSync`, `TakeNet` begin the controller's three jobs;
`SkipRow`, `ReuseRule`, `ChangeRule`, `Unforward`, `Forward`, `EndRows` are
`InterfaceForwardEntry::update`, an await at a time; `GcRule`, `EndSync` its end.
`Remove` aborts a service's task in the middle of a request.

Scripts fail in two ways. `Fail`: the script cannot be run, its caller gets an error
and the job ends there. `Refused`: nft does not carry out the transaction, the script
goes on (it has no `set -e`) and exits 0, and its caller takes the rule for installed
or removed. `Restart` loses all but the database and the kernel's rules, which
`RemoveStale` clears; when the rules cannot be listed it is told that there are none
and leaves some. The ghost `failed` holds the rules whose own last installation or
removal failed in one of these ways, and the properties about rules are stated up to
them.

`AvailablePorts` frees a port when its binding goes, and does not wait for what is
left of it. The ghost `owner` is the service that a port was last given to, and
`rushed` is set when a port is given to another one while that one still holds the
lease of an earlier turn, or some service may still ask for the port in the pass it
is in (`Rush`). Such changes are in the model and in the run. A service that unbinds
a port and binds it again is no such case, whatever it holds or asks for. What the
code does after a rush is in section 5; `GcSpares`, `Settled` and
`EventuallyForwarded` are stated until one happens.

## 3. Runs

| Run | Instance | Shows |
|---|---|---|
| `store` | 2 patches (symmetric), interval 2, 5 revisions, faults `append`, `precommit` | `CrashSafe`, `ReadsAcknowledged`, and that the store implements `DurableLog` (`LogSpec`) |
| `store_faults` | 1 patch, interval 3, 7 revisions, all faults | `AlwaysOpens`, `RevisionSurvives`, `KeepsAcknowledged` survive every fault |
| `actor` | both systems, all faults, 5 requests, 2 late reports | agreement of entry and main, exclusion of backup and main, restarts kept, intent kept, all requests served |
| `update` | all faults, 3 crashes, 2 updates (of a loaded package or not), 2 rebuilds | `OldDataKept`, `NeverOnEmptyRoot`, `Consistent`, `ComesToRest` |
| `concurrent` | 2 services, one of them shut down, 4 requests of which one is not an action | `Exclusive`, `CalledBack`, `NotForgotten`, `OrderKept`, `Answered` |
| `feed` | 2 nested pointers, 1 watch, 2 JSON streams of capacity 1, 3 revisions, 1 silent | `WatchFollows`, `NoLostWakeup`, `JsonFollows`, `WaitReturns` |
| `json_patch` | every pair of 21 documents, arrays up to length 3, 4 sharings, 5 targets with 2 values, 5 watched pointers, one of them through a key that parses as an index, `Depth` 4 | `Reached`, `ViewsFollow`, `UndoRestores` |
| `sync` | 2 calls, 2 commits, of which 1 may be silent, 1 socket that breaks or is closed, no or a stale cache | `CacheConsistent`, `ReadYourWrites`, `EventuallyShown` |
| `callbacks` | 2 registrations of 2 services, 2 changes, 2 clears | `CalledOnce`, `SomebodyCalls`, `ChangeCalls` |
| `forwards` | 2 services, 2 ports, 2 addresses, 3 changes, 1 failure, 1 restart | `Accounted`, `GcSpares`, `Settled`, `EventuallyForwarded` |
| `update_resumed`, `forward_handover` | the fewest faults needed | the violations of section 5 that the ghosts `excused` and `rushed` set aside in the passing runs |

Why the bounds are enough. Store: with interval 2 or 3 a run meets append,
compaction, failure of either and reopen in every order, twice; the theorems
hold for any bound. Actor: a restart in the middle of a start needs two
requests, a backup and a crash around it two more; five leaves one to spare.
Update: the longest recovery is an update that crashes, a rollback that crashes
between its renames, and a boot that crashes again: three; a second update meets
the debris of the first. Concurrent: two actions that call each other are four
requests, the smallest circle; three of one service waiting on a fourth are the
smallest case in which two waiting messages exclude each other. Feed: two streams
of one pointer share a dump and a channel; with capacity 1 the second revision
overflows it, and the third is the one a stale dump would miss; the safety
properties are theorems. Documents: the arms of `diff_mut` differ by which array
is longer and which elements are the same, all of which arrays of up to three
elements meet. Sync: one call whose revision is out of scope, one that races it.
Callbacks: a stale watcher takes an entry made by a second registration.
Forwards: three changes give a binding, move it and take it away, or do so for
two services on one port; a range and a single port meet on port 1. Six runs may
end (`CHECK_DEADLOCK FALSE`) because their environment runs out of requests.

The mutants listed in PROJECT.json show of each property that it depends on the
code: e.g. without the re-arming of a dead reference in `add_forward`
(`RearmNot`) `GcSpares` fails, and with an undo in the order of the patch
(`UndoFirstToLast`) `UndoRestores`.

### Fairness

`ServiceActor`: the loop is polled when woken, calls return, cooldowns end and a
crashed server boots (weak fairness). All are tokio tasks or timers, and systemd
restarts the server. Starting and stopping main and recording it may fail any
number of times and are retried after a cooldown; strong fairness says that a
package whose start is retried for ever starts at some point, which the code can
only hope for, and without which `StartHonoured` would be about the package. No
fairness is assumed of user requests, failures or crashes; requests and crashes
are bounded.
`PackageUpdate`: whatever is in progress continues, and the machine boots
(`WF(Step)`); crashes are bounded. `ConcurrentActor`: runners are polled,
procedures that wait for nothing return, timers fire. `PatchDbFeed`: a task whose
channel holds something is polled. `DbSync`: the server answers, the socket's
task runs, what is sent arrives or the socket breaks, and the client resubscribes
(its retry loop); nobody need log in again after a close. `EffectCallbacks`: tasks are
polled, effects run to their end, and a notification gets through or is given up.
`PortForwards`: the controller and the services' tasks are polled and scripts
end. `PatchDbStore` and `JsonPatch` state no liveness.

## 4. Proofs

The theorems are of `Spec` (`Safety` where that states fairness, `DocSpec` for the
documents), or of the operators themselves (`DiffPatched`, `DiffScoped`), for every
value of the constants that satisfies the module's named ASSUMEs.

`PatchDbProofs`, about the store, for every set of patches, interval, bound and set of
faults (the named ASSUMEs of `PatchDbStore`):

* `TypeCorrect`: `Spec => []TypeOK`.
* `Openness`: `Spec => []AlwaysOpens`, and `RevisionIsKept`:
  `Spec => []RevisionSurvives`, with no assumption on what fails. The
  inductive invariant `FaultInv` says of every image that it is sound: a `.bak` that
  is there is whole, without one the main file is readable, and revision and length
  agree in every snapshot. It says so of `disk` too, which later images are made
  from, and that memory's revision is its document's length and one more than
  `undo`'s. Where a compaction failed half way the main file may be torn; what has to
  be carried along is that a `.bak` is there then, and that without one the cursor
  is within the log, so that the truncation before an append cuts at a record.
* `Durability`: `Spec => []CrashSafe`, under `NoFaultAfterCommit` (`rewrite` and
  `remove` not in `Faults`; section 5 shows that the theorem is false without
  it). The strengthening fixes, per `pc`, what each file of each image recovers
  to: the acknowledged document before the commit point, that and the patch in
  flight after it; and that between applies every image agrees with the log up to
  `cursor`, except for a torn or whole unacknowledged record beyond it.
* `CleanMemory`: `Spec => []ReadsAcknowledged`, and `NoShadowedLog`:
  `Spec => []NoStaleBak`, under the same assumption, from the same invariant.
* `AcknowledgedAreKept`: `Spec => []KeepsAcknowledged`, whatever fails. What the
  undo would restore is the acknowledged document or an extension of it, which is
  the part that has to be carried along.
* `Refinement`: `Spec => LogSpec`, the mapping being `log <- acked`,
  `up <- pc # "closed" /\ ~opening`; each action is a step of `DurableLog` or a
  stutter, `OpenReplay`'s compaction being the `Restart`.

`PatchDbProofs`, about the documents, for every set of documents, values, pointers
and sharings, every nesting and every length of arrays (the named ASSUMEs of
`JsonPatch`: `IndexAssumption`, that the indices are distinct segments;
`DocumentAssumption` and `PointerAssumption`, the constants as in section 2):

* `DiffPatched`: the patch between two documents applies, gives the second, and its
  undo gives the first. `DiffScoped`: what `for_path` leaves of it for a pointer that
  leads into no array of the second document (`Keyed`) applies to what the pointer
  shows in the one and gives what it shows in the other.
* `DocReached` (`[]Reached`), `DocViewsFollow` (`[]ViewsFollow`), `DocUndoRestores`
  (`[]UndoRestores`) of `DocSpec`. The inductive invariant `DocInv` is their
  conjunction with `Good(doc, Depth)`, that the document is nested less deep than
  `Depth` with room in its arrays, and with `AllKeyed(doc)`, that no watched pointer
  leads into an array of it: `diff` and `for_path` are right only for such
  documents, and a `put` below a pointer must leave one behind.

  The argument. `Step(d, o, e)` says that the operation `o` found what it is for
  (something to remove or replace, a parent to add to) and made `e` of `d`. A step
  is undone by `UndoOf` (`StepUndone`), and `Scoped` to a pointer that leads into no
  array it makes the next view of the last one (`StepScoped`). `Leads` strings steps
  together, so that a patch that leads from `f` to `t` applies, is undone last to
  first (`LeadsPatch`, `LeadsUndone`), and can be scoped (`LeadsScoped`) and
  prefixed (`LeadsPrepended`). What is left is that `Diff(f, t, shared)` leads from
  `f` to `t` (`DiffLeads`). `Changes(ops, to, a, b)` says that the operations make
  `b` of the `a` at the pointer `to` whatever is around it; that composes. The object
  arm goes through objects with some keys done (`Mixed`, `ObjectsChange`); the array
  arm through arrays with the new elements up to `ti` followed by the old ones from
  `fi` on (`Patched`, `ArraysChange`), whichever round is taken; one level changes
  what it should if the level below does (`MutChanges`), and `Depth` levels reach the
  bottom (`DiffChanges`).

  The induction over segments, operations, rounds and levels is made on sets of
  numbers (`SetInduction`, from the least element of a set that is not empty,
  `LeastNat`), and each recursive function is first shown to satisfy its equation
  (`Walks`, `Lifts`, `Courses`, `Flattens`, `Rounds`, `Levels`). So no induction
  principle with an operator parameter is needed.

`ConcurrentActorProofs`, for every set of services and any number of requests:

* `Exclusion`: `Safety => []Exclusive`. Handling sets are shown conflict-free up
  to equal events; the lemma about `LetIn` carries the argument, since several
  messages enter in one step and must also agree with each other.
* `NothingLost`: `Safety => []NotForgotten`: a message waits only while one it
  conflicts with is handled.
* `ShutdownDrains`: `Safety => []Drained`. An actor that has ended has answered what
  it took from its channel and all that was sent before that; only messages after
  the last one it took are dropped. It needs `Fifo` (below), and that what was in
  the channel at the shutdown is still due.
* `LetInInOrder`: `Safety => OrderKept`, an action property. `OrderKept` compares
  a message with those sent before it that are still in the channel, so it needs
  `Fifo`: whatever left a channel was sent before what is still in it.
* `CallbacksGetIn`: `Safety => []CalledBack`, for chains of calls of any length.
  `CallInv` says that a procedure that calls has been let in and that its event
  goes with the call (`Callers`), and that no request in `Kin(r)`, the least set
  with `r` that is closed under callers, keeps `r` waiting (`NoKinAhead`). The
  recursive function of `Ancestors` stays within `Kin`: a number at which it first
  leaves it does not exist, which is the induction, made through the least
  counterexample (`WFMin`) and the function's equation (`Climbs`).
* `RequestsTypeCorrect`: `Safety => []TypeOK`.

`ServiceActorProofs`, for any number of requests, crashes and failures:

* `ActorTypeCorrect`: `Safety => []TypeOK`.
* `EntryIsRight`: `Safety => []EntryMatchesMain`, `NothingBesideBackup`:
  `Safety => []BackupOnlyWhenStopped`, and `RestartIsKept`:
  `Safety => []RestartRemembered`. None is inductive: what main is when a transition has ended depends on what it was at
  each of its steps. `InStep` says that, step by step; `Owed` says that a restart
  that is owed is never the one the start in flight will complete
  (`Restarting(FALSE)`), which needs the lemmas on the status algebra
  (`RunStateKept`, `WhatBecomes`).
* `IntentIsTheUsers`: `Safety => IntentKept`, an action property, from the type
  invariant and `RunStateKept`.

`PackageUpdateProofs`, for any number of updates, rebuilds and crashes:

* `UpdateTypeCorrect`, `RollbackPossible` (`[]OldDataKept`), `Loadable`
  (`[]NeverOnEmptyRoot`), `S9pkIsThere` (`[]EntryHasS9pk`), `OneVersion` (`[]Consistent`). The
  invariant has five parts: which state the entry is in at each step, and that an
  update begins with a service running exactly if it found one (`Steps`),
  which s9pk files there must be (`S9pks`), that a root is missing only beside a
  backup that is to land and that a restore is pending only where it is resolved
  before a service starts (`Trees`), where the old data is (`Rollback`), and that
  a committed update runs on its own data (`Versions`). `NeverOnEmptyRoot` and
  `EntryHasS9pk` hold without any excuse; `OldDataKept` and `Consistent` as long
  as `excused` is empty.

`PatchDbFeedProofs`, for any pointers, subscribers, revisions and capacity:

* `WatchesFollow` (`[]WatchFollows`), `NoWakeupIsLost` (`[]NoLostWakeup`),
  `JsonHasNoGap` (`[]JsonGapless`), `JsonIsComplete` (`[]JsonFollows`),
  `FeedTypeCorrect`. The invariant says of every live watch that its sender is
  among its pointer's listeners (pruning must not lose it), of a JSON stream that
  what it has received and what is queued make up the value until it overflows,
  and of a cached dump that it is current for all but silent revisions, which is
  what makes sharing it sound. `FeedTypeCorrect` includes `OnlyMade`: whatever is
  queued, cached, held or received is a revision that was made.

`DbSyncProofs`, for any calls, commits (silent ones too), breaks and closes:

* `SyncTypeCorrect`, `CacheIsConsistent` (`[]CacheConsistent`), `WritesAreRead`
  (`[]ReadYourWrites`). The invariant is about the stream: socket and queue,
  taken together, hold every revision in scope that was broadcast (`Told`) after the
  cache's (or the dump's), in order, and no message, synthetic ones included, is ahead of a revision that
  comes after it; a call's header is not below its own revision, which is not silent.

`EffectCallbacksProofs`, for any registrations and services:

* `CallbacksTypeCorrect`, `AtMostOnce` (`[]CalledOnce`), `NobodyForgotten`
  (`[]SomebodyCalls`). A handler is in one place (`OnePlace`), those called, lost or
  given up among them, an entry has a
  watcher that will come for it (`EntryWatched`), and an active handler is
  somewhere (`Kept`).

`PortForwardsProofs`, for any services, ports, addresses and networks, and any
number of changes, failures and restarts:

* `ForwardsTypeCorrect` and `RulesAreAccounted` (`[]Accounted`), through failures that
  are reported and failures that are not. `Accounted` is
  not inductive: a mapping must be filed under its rule's own address, the address
  whose rule is being exchanged must have no mapping, and there is none before the
  stale rules of a previous run are removed (`LedgerKept`: `[]Ledger`).

No theorem of this module has a hypothesis beyond the ASSUMEs. What does not survive a
port that changes hands too early is stated for states with `~rushed` (section 2),
which is part of the state and not of the specification: the steps that set it are
taken like any other, and a restart clears it.

* `LeasesInHand` (`[]HandInv`) and `LeasesStayKnown` (`[](~rushed => LeaseKnown)`). A
  service awaits the one message it sent (`Awaited`, `OneEach`) and the request in
  hand has been entered (`InHand`), always. Until a rush, one service at most claims
  a port, its owner or one that may still ask (`OneClaim`), nobody asks for a port
  behind a request that is awaited (`LastAsks`), and an owner's lease is in its port's
  entry with no request on its way that could replace it (`FirmKnown`). `LeaseKnown`
  alone is not inductive: a request in the channel could empty the entry. After a
  rush it is false (run `forward_handover`).
* `SyncGoesThrough` (`[]SyncInv`) and `CollectionSpares` (`[]GcSpares`). A rule is
  removed when nobody refers to it, so the argument is about what a sync has gone
  through when it comes to collect: the rows left are the last of the interfaces
  (`RowsLeft`), the addresses kept are served (`KeepAlive`), until a rush so is every
  owner's lease on a port done with (`Progress`), and what is to be collected is dead at that
  moment and not only when it was listed (`DeadSet`).
* `LeasesAreTold` (`[]RcInv`): identities of leases are reused once nobody has them,
  as addresses are, and a weak reference must tell of the lease it was made for.
* `EntriesInOrder` (`[]EntryInv`): an entry that was dropped leaves no target and
  nothing that is mapped upstream behind.
* `SyncsComeToRest` (`[]RestInv`) and `SyncSettles` (`[]Settled`). From the start of
  a sync until a lease comes or goes or a script reports a failure, while no port was
  rushed and every lease is its port's owner's (`AllFirm`), the ports done with have
  exactly the mappings of their leases, and so have the rows seen of the port worked
  on; `Ledger` then says it of the kernel, up to `failed`; the rule being exchanged is the one called for (`Planned`). This needs all of
  the invariants above: `LeasesStayKnown` so that no rule is missing, `RcInv` so
  that none is there for a lease that is gone, `EntryInv` for ports without a lease.

The inductive invariants were first tried with TLC. Every safety property that a
passing run checks is a theorem, for at least the faults that the run has. Checked by TLC only: the liveness properties
(fairness and ENABLED are out of the prover's reach).

## 5. Disagreements with the documentation

Details and quotations are under `findings`. Two are runs; the others are
reproduced by hand, `tlc -config <cfg> <module>`, and are violated as said.

| What | Reproduced by | Property |
|---|---|---|
| A resumed update records the old s9pk for the new version; the old version then starts on the new version's data, against `CORE/service/mod.rs:588` | run `update_resumed` | `OldNeverOnNewData` |
| The same, because the entry is undone before the volumes are restored | `MCPackageUpdateUnrestored.cfg` | `OldNeverOnNewData` |
| The same, because an interrupted update is resumed without a rollback point | `MCPackageUpdateNoSnapshot.cfg` | `OldNeverOnNewData` |
| A port handed from one service to another while the first one's pass is under way (`rushed`): the new owner's lease is forgotten | run `forward_handover` | `LeaseKnown` |
| A `.bak` whose removal failed is not "harmlessly replayed" (`PDB/AUDIT.md:93`) once another patch has been acknowledged | `MCPatchDbStoreStaleBak.cfg` | `AcknowledgedSurvives` |
| An I/O error after the compaction's commit point leaves a store that acknowledges patches a reopen does not find | `MCPatchDbStoreRewriteError.cfg` | `AcknowledgedSurvives` |
| `quiesce` returns while a start is in flight, so the snapshot is not of a stopped service | `MCServiceActorSnapshot.cfg` | `SnapshotOfStopped` |
| A restart requested while a legacy package starts is consumed by that start | `MCServiceActorLegacyRestart.cfg` | `RestartSurvivesStart` |
| A call of the web interface may stay unresolved: its notification is consumed, replaced by an older one or sent too early | `MCDbSyncReturns.cfg` (module `MCDbSync`) | `CallReturns` |
| A change between a service's read and the adding of its callback may never call it; a stale watcher takes another's handlers | `MCEffectCallbacksMissed.cfg` (module `MCEffectCallbacks`) | `NoChangeMissed` |
| A rule whose removal failed is forgotten; a refused nft transaction is taken for a success | in `PortForwards` as `failed` | |
| A revision whose compaction failed after its commit point is never announced | in `PatchDbFeed` and `DbSync` as `silent` | |

## 6. Not modelled, and the plan

The repository is a monorepo of some 250,000 lines; the models cover the parts
in which concurrent state and failure are decided. Outside them: containers and
mounts themselves, progress reporting, errors' wording, health checks, virtual
hosts, DNS, certificates, IPv6 forwards and the port-mapping protocol, the
registry, the tunnel, archives and signatures, and the router firmware
(`start-wrt`), which configures OpenWrt's UCI through request handlers. PROJECT.json
gives the reason for each. A file operation that outlives its dropped future, two
processes on one database, and reference counts on a service during shutdown are
hazards no module covers.

In this order:

1. `PackageLifecycle`: first install, restore, uninstall and the matching arms of
   `Service::load`, sharing `PackageUpdate`'s trees; a bulk backup over several
   packages.
2. `PackageUpdate` with `ServiceActor`: the update's `quiesce` and the actor's
   transitions in one specification.
3. The other phases of a service's network pass (virtual hosts, IPv6 forwards)
   and the port-mapping leases, beside `PortForwards`.
