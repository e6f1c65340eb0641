---------------------------- MODULE PortForwards ----------------------------
(***************************************************************************)
(* IPv4 port forwards (start-core/src/net/forward.rs and the part of       *)
(* net_controller.rs that asks for them).                                  *)
(*                                                                         *)
(* Every service has a task that follows its bindings in the database and, *)
(* pass by pass, takes and drops leases (Arc<()>) on external ports.  One  *)
(* controller task handles the requests of all services and the changes of *)
(* the network interfaces; it knows the leases by weak references only and *)
(* keeps, through PortForwardState, one nftables rule per address and      *)
(* port.  A rule is taken out when nobody holds a reference to it any      *)
(* more.  The kernel's rules outlive the daemon.                           *)
(*                                                                         *)
(* A step is what a task does between two awaits.  The two controllers of  *)
(* the code are one here: the interface controller awaits every answer of  *)
(* the other, and nobody else calls that one.  A rule's target prefix, the *)
(* IPv6 forwards and the other phases of a service's pass (virtual hosts,  *)
(* DNS) are left out; the upstream gateway is asked and never answers.     *)
(***************************************************************************)
EXTENDS Integers, Sequences, FiniteSets

CONSTANTS
    Services,       \* the owners of bindings
    Ports,          \* external (start) ports, a set of numbers
    Ips, Gateways,  \* local IPv4 addresses, and the gateways they belong to
    Nets,           \* the states of the network: sequences of [gw, ip] in the order of ip_info
    Reqs,           \* the ForwardRequirements that occur, numbered in their order
    Requirement,    \* what number r stands for: [public, private, secure]
    SecureGateways, \* the gateways marked secure
    Targets, Counts,\* the addresses forwarded to, and the lengths of port ranges
    Specs,          \* the forwards a service may call for on a port: [target, count, reqs]
    Rcs,            \* identities of leases, a set of numbers
    None,
    MaxChanges, MaxFailures, MaxRestarts

VARIABLES
    net, netSeen,   \* ip_info: its value, and whether the controller has seen it
    interfaces,     \* the controller's copy of ip_info
    want, dirty,    \* the bindings in the database, and whether the service's task knows of a change
    held,           \* binds.forwards: the leases the service holds
    pass,           \* where the service's task is in its pass
    queue,          \* the controller's channel
    entries,        \* InterfaceForwardState.state
    ctl,            \* what the controller is doing
    mappings,       \* PortForwardState.mappings
    kernel,         \* the rules installed
    upstream,       \* what the gateways are asked to map: port count, 0 for nothing
    up,             \* whether the rules of a previous run were removed
    failed,         \* history: the rules whose last installation or removal failed
    settled,        \* history: "yes" when a sync succeeded and nothing happened since it began
    owner,          \* history: the service that each port was last given to
    rushed,         \* history: whether, since the start, a port has changed hands too early (Rush)
    budget          \* how many changes, failures and restarts there were

envVars == <<net, netSeen, want, dirty, owner, rushed>>
svcVars == <<held, pass, queue>>
ctlVars == <<interfaces, entries, ctl, mappings, kernel, upstream, up, failed>>
vars == <<envVars, svcVars, ctlVars, settled, budget>>

Row == [gw : Gateways, ip : Ips]
Forwards == [target : Targets, count : Counts, reqs : Reqs]
Sources == Ips \X Ports
Rules == [source : Sources, target : Targets, count : Counts \cup {0}, filter : {"any", "lan"}]
Mapping == [rule : Rules, rc : 1..3]
Operation == [old : Rules \cup {None}, new : Rules]

ASSUME PortsAssumption ==
    \A S \in (SUBSET Ports) \cup (SUBSET Reqs) :
        S # {} => \E x \in S : \A y \in S : x <= y
ASSUME NetsAssumption == \A n \in Nets : n \in Seq(Row)
ASSUME SpecsAssumption == \A s \in Services, p \in Ports : Specs[s][p] \subseteq Forwards
ASSUME CountsAssumption == Counts \subseteq Nat \ {0}
ASSUME NoneAssumption ==
    /\ None \notin Rules \cup Mapping \cup Operation \cup Services \cup Forwards
    /\ None \notin [spec : Forwards, rc : Rcs] \cup [target : Targets, rc : Rcs]
ASSUME ForwardBoundsAssumption ==
    MaxChanges \in Nat /\ MaxFailures \in Nat /\ MaxRestarts \in Nat

Lowest(S) == CHOOSE x \in S : \A y \in S : x <= y
NoPass == [at |-> "idle", goal |-> [p \in Ports |-> None], todo |-> {}]
NoEntry == [count |-> 0, targets |-> [r \in Reqs |-> None],
            forwards |-> [i \in Ips |-> 0], mapped |-> {}]
Sync(s) == [kind |-> "sync", by |-> s]
Idle == [at |-> "idle", cmd |-> Sync(None), port |-> 0, ports |-> {}, rows |-> <<>>,
         keep |-> {}, wanted |-> {}, op |-> None, dead |-> {}]

Init ==
    /\ net \in Nets /\ interfaces = net /\ netSeen = TRUE
    /\ want = [s \in Services |-> [p \in Ports |-> None]]
    /\ dirty = [s \in Services |-> FALSE]
    /\ held = [s \in Services |-> [p \in Ports |-> None]]
    /\ pass = [s \in Services |-> NoPass]
    /\ queue = <<>>
    /\ entries = [p \in Ports |-> NoEntry]
    /\ ctl = Idle
    /\ mappings = [x \in Sources |-> None]
    /\ kernel = {}
    /\ upstream = [x \in Sources |-> 0]
    /\ up = FALSE
    /\ failed = {}
    /\ settled = "no"
    /\ owner = [p \in Ports |-> None] /\ rushed = FALSE
    /\ budget = [changes |-> 0, failures |-> 0, restarts |-> 0]

-----------------------------------------------------------------------------
(* Leases: a weak reference is alive as long as somebody holds the lease:  *)
(* a service, a request in the channel, or the one being handled.          *)

Busy == ctl.at # "idle"
Asking(c) == c.kind = "forward"
Live ==
    {held[x[1]][x[2]].rc : x \in {y \in Services \X Ports : held[y[1]][y[2]] # None}}
    \cup {queue[i].rc : i \in {j \in DOMAIN queue : Asking(queue[j])}}
    \cup IF Busy /\ Asking(ctl.cmd) THEN {ctl.cmd.rc} ELSE {}
Weak ==
    {entries[x[1]].targets[x[2]].rc :
        x \in {y \in Ports \X Reqs : entries[y[1]].targets[y[2]] # None}}

(* ForwardRequirements *)
PublicOn(r, gw) == Requirement[r].secure /\ gw \in Requirement[r].public
AllowsGateway(r, gw) == Requirement[r].secure \/ gw \in SecureGateways

(* Whether requirements r open a port at a row of the network. *)
Opens(r, row) ==
    /\ AllowsGateway(r, row.gw)
    /\ PublicOn(r, row.gw) \/ row.ip \in Requirement[r].private

Filter(r, row) == IF PublicOn(r, row.gw) THEN "any" ELSE "lan"
Rule(x, target, count, filter) ==
    [source |-> x, target |-> target, count |-> count, filter |-> filter]

-----------------------------------------------------------------------------
(* The database and the network. *)

Spend(what) == budget' = [budget EXCEPT ![what] = @ + 1]

Holds(s, p, spec) == held[s][p] # None /\ held[s][p].spec = spec

(* Service s may still ask for port p in the pass it is in. *)
MayAsk(s, p) ==
    /\ pass[s].at # "idle" /\ pass[s].goal[p] # None
    /\ ~Holds(s, p, pass[s].goal[p])

(* Port p is given to service s, which was not the last to have it, while   *)
(* s still holds the lease of its earlier turn or another may still ask.    *)
Rush(s, p) ==
    /\ owner[p] # s
    /\ held[s][p] # None \/ \E o \in Services : MayAsk(o, p)

(* bind, retire_binding, retire_host and what changes the addresses of a    *)
(* binding: one transaction, in which AvailablePorts gives a port to one    *)
(* owner at a time; it does not know what is left of the last owner's.      *)
Change(s, p, v) ==
    /\ budget.changes < MaxChanges
    /\ v # want[s][p]
    /\ v # None => \A o \in Services \ {s} : want[o][p] = None
    /\ want' = [want EXCEPT ![s][p] = v]
    /\ IF v = None THEN UNCHANGED <<owner, rushed>>
                   ELSE owner' = [owner EXCEPT ![p] = s] /\ rushed' = (rushed \/ Rush(s, p))
    /\ dirty' = [dirty EXCEPT ![s] = TRUE]
    /\ Spend("changes")
    /\ UNCHANGED <<net, netSeen, svcVars, ctlVars, settled>>

(* An interface comes or goes. *)
Rewire(n) ==
    /\ budget.changes < MaxChanges
    /\ n # net
    /\ net' = n /\ netSeen' = FALSE
    /\ Spend("changes")
    /\ UNCHANGED <<want, dirty, owner, rushed, svcVars, ctlVars, settled>>

-----------------------------------------------------------------------------
(* A service's task: NetServiceData::update, Phase 3.                      *)

Begin(s) ==
    /\ pass[s].at = "idle" /\ dirty[s]
    /\ dirty' = [dirty EXCEPT ![s] = FALSE]
    /\ pass' = [pass EXCEPT ![s] =
          [at |-> "ports", goal |-> want[s],
           todo |-> {p \in Ports : held[s][p] # None \/ want[s][p] # None}]]
    /\ UNCHANGED <<net, netSeen, want, owner, rushed, held, queue, ctlVars, settled, budget>>

Done(s, p) == [pass EXCEPT ![s].todo = @ \ {p}]
Send(c) == queue' = Append(queue, c)

(* The lease is the one called for already: it is kept. *)
Keep(s) ==
    /\ pass[s].at = "ports" /\ pass[s].todo # {}
    /\ LET p == Lowest(pass[s].todo) IN
       /\ Holds(s, p, pass[s].goal[p])
       /\ pass' = Done(s, p)
    /\ UNCHANGED <<envVars, held, queue, ctlVars, settled, budget>>

(* Nothing is called for: the lease is dropped. *)
Drop(s) ==
    /\ pass[s].at = "ports" /\ pass[s].todo # {}
    /\ LET p == Lowest(pass[s].todo) IN
       /\ pass[s].goal[p] = None
       /\ held' = [held EXCEPT ![s][p] = None]
       /\ pass' = Done(s, p)
    /\ settled' = "no"
    /\ UNCHANGED <<envVars, queue, ctlVars, budget>>

(* Something else is called for: the old lease is dropped, then a new one  *)
(* asked for (add_range) and awaited.                                      *)
Ask(s) ==
    /\ pass[s].at = "ports" /\ pass[s].todo # {}
    /\ LET p == Lowest(pass[s].todo)
           spec == pass[s].goal[p] IN
       /\ spec # None /\ ~Holds(s, p, spec)
       /\ held' = [held EXCEPT ![s][p] = None]
       /\ \E rc \in Rcs \ (Live \cup Weak) :
             /\ rc = Lowest(Rcs \ (Live \cup Weak))
             /\ Send([kind |-> "forward", by |-> s, port |-> p, spec |-> spec, rc |-> rc])
       /\ pass' = [Done(s, p) EXCEPT ![s].at = "reply"]
    /\ settled' = "no"
    /\ UNCHANGED <<envVars, ctlVars, budget>>

(* At the end of the pass: forward.gc(). *)
Collect(s) ==
    /\ pass[s].at = "ports" /\ pass[s].todo = {}
    /\ Send(Sync(s))
    /\ pass' = [pass EXCEPT ![s].at = "gc"]
    /\ UNCHANGED <<envVars, held, ctlVars, settled, budget>>

(* remove_all: the task is aborted wherever it is, and nobody receives the *)
(* answer to what it asked for; the leases go with retire, a pass that     *)
(* calls for nothing.                                                      *)
Forsake(c, s) == IF c.by = s THEN [c EXCEPT !.by = None] ELSE c
Remove(s) ==
    /\ budget.changes < MaxChanges
    /\ pass[s].at \in {"reply", "gc"}
    /\ want' = [want EXCEPT ![s] = NoPass.goal]
    /\ dirty' = [dirty EXCEPT ![s] = TRUE]
    /\ pass' = [pass EXCEPT ![s] = NoPass]
    /\ queue' = [i \in DOMAIN queue |-> Forsake(queue[i], s)]
    /\ ctl' = [ctl EXCEPT !.cmd = Forsake(@, s)]
    /\ Spend("changes")
    /\ UNCHANGED <<net, netSeen, owner, rushed, held, interfaces, entries, mappings, kernel,
                   upstream, up, failed, settled>>

-----------------------------------------------------------------------------
(* The controller.                                                         *)

(* InterfaceForwardEntry::update begins on port p, with ifs the interfaces. *)
Update(c, p, rest, ifs) ==
    [Idle EXCEPT !.at = "rows", !.cmd = c, !.port = p, !.ports = rest, !.rows = ifs]

(* InterfaceForwardEntry::gc: the targets nobody holds are forgotten. *)
Retained(e) ==
    [e EXCEPT !.targets = [r \in Reqs |->
        IF e.targets[r] # None /\ e.targets[r].rc \in Live THEN e.targets[r] ELSE None]]

(* PortForwardState::gc: what it will remove. *)
Dead(es) == {x \in Sources :
    mappings[x] # None /\ mappings[x].rc # es[x[2]].forwards[x[1]]}

(* InterfaceForwardState::sync goes on with the lowest of ports, or, after *)
(* the last, with the rules.                                               *)
SyncOn(c, ports, es, ifs) ==
    IF ports # {}
      THEN LET p == Lowest(ports) IN
           /\ entries' = [es EXCEPT ![p] = Retained(es[p])]
           /\ ctl' = Update(c, p, ports \ {p}, ifs)
      ELSE /\ entries' = es
           /\ ctl' = [Idle EXCEPT !.at = "gc", !.cmd = c, !.dead = Dead(es)]

Known(es) == {p \in Ports : es[p].count # 0}

(* A sync is asked for. *)
TakeSync ==
    /\ ~Busy /\ queue # <<>> /\ Head(queue).kind = "sync"
    /\ queue' = Tail(queue)
    /\ SyncOn(Head(queue), Known(entries), entries, interfaces)
    /\ settled' = "pass"
    /\ UNCHANGED <<envVars, held, pass, interfaces, mappings, kernel, upstream, up,
                   failed, budget>>

\* Mutant of Renewed: the change is marked seen, the old copy used.
RenewedNot == interfaces

Renewed == net

(* The interfaces have changed: the controller syncs by itself. *)
TakeNet ==
    /\ ~Busy /\ ~netSeen
    /\ netSeen' = TRUE /\ interfaces' = Renewed
    /\ SyncOn(Sync(None), Known(entries), entries, Renewed)
    /\ settled' = "pass"
    /\ UNCHANGED <<net, want, dirty, owner, rushed, svcVars, mappings, kernel, upstream, up,
                   failed, budget>>

(* handle_request and update_request: a count that differs from the entry's *)
(* empties it; a lease that is alive on the same target is shared.          *)
Requested(e, c) ==
    LET e1 == IF e.count = c.spec.count THEN e ELSE [NoEntry EXCEPT
                  !.count = c.spec.count, !.mapped = e.mapped]
        old == e1.targets[c.spec.reqs]
        alive == old # None /\ old.target = c.spec.target /\ old.rc \in Live
    IN  [e1 EXCEPT !.targets[c.spec.reqs] =
            [target |-> c.spec.target, rc |-> IF alive THEN old.rc ELSE c.rc]]

TakeForward ==
    /\ ~Busy /\ queue # <<>> /\ Asking(Head(queue))
    /\ LET c == Head(queue)
           e == Requested(entries[c.port], c) IN
       /\ entries' = [entries EXCEPT ![c.port] = e]
       /\ ctl' = Update([c EXCEPT !.rc = e.targets[c.spec.reqs].rc], c.port, {}, interfaces)
    /\ queue' = Tail(queue)
    /\ settled' = "no"
    /\ UNCHANGED <<envVars, held, pass, interfaces, mappings, kernel, upstream, up, failed, budget>>

(* The requirements, lowest first, that open the port at a row. *)
Openers(row) ==
    {r \in Reqs : LET t == entries[ctl.port].targets[r] IN
        t # None /\ t.rc \in Live /\ Opens(r, row)}

At(row) == <<row.ip, ctl.port>>

(* The rule and the mapping that update asks PortForwardState for at a row. *)
Asked(row) ==
    LET r == Lowest(Openers(row)) IN
    Rule(At(row), entries[ctl.port].targets[r].target, entries[ctl.port].count, Filter(r, row))

Installed(row) == mappings[At(row)] # None /\ mappings[At(row)].rule = Asked(row)

Rows == ctl.at = "rows" /\ ctl.rows # <<>>

(* An address that is served already, or that no live lease opens. *)
SkipRow ==
    /\ Rows
    /\ LET row == Head(ctl.rows) IN row.ip \in ctl.keep \/ Openers(row) = {}
    /\ ctl' = [ctl EXCEPT !.rows = Tail(@)]
    /\ UNCHANGED <<envVars, svcVars, interfaces, entries, mappings, kernel, upstream, up,
                   failed, settled, budget>>

(* A reference nobody has to the rule of this address. *)
FreshRc(x) == Lowest({1, 2, 3} \ ({entries[x[2]].forwards[x[1]]}
                  \cup IF mappings[x] = None THEN {} ELSE {mappings[x].rc}))

Kept(row) ==
    [ctl EXCEPT !.keep = @ \cup {row.ip},
                !.wanted = IF PublicOn(Lowest(Openers(row)), row.gw)
                             THEN @ \cup {row.ip} ELSE @,
                !.rows = Tail(@)]

\* Mutant of Rearm: the weak reference of the mapping stays the dead one.
RearmNot(x, rc) == mappings

Rearm(x, rc) == [mappings EXCEPT ![x].rc = rc]

(* add_forward finds the very rule: its reference is handed out again, or  *)
(* a new one is made when the last was dropped.                            *)
ReuseRule ==
    /\ up /\ Rows
    /\ LET row == Head(ctl.rows)
           x == At(row)
           m == mappings[x]
           rc == IF m.rc = entries[ctl.port].forwards[row.ip] THEN m.rc ELSE FreshRc(x) IN
       /\ row.ip \notin ctl.keep /\ Openers(row) # {}
       /\ Installed(row)
       /\ mappings' = Rearm(x, rc)
       /\ entries' = [entries EXCEPT ![ctl.port].forwards[row.ip] = rc]
       /\ ctl' = Kept(row)
    /\ UNCHANGED <<envVars, svcVars, interfaces, kernel, upstream, up, failed, settled, budget>>

\* Mutant of FirstOp: the new rule is installed beside the old.
FirstOpOnTop(m) == "forward"

FirstOp(m) == IF m = None THEN "forward" ELSE "unforward"

(* add_forward finds another rule, or none: the mapping is forgotten and   *)
(* its rule is to be removed before the new one is installed.              *)
ChangeRule ==
    /\ up /\ Rows
    /\ LET row == Head(ctl.rows)
           m == mappings[At(row)] IN
       /\ row.ip \notin ctl.keep /\ Openers(row) # {}
       /\ ~Installed(row)
       /\ mappings' = [mappings EXCEPT ![At(row)] = None]
       /\ ctl' = [Kept(row) EXCEPT
             !.at = FirstOp(m),
             !.op = [old |-> IF m = None THEN None ELSE m.rule, new |-> Asked(row)]]
    /\ UNCHANGED <<envVars, svcVars, interfaces, entries, kernel, upstream, up, failed,
                   settled, budget>>

(* The script forward-port hands the kernel one transaction, and reports    *)
(* success whether or not it was carried out.                               *)
Carried(rules, r) ==
    kernel' = rules /\ failed' = failed \ {r} /\ UNCHANGED budget
Refused(r) ==
    /\ budget.failures < MaxFailures
    /\ Spend("failures")
    /\ kernel' = kernel /\ failed' = failed \cup {r}

Unforward ==
    /\ ctl.at = "unforward"
    /\ \/ Carried(kernel \ {ctl.op.old}, ctl.op.old)
       \/ Refused(ctl.op.old)
    /\ ctl' = [ctl EXCEPT !.at = "forward"]
    /\ UNCHANGED <<envVars, svcVars, interfaces, entries, mappings, upstream, up, settled>>

Forward ==
    /\ ctl.at = "forward"
    /\ LET x == ctl.op.new.source
           rc == FreshRc(x) IN
       /\ mappings' = [mappings EXCEPT ![x] = [rule |-> ctl.op.new, rc |-> rc]]
       /\ entries' = [entries EXCEPT ![x[2]].forwards[x[1]] = rc]
    /\ \/ Carried(kernel \cup {ctl.op.new}, ctl.op.new)
       \/ Refused(ctl.op.new)
    /\ ctl' = [ctl EXCEPT !.at = "rows", !.op = None]
    /\ UNCHANGED <<envVars, svcVars, interfaces, upstream, up, settled>>

(* The answer reaches the service that awaits it: the lease, or an error,  *)
(* which ends its pass.                                                    *)
Answer(ok) ==
    LET s == ctl.cmd.by IN
    /\ IF s = None
         THEN pass' = pass
         ELSE pass' = IF ok /\ Asking(ctl.cmd) THEN [pass EXCEPT ![s].at = "ports"]
                                               ELSE [pass EXCEPT ![s] = NoPass]
    /\ IF s # None /\ ok /\ Asking(ctl.cmd)
         THEN held' = [held EXCEPT ![s][ctl.cmd.port] =
                          [spec |-> ctl.cmd.spec, rc |-> ctl.cmd.rc]]
         ELSE held' = held

\* Mutant of Refs: references to rules no longer kept are not dropped.
RefsAll(e) == e.forwards

Refs(e) == [i \in Ips |-> IF i \in ctl.keep THEN e.forwards[i] ELSE 0]

(* The end of update: the references to rules no longer kept are dropped,  *)
(* and the upstream gateways asked to map what is public, nothing else.    *)
EndRows ==
    /\ ctl.at = "rows" /\ ctl.rows = <<>>
    /\ LET p == ctl.port
           e == [entries[p] EXCEPT !.forwards = Refs(entries[p]), !.mapped = ctl.wanted]
           es == [entries EXCEPT ![p] = e] IN
       /\ upstream' = [x \in Sources |->
             IF x[2] # p THEN upstream[x]
             ELSE IF x[1] \in ctl.wanted THEN e.count
             ELSE IF x[1] \in entries[p].mapped THEN 0 ELSE upstream[x]]
       /\ IF Asking(ctl.cmd)
            THEN Answer(TRUE) /\ entries' = es /\ ctl' = Idle
            ELSE UNCHANGED <<held, pass>> /\ SyncOn(ctl.cmd, ctl.ports, es, interfaces)
    /\ UNCHANGED <<envVars, queue, interfaces, mappings, kernel, up, failed, settled, budget>>

(* PortForwardState::gc removes the mapping, then the rule. *)
GcRule ==
    /\ up /\ ctl.at = "gc"
    /\ \E x \in ctl.dead :
          /\ \/ Carried(kernel \ {mappings[x].rule}, mappings[x].rule)
             \/ Refused(mappings[x].rule)
          /\ mappings' = [mappings EXCEPT ![x] = None]
          /\ ctl' = [ctl EXCEPT !.dead = @ \ {x}]
    /\ UNCHANGED <<envVars, svcVars, interfaces, entries, upstream, up, settled>>

EndSync ==
    /\ up /\ ctl.at = "gc" /\ ctl.dead = {}
    /\ Answer(TRUE)
    /\ ctl' = Idle
    /\ settled' = IF settled = "pass" THEN "yes" ELSE settled
    /\ UNCHANGED <<envVars, queue, interfaces, entries, mappings, kernel, upstream, up,
                   failed, budget>>

-----------------------------------------------------------------------------
(* Failures and restarts.                                                  *)

(* The script cannot be run: the rest of the update, of the sync and of the *)
(* service's pass is skipped, and the mapping is forgotten.                 *)
Fail ==
    /\ budget.failures < MaxFailures
    /\ \/ /\ ctl.at = "unforward"
          /\ failed' = failed \cup {ctl.op.old}
          /\ UNCHANGED mappings
       \/ /\ ctl.at = "forward"
          /\ UNCHANGED <<failed, mappings>>
       \/ /\ up /\ ctl.at = "gc"
          /\ \E x \in ctl.dead :
                /\ failed' = failed \cup {mappings[x].rule}
                /\ mappings' = [mappings EXCEPT ![x] = None]
    /\ Answer(FALSE)
    /\ ctl' = Idle
    /\ settled' = "no"
    /\ Spend("failures")
    /\ UNCHANGED <<envVars, queue, interfaces, entries, kernel, upstream, up>>

(* The daemon stops and is started again; the kernel keeps its rules. *)
Restart ==
    /\ budget.restarts < MaxRestarts
    /\ interfaces' = net /\ netSeen' = TRUE
    /\ dirty' = [s \in Services |-> TRUE]
    /\ held' = [s \in Services |-> [p \in Ports |-> None]]
    /\ pass' = [s \in Services |-> NoPass]
    /\ queue' = <<>>
    /\ entries' = [p \in Ports |-> NoEntry]
    /\ ctl' = Idle
    /\ mappings' = [x \in Sources |-> None]
    /\ upstream' = [x \in Sources |-> 0]
    /\ up' = FALSE /\ failed' = {} /\ settled' = "no"
    /\ rushed' = FALSE
    /\ Spend("restarts")
    /\ UNCHANGED <<net, want, owner, kernel>>

(* PortForwardController::new: remove_stale_forward_rules, repeated until it *)
(* succeeds, which it also does when it cannot list the rules it is to       *)
(* remove: some are left then.                                               *)
RemoveStale ==
    /\ ~up /\ up' = TRUE
    /\ \/ kernel' = {} /\ UNCHANGED <<failed, budget>>
       \/ /\ budget.failures < MaxFailures
          /\ kernel' \in (SUBSET kernel) \ {{}}
          /\ failed' = kernel'
          /\ Spend("failures")
    /\ UNCHANGED <<envVars, svcVars, interfaces, entries, ctl, mappings, upstream, settled>>

-----------------------------------------------------------------------------
Environment ==
    \/ \E s \in Services, p \in Ports : \E v \in Specs[s][p] \cup {None} : Change(s, p, v)
    \/ \E n \in Nets : Rewire(n)
    \/ \E s \in Services : Remove(s)
    \/ Fail \/ Restart
Task(s) == Begin(s) \/ Keep(s) \/ Drop(s) \/ Ask(s) \/ Collect(s)
Controller ==
    \/ TakeSync \/ TakeNet \/ TakeForward
    \/ SkipRow \/ ReuseRule \/ ChangeRule \/ Unforward \/ Forward \/ EndRows
    \/ GcRule \/ EndSync \/ RemoveStale
Next == Environment \/ Controller \/ \E s \in Services : Task(s)
Spec == Init /\ [][Next]_vars

(* The tasks are polled as long as they can go on, and the script ends. *)
FairSpec ==
    /\ Spec
    /\ WF_vars(Controller)
    /\ \A s \in Services : WF_vars(Task(s))

-----------------------------------------------------------------------------
Command ==
    [kind : {"sync"}, by : Services \cup {None}]
    \cup [kind : {"forward"}, by : Services \cup {None}, port : Ports, spec : Forwards, rc : Rcs]
Entry ==
    [count : Counts \cup {0}, targets : [Reqs -> [target : Targets, rc : Rcs] \cup {None}],
     forwards : [Ips -> 0..3], mapped : SUBSET Ips]
Work ==
    [at : {"idle", "rows", "unforward", "forward", "gc"}, cmd : Command,
     port : Ports \cup {0}, ports : SUBSET Ports, rows : Seq(Row), keep : SUBSET Ips,
     wanted : SUBSET Ips, op : Operation \cup {None}, dead : SUBSET Sources]
Goal == [Ports -> Forwards \cup {None}]
Pass == [at : {"idle", "ports", "reply", "gc"}, goal : Goal, todo : SUBSET Ports]
Holding == [Ports -> [spec : Forwards, rc : Rcs] \cup {None}]

(* Every variable keeps its type; the port worked on, the rules in hand and *)
(* the mappings to be removed are there when they are used.                 *)
TypeOK ==
    /\ net \in Nets /\ interfaces \in Nets /\ netSeen \in BOOLEAN
    /\ want \in [Services -> Goal]
    /\ dirty \in [Services -> BOOLEAN]
    /\ held \in [Services -> Holding]
    /\ pass \in [Services -> Pass]
    /\ queue \in Seq(Command)
    /\ entries \in [Ports -> Entry]
    /\ ctl \in Work
    /\ ctl.at \in {"rows", "unforward", "forward"} => ctl.port \in Ports
    /\ ctl.at \in {"unforward", "forward"} => ctl.op # None
    /\ ctl.at = "unforward" => ctl.op.old # None
    /\ mappings \in [Sources -> Mapping \cup {None}]
    /\ ctl.at = "gc" => \A x \in ctl.dead : mappings[x] # None
    /\ kernel \in SUBSET Rules /\ failed \in SUBSET Rules
    /\ upstream \in [Sources -> Counts \cup {0}]
    /\ up \in BOOLEAN
    /\ settled \in {"no", "pass", "yes"}
    /\ owner \in [Ports -> Services \cup {None}] /\ rushed \in BOOLEAN
    /\ budget \in [changes : Nat, failures : Nat, restarts : Nat]

(* The rules that spec calls for on port p when the network is n: one for   *)
(* every address, from the first row that opens it.                         *)
RulesFor(spec, p, n) ==
    {Rule(<<n[i].ip, p>>, spec.target, spec.count, Filter(spec.reqs, n[i])) :
        i \in {j \in DOMAIN n : /\ Opens(spec.reqs, n[j])
                               /\ \A k \in 1..(j - 1) : n[k].ip = n[j].ip => ~Opens(spec.reqs, n[k])}}

Leases == {x \in Services \X Ports : held[x[1]][x[2]] # None}
Lease(x) == held[x[1]][x[2]]
Current(x) == Lease(x).spec = want[x[1]][x[2]]

(* The leases on p that somebody holds or awaits. *)
LeasesOn(p) ==
    {Lease(x).rc : x \in {y \in Leases : y[2] = p}}
    \cup {queue[i].rc : i \in {j \in DOMAIN queue : Asking(queue[j]) /\ queue[j].port = p}}
    \cup IF Busy /\ Asking(ctl.cmd) /\ ctl.cmd.port = p THEN {ctl.cmd.rc} ELSE {}

(* Every rule in the kernel is the rule of a mapping, and every mapping has *)
(* its rule, but for the rules whose last installation or removal failed:   *)
(* whatever else fails, reported or not, whoever drops a lease, whenever    *)
(* the daemon stops, no other rule is forgotten or lost.                    *)
Accounted ==
    up =>
      LET mapped == {mappings[x].rule : x \in {y \in Sources : mappings[y] # None}}
          inHand == IF ctl.at = "unforward" THEN {ctl.op.old} ELSE {}
      IN  /\ mapped \subseteq kernel \cup failed
          /\ kernel \subseteq mapped \cup failed \cup inHand

(* As long as no port has changed hands too early, what the garbage         *)
(* collection of rules is about to remove, nobody's lease calls for         *)
(* (add_forward hands a dead reference out again, an update that failed     *)
(* half way leaves references behind).                                      *)
GcSpares ==
    (ctl.at = "gc" /\ ~rushed) =>
      \A x \in ctl.dead, l \in Leases :
          (LeasesOn(l[2]) = {Lease(l).rc} /\ Current(l)) =>
              mappings[x].rule \notin RulesFor(Lease(l).spec, l[2], interfaces)

(* After a sync that reported success, and until something else happens,    *)
(* the kernel has exactly the rules that the leases call for, up to those   *)
(* whose last installation or removal failed, and exactly the public ones   *)
(* are mapped upstream, when no service holds a lease it has no more use    *)
(* for and no port has changed hands too early.                             *)
Settled ==
    (settled = "yes" /\ ~rushed /\ \A l \in Leases : Current(l)) =>
      LET rules == UNION {RulesFor(Lease(l).spec, l[2], interfaces) : l \in Leases} IN
      /\ kernel \ failed = rules \ failed
      /\ \A x \in Sources :
            upstream[x] = IF \E r \in rules : r.source = x /\ r.filter = "any"
                            THEN (CHOOSE r \in rules : r.source = x).count ELSE 0

(* A lease that its service still has use for, and that is the only one on  *)
(* its port, is known to the controller: it is what the next sync goes by.  *)
(* An entry is emptied when the count changes and a target is replaced,     *)
(* because AvailablePorts has given the port to somebody else by then.      *)
(* True until a port changes hands too early (rushed), and false after.     *)
LeaseKnown ==
    \A l \in Leases :
        (LeasesOn(l[2]) = {Lease(l).rc} /\ Current(l)) =>
            entries[l[2]].targets[Lease(l).spec.reqs] =
                [target |-> Lease(l).spec.target, rc |-> Lease(l).rc]

(* When the bindings and the interfaces have stopped changing, no script    *)
(* failed and no port changed hands too early since the daemon started, the *)
(* kernel has in the end what the bindings call for and nothing else, for   *)
(* good.                                                                    *)
EventuallyForwarded ==
    <>[](budget.failures > 0 \/ rushed
         \/ kernel = UNION {RulesFor(want[x[1]][x[2]], x[2], net) :
                x \in {y \in Services \X Ports : want[y[1]][y[2]] # None}})
=============================================================================
