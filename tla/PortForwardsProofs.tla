------------------------- MODULE PortForwardsProofs -------------------------
(***************************************************************************)
(* Theorems about PortForwards, for any services, ports, addresses and     *)
(* networks, and any number of changes, failures and restarts.  Every      *)
(* variable keeps its type, no rule in the kernel is forgotten but those   *)
(* whose script failed, and a weak reference tells one lease.  Until a     *)
(* port changes hands too early (rushed, a state the daemon can reach and  *)
(* that the invariants say nothing of), the controller knows every lease   *)
(* that is of use, its garbage collection spares what such a lease calls   *)
(* for, and a sync that succeeds leaves exactly the rules that the leases  *)
(* call for.                                                               *)
(*                                                                         *)
(* The invariants build on one another: HandInv (leases and the requests   *)
(* on their way), SyncInv (what a sync has gone through), RcInv (which     *)
(* lease a weak reference tells of), EntryInv (what an entry that is not   *)
(* in use may hold) and RestInv (what the next sync will have put right).  *)
(***************************************************************************)
EXTENDS PortForwards, TLAPS

(* The lowest of a non-empty set of ports or requirements is one of them. *)
LEMMA LowestIn ==
    ASSUME NEW S \in (SUBSET Ports) \cup (SUBSET Reqs), S # {}
    PROVE  Lowest(S) \in S
  BY PortsAssumption DEF Lowest

(* Of three references, two are in use at most. *)
LEMMA FreshIn ==
    ASSUME TypeOK, NEW x \in Sources
    PROVE  FreshRc(x) \in 1..3
  <1> DEFINE T == {entries[x[2]].forwards[x[1]]}
                  \cup IF mappings[x] = None THEN {} ELSE {mappings[x].rc}
             S == {1, 2, 3} \ T
  <1>1. S # {}
    <2>1. CASE mappings[x] = None
      BY <2>1
    <2>2. CASE mappings[x] # None
      BY <2>2
    <2> QED
      BY <2>1, <2>2
  <1>2. \E a \in S : \A b \in S : a <= b
    <2>1. CASE 1 \in S
      <3> SUFFICES \A b \in S : 1 <= b
        BY <2>1
      <3> QED
        OBVIOUS
    <2>2. CASE 1 \notin S /\ 2 \in S
      <3> SUFFICES \A b \in S : 2 <= b
        BY <2>2
      <3> QED
        BY <2>2
    <2>3. CASE 1 \notin S /\ 2 \notin S
      <3> SUFFICES \A b \in S : 3 <= b
        BY <2>3, <1>1
      <3> QED
        BY <2>3
    <2> HIDE DEF T
    <2> QED
      BY <2>1, <2>2, <2>3
  <1> HIDE DEF S
  <1>3. FreshRc(x) = Lowest(S)
    BY DEF FreshRc, S
  <1>4. Lowest(S) \in S
    BY <1>2 DEF Lowest
  <1> QED
    BY <1>3, <1>4 DEF S

(* An entry whose dead targets are forgotten is one. *)
LEMMA RetainedType ==
    ASSUME NEW e \in Entry
    PROVE  Retained(e) \in Entry
  <1> DEFINE t == [r \in Reqs |->
        IF e.targets[r] # None /\ e.targets[r].rc \in Live THEN e.targets[r] ELSE None]
  <1>1. e.targets \in [Reqs -> [target : Targets, rc : Rcs] \cup {None}]
    BY DEF Entry
  <1>2. t \in [Reqs -> [target : Targets, rc : Rcs] \cup {None}]
    BY <1>1, Zenon
  <1>3. Retained(e) = [e EXCEPT !.targets = t]
    BY DEF Retained
  <1> HIDE DEF t
  <1> QED
    BY <1>2, <1>3 DEF Entry

(* What sync does next is well typed. *)
LEMMA SyncOnType ==
    ASSUME NEW c \in Command, NEW ports \in SUBSET Ports, NEW es \in [Ports -> Entry],
           NEW ifs \in Nets, SyncOn(c, ports, es, ifs)
    PROVE  /\ entries' \in [Ports -> Entry]
           /\ ctl' \in Work
           /\ ctl'.at \in {"rows", "gc"}
           /\ ctl'.at = "rows" => ctl'.port \in Ports
  <1>1. CASE ports # {}
    <2> DEFINE p == Lowest(ports)
    <2>1. p \in ports
      BY <1>1, LowestIn
    <2> HIDE DEF p
    <2>2. Retained(es[p]) \in Entry
      BY <2>1, RetainedType
    <2>3. /\ entries' = [es EXCEPT ![p] = Retained(es[p])]
          /\ ctl' = Update(c, p, ports \ {p}, ifs)
      BY <1>1 DEF SyncOn, p
    <2>4. ctl' = [at |-> "rows", cmd |-> c, port |-> p, ports |-> ports \ {p}, rows |-> ifs,
                  keep |-> {}, wanted |-> {}, op |-> None, dead |-> {}]
      BY <2>3 DEF Update, Idle
    <2>5. ifs \in Seq(Row)
      BY NetsAssumption
    <2>6. ctl' \in Work
      BY <2>4, <2>5, <2>1 DEF Work
    <2> QED
      BY <2>1, <2>2, <2>3, <2>4, <2>6
  <1>2. CASE ports = {}
    <2>1. /\ entries' = es
          /\ ctl' = [at |-> "gc", cmd |-> c, port |-> 0, ports |-> {}, rows |-> <<>>,
                     keep |-> {}, wanted |-> {}, op |-> None, dead |-> Dead(es)]
      BY <1>2 DEF SyncOn, Idle
    <2>2. Dead(es) \in SUBSET Sources
      BY DEF Dead
    <2>3. ctl' \in Work
      BY <2>1, <2>2 DEF Work
    <2> QED
      BY <2>1, <2>3
  <1> QED
    BY <1>1, <1>2

(* The rules to be removed have mappings. *)
LEMMA SyncOnDead ==
    ASSUME NEW c, NEW ports, NEW es, NEW ifs, SyncOn(c, ports, es, ifs),
           ctl'.at = "gc"
    PROVE  \A x \in ctl'.dead : mappings[x] # None
  <1>1. CASE ports # {}
    BY <1>1 DEF SyncOn, Update, Idle
  <1>2. CASE ports = {}
    <2>1. ctl' = [Idle EXCEPT !.at = "gc", !.cmd = c, !.dead = Dead(es)]
      BY <1>2 DEF SyncOn
    <2>2. ctl'.dead = Dead(es)
      BY <2>1 DEF Idle
    <2> QED
      BY <2>2 DEF Dead
  <1> QED
    BY <1>1, <1>2

(* So is what an answer leaves behind. *)
LEMMA AnswerType ==
    ASSUME TypeOK, NEW ok \in BOOLEAN, Answer(ok)
    PROVE  /\ held' \in [Services -> Holding]
           /\ pass' \in [Services -> Pass]
  <1> DEFINE s == ctl.cmd.by
  <1>1. ctl.cmd \in Command
    BY DEF TypeOK, Work
  <1>2. s \in Services \cup {None}
    BY <1>1 DEF Command
  <1>3. NoPass \in Pass
    BY DEF NoPass, Goal, Pass
  <1>4. pass' \in [Services -> Pass]
    <2>1. CASE s = None
      BY <2>1 DEF TypeOK, Answer
    <2>2. CASE s # None /\ ok /\ Asking(ctl.cmd)
      <3>1. s \in Services /\ pass' = [pass EXCEPT ![s].at = "ports"]
        BY <2>2, <1>2 DEF Answer
      <3> HIDE DEF s
      <3>2. pass[s] \in Pass
        BY <3>1 DEF TypeOK
      <3>3. [pass[s] EXCEPT !.at = "ports"] \in Pass
        BY <3>2 DEF Pass
      <3> QED
        BY <3>1, <3>3 DEF TypeOK
    <2>3. CASE s # None /\ ~(ok /\ Asking(ctl.cmd))
      <3>1. s \in Services /\ pass' = [pass EXCEPT ![s] = NoPass]
        BY <2>3, <1>2 DEF Answer
      <3> HIDE DEF s
      <3> QED
        BY <3>1, <1>3 DEF TypeOK
    <2> QED
      BY <2>1, <2>2, <2>3
  <1>5. CASE s # None /\ ok /\ Asking(ctl.cmd)
    <2>1. ctl.cmd.port \in Ports /\ ctl.cmd.spec \in Forwards /\ ctl.cmd.rc \in Rcs
      BY <1>1, <1>5 DEF Command, Asking
    <2>2. s \in Services /\ held' = [held EXCEPT ![s][ctl.cmd.port] =
                                       [spec |-> ctl.cmd.spec, rc |-> ctl.cmd.rc]]
      BY <1>2, <1>5 DEF Answer
    <2> HIDE DEF s
    <2> QED
      BY <2>1, <2>2, <1>4 DEF TypeOK, Holding
  <1>6. CASE ~(s # None /\ ok /\ Asking(ctl.cmd))
    BY <1>4, <1>6 DEF TypeOK, Answer
  <1> QED
    BY <1>5, <1>6

(* The row a controller looks at. *)
LEMMA RowType ==
    ASSUME TypeOK, Rows
    PROVE  /\ Head(ctl.rows) \in Row
           /\ Tail(ctl.rows) \in Seq(Row)
           /\ ctl.port \in Ports
           /\ At(Head(ctl.rows)) \in Sources
           /\ Openers(Head(ctl.rows)) \in SUBSET Reqs
  <1>1. ctl.rows \in Seq(Row) /\ ctl.rows # <<>> /\ ctl.port \in Ports
    BY DEF TypeOK, Rows, Work
  <1>2. Head(ctl.rows) \in Row /\ Tail(ctl.rows) \in Seq(Row)
    BY <1>1
  <1>3. At(Head(ctl.rows)) \in Sources
    BY <1>1, <1>2 DEF At, Row, Sources
  <1> QED
    BY <1>1, <1>2, <1>3 DEF Openers

(* A reference that is handed out, and the rule asked for, are well typed. *)
LEMMA AskedType ==
    ASSUME TypeOK, Rows, Openers(Head(ctl.rows)) # {}
    PROVE  /\ Asked(Head(ctl.rows)) \in Rules
           /\ Asked(Head(ctl.rows)).source = At(Head(ctl.rows))
  <1> DEFINE row == Head(ctl.rows)
             r == Lowest(Openers(row))
             e == entries[ctl.port]
  <1>1. row \in Row /\ ctl.port \in Ports /\ At(row) \in Sources /\ Openers(row) \in SUBSET Reqs
    BY RowType
  <1>2. r \in Openers(row)
    BY <1>1, LowestIn
  <1>3. r \in Reqs /\ e.targets[r] # None
    BY <1>2 DEF Openers
  <1>4. e \in Entry
    BY <1>1 DEF TypeOK
  <1>5. e.targets[r].target \in Targets /\ e.count \in Counts \cup {0}
    BY <1>3, <1>4 DEF Entry
  <1>6. Filter(r, row) \in {"any", "lan"}
    BY DEF Filter
  <1>7. Asked(row) = Rule(At(row), e.targets[r].target, e.count, Filter(r, row))
    BY DEF Asked
  <1> HIDE DEF row, r, e
  <1>8. Asked(row) \in Rules /\ Asked(row).source = At(row)
    BY <1>1, <1>5, <1>6, <1>7 DEF Rule, Rules
  <1> QED
    BY <1>8 DEF row

(* The work left when a row is served. *)
LEMMA KeptType ==
    ASSUME TypeOK, Rows
    PROVE  /\ Kept(Head(ctl.rows)) \in Work
           /\ Kept(Head(ctl.rows)).at = "rows"
           /\ Kept(Head(ctl.rows)).port = ctl.port
           /\ Kept(Head(ctl.rows)).dead = ctl.dead
  <1> DEFINE row == Head(ctl.rows)
             pub == PublicOn(Lowest(Openers(row)), row.gw)
             w == IF pub THEN ctl.wanted \cup {row.ip} ELSE ctl.wanted
  <1>1. row.ip \in Ips /\ Tail(ctl.rows) \in Seq(Row)
    BY RowType DEF Row
  <1>2. ctl \in Work /\ ctl.at = "rows"
    BY DEF TypeOK, Rows
  <1>3. w \in SUBSET Ips /\ ctl.keep \cup {row.ip} \in SUBSET Ips
    <2>1. ctl.wanted \in SUBSET Ips /\ ctl.keep \in SUBSET Ips
      BY <1>2 DEF Work
    <2> QED
      BY <2>1, <1>1
  <1>4. Kept(row) = [ctl EXCEPT !.keep = ctl.keep \cup {row.ip}, !.wanted = w,
                                !.rows = Tail(ctl.rows)]
    BY DEF Kept
  <1> HIDE DEF row, w
  <1>5. Kept(row) \in Work /\ Kept(row).at = "rows" /\ Kept(row).port = ctl.port
        /\ Kept(row).dead = ctl.dead
    BY <1>1, <1>2, <1>3, <1>4, ZenonT(60) DEF Work
  <1> QED
    BY <1>5 DEF row

(* A command whose caller went away is a command still. *)
LEMMA ForsakeType ==
    ASSUME NEW c \in Command, NEW s
    PROVE  Forsake(c, s) \in Command
  <1>1. CASE c \in [kind : {"sync"}, by : Services \cup {None}]
    BY <1>1 DEF Forsake, Command
  <1>2. CASE c \in [kind : {"forward"}, by : Services \cup {None}, port : Ports,
                    spec : Forwards, rc : Rcs]
    BY <1>2 DEF Forsake, Command
  <1> QED
    BY <1>1, <1>2 DEF Command

(* The controller between two requests. *)
LEMMA IdleType == Idle \in Work /\ Idle.at = "idle"
  BY DEF Idle, Work, Sync, Command

(* Changes, failures and restarts keep the types. *)
LEMMA EnvironmentTyped ==
    ASSUME TypeOK, Environment
    PROVE  TypeOK'
  <1> USE DEF envVars, svcVars, ctlVars
  <1>1. ASSUME NEW s \in Services, NEW p \in Ports, NEW v \in Specs[s][p] \cup {None},
               Change(s, p, v)
        PROVE  TypeOK'
    <2>1. v \in Forwards \cup {None}
      BY SpecsAssumption
    <2>2. want' \in [Services -> Goal]
      BY <1>1, <2>1 DEF TypeOK, Change, Goal
    <2>3. dirty' \in [Services -> BOOLEAN] /\ budget' \in [changes : Nat, failures : Nat, restarts : Nat]
      BY <1>1 DEF TypeOK, Change, Spend
    <2>4. owner' \in [Ports -> Services \cup {None}] /\ rushed' \in BOOLEAN
      BY <1>1 DEF TypeOK, Change, Rush
    <2> QED
      BY <1>1, <2>2, <2>3, <2>4 DEF TypeOK, Change
  <1>2. ASSUME NEW n \in Nets, Rewire(n)
        PROVE  TypeOK'
    <2>1. budget' \in [changes : Nat, failures : Nat, restarts : Nat]
      BY <1>2 DEF TypeOK, Rewire, Spend
    <2> QED
      BY <1>2, <2>1 DEF TypeOK, Rewire
  <1>3. ASSUME NEW s \in Services, Remove(s)
        PROVE  TypeOK'
    <2>1. NoPass \in Pass /\ NoPass.goal \in Goal
      BY DEF NoPass, Pass, Goal
    <2>2. want' \in [Services -> Goal] /\ pass' \in [Services -> Pass]
          /\ dirty' \in [Services -> BOOLEAN]
      BY <1>3, <2>1 DEF TypeOK, Remove
    <2>7. budget' \in [changes : Nat, failures : Nat, restarts : Nat]
      <3>1. Spend("changes")
        BY <1>3 DEF Remove
      <3> QED
        BY <3>1 DEF TypeOK, Spend
    <2>3. queue' \in Seq(Command)
      <3>1. queue \in Seq(Command) /\ queue' = [i \in DOMAIN queue |-> Forsake(queue[i], s)]
        BY <1>3 DEF TypeOK, Remove
      <3>2. DOMAIN queue = 1..Len(queue) /\ \A i \in DOMAIN queue : queue[i] \in Command
        BY <3>1
      <3> QED
        BY <3>1, <3>2, ForsakeType
    <2>4. ctl.cmd \in Command
      BY DEF TypeOK, Work
    <2>5. Forsake(ctl.cmd, s) \in Command
      BY <2>4, ForsakeType
    <2>6. /\ ctl' \in Work
          /\ ctl'.at = ctl.at /\ ctl'.port = ctl.port /\ ctl'.op = ctl.op
      BY <1>3, <2>5 DEF TypeOK, Remove, Work
    <2> QED
      BY <1>3, <2>2, <2>3, <2>6, <2>7 DEF TypeOK, Remove
  <1>4. ASSUME Fail
        PROVE  TypeOK'
    <2>1. held' \in [Services -> Holding] /\ pass' \in [Services -> Pass]
      BY <1>4, AnswerType DEF Fail
    <2>2. failed' \in SUBSET Rules /\ mappings' \in [Sources -> Mapping \cup {None}]
      <3>1. CASE ctl.at = "unforward"
        <4>1. ctl.op \in Operation
          BY <3>1 DEF TypeOK, Work
        <4>2. ctl.op.old \in Rules
          BY <4>1, <3>1 DEF TypeOK, Operation
        <4> QED
          BY <1>4, <3>1, <4>2 DEF TypeOK, Fail
      <3>2. CASE ctl.at = "forward"
        BY <1>4, <3>2 DEF TypeOK, Fail
      <3>3. CASE ctl.at = "gc"
        <4>1. PICK x \in ctl.dead : /\ failed' = failed \cup {mappings[x].rule}
                                    /\ mappings' = [mappings EXCEPT ![x] = None]
          BY <1>4, <3>3 DEF Fail
        <4>2. x \in Sources /\ mappings[x] # None
          BY <3>3 DEF TypeOK, Work
        <4>3. mappings[x] \in Mapping
          BY <4>2 DEF TypeOK
        <4>4. mappings[x].rule \in Rules
          BY <4>3 DEF Mapping
        <4> QED
          BY <4>1, <4>4 DEF TypeOK
      <3> QED
        BY <1>4, <3>1, <3>2, <3>3 DEF Fail
    <2>3. budget' \in [changes : Nat, failures : Nat, restarts : Nat]
      <3>1. Spend("failures") /\ budget \in [changes : Nat, failures : Nat, restarts : Nat]
        BY <1>4 DEF TypeOK, Fail
      <3> QED
        BY ONLY <3>1 DEF Spend
    <2> QED
      BY <1>4, <2>1, <2>2, <2>3, IdleType DEF TypeOK, Fail
  <1>5. ASSUME Restart
        PROVE  TypeOK'
    <2>1. NoPass \in Pass
      BY DEF NoPass, Pass, Goal
    <2>2. NoEntry \in Entry
      BY DEF NoEntry, Entry
    <2>3. [p \in Ports |-> None] \in Holding
      BY DEF Holding
    <2>4. queue' \in Seq(Command)
      BY <1>5 DEF Restart
    <2>5. /\ held' \in [Services -> Holding] /\ pass' \in [Services -> Pass]
          /\ entries' \in [Ports -> Entry] /\ dirty' \in [Services -> BOOLEAN]
          /\ mappings' \in [Sources -> Mapping \cup {None}]
          /\ upstream' \in [Sources -> Counts \cup {0}]
      BY <1>5, <2>1, <2>2, <2>3 DEF Restart
    <2>6. budget' \in [changes : Nat, failures : Nat, restarts : Nat]
      <3>1. Spend("restarts") /\ budget \in [changes : Nat, failures : Nat, restarts : Nat]
        BY <1>5 DEF TypeOK, Restart
      <3> QED
        BY ONLY <3>1 DEF Spend
    <2> QED
      BY <1>5, <2>4, <2>5, <2>6, IdleType DEF TypeOK, Restart
  <1> QED
    BY <1>1, <1>2, <1>3, <1>4, <1>5 DEF Environment

(* The steps of a service's pass keep the types. *)
LEMMA TaskTyped ==
    ASSUME TypeOK, NEW s \in Services, Task(s)
    PROVE  TypeOK'
  <1> USE DEF envVars, svcVars, ctlVars
  <1>1. CASE Begin(s)
    <2>1. [at |-> "ports", goal |-> want[s],
           todo |-> {p \in Ports : held[s][p] # None \/ want[s][p] # None}] \in Pass
      BY DEF TypeOK, Pass
    <2> QED
      BY <1>1, <2>1 DEF TypeOK, Begin
  <1>2. ASSUME pass[s].todo # {}
        PROVE  /\ Lowest(pass[s].todo) \in Ports
               /\ Done(s, Lowest(pass[s].todo)) \in [Services -> Pass]
               /\ [Done(s, Lowest(pass[s].todo)) EXCEPT ![s].at = "reply"] \in [Services -> Pass]
    <2> DEFINE p == Lowest(pass[s].todo)
    <2>1. pass[s] \in Pass
      BY DEF TypeOK
    <2>2. pass[s].todo \in SUBSET Ports
      BY <2>1 DEF Pass
    <2>3. p \in Ports
      BY <1>2, <2>2, LowestIn
    <2> HIDE DEF p
    <2>4. [pass[s] EXCEPT !.todo = pass[s].todo \ {p}] \in Pass
      BY <2>1, <2>2 DEF Pass
    <2>5. Done(s, p) = [pass EXCEPT ![s] = [pass[s] EXCEPT !.todo = pass[s].todo \ {p}]]
      BY DEF Done, TypeOK
    <2>6. Done(s, p) \in [Services -> Pass]
      BY <2>4, <2>5 DEF TypeOK
    <2>7. [Done(s, p)[s] EXCEPT !.at = "reply"] \in Pass
      BY <2>6 DEF Pass
    <2>8. [Done(s, p) EXCEPT ![s].at = "reply"] \in [Services -> Pass]
      BY <2>6, <2>7
    <2> QED
      BY <2>3, <2>6, <2>8 DEF p
  <1>3. CASE Keep(s)
    BY <1>2, <1>3 DEF TypeOK, Keep
  <1>4. CASE Drop(s)
    <2>1. held' \in [Services -> Holding]
      BY <1>2, <1>4 DEF TypeOK, Drop, Holding
    <2> QED
      BY <1>2, <1>4, <2>1 DEF TypeOK, Drop
  <1>5. CASE Ask(s)
    <2> DEFINE p == Lowest(pass[s].todo)
               spec == pass[s].goal[p]
    <2>1. p \in Ports /\ pass' \in [Services -> Pass]
      BY <1>2, <1>5 DEF Ask
    <2>2. pass[s] \in Pass
      BY DEF TypeOK
    <2>3. spec \in Forwards
      BY <1>5, <2>1, <2>2 DEF Ask, Pass, Goal
    <2>4. held' \in [Services -> Holding]
      BY <1>5, <2>1 DEF TypeOK, Ask, Holding
    <2>5. PICK rc \in Rcs : queue' = Append(queue,
              [kind |-> "forward", by |-> s, port |-> p, spec |-> spec, rc |-> rc])
      BY <1>5 DEF Ask, Send
    <2>6. [kind |-> "forward", by |-> s, port |-> p, spec |-> spec, rc |-> rc] \in Command
      BY <2>1, <2>3 DEF Command
    <2> HIDE DEF p, spec
    <2>7. queue' \in Seq(Command)
      BY <2>5, <2>6 DEF TypeOK
    <2> QED
      BY <1>5, <2>1, <2>4, <2>7 DEF TypeOK, Ask
  <1>6. CASE Collect(s)
    <2>1. pass[s] \in Pass
      BY DEF TypeOK
    <2>2. [pass[s] EXCEPT !.at = "gc"] \in Pass
      BY <2>1 DEF Pass
    <2>3. Sync(s) \in Command
      BY DEF Sync, Command
    <2>4. queue' \in Seq(Command)
      BY <1>6, <2>3 DEF TypeOK, Collect, Send
    <2>5. pass' \in [Services -> Pass]
      BY <1>6, <2>2 DEF TypeOK, Collect
    <2> QED
      BY <1>6, <2>4, <2>5 DEF TypeOK, Collect
  <1> QED
    BY <1>1, <1>3, <1>4, <1>5, <1>6 DEF Task

(* What a request makes of an entry. *)
LEMMA RequestedType ==
    ASSUME NEW e \in Entry,
           NEW c \in [kind : {"forward"}, by : Services \cup {None}, port : Ports,
                      spec : Forwards, rc : Rcs]
    PROVE  /\ Requested(e, c) \in Entry
           /\ Requested(e, c).targets[c.spec.reqs].rc \in Rcs
  <1> DEFINE e1 == IF e.count = c.spec.count THEN e ELSE [NoEntry EXCEPT
                      !.count = c.spec.count, !.mapped = e.mapped]
             old == e1.targets[c.spec.reqs]
             alive == old # None /\ old.target = c.spec.target /\ old.rc \in Live
             rc == IF alive THEN old.rc ELSE c.rc
             t == [target |-> c.spec.target, rc |-> rc]
  <1>1. c.spec \in Forwards /\ c.rc \in Rcs
    OBVIOUS
  <1>2. c.spec.count \in Counts /\ c.spec.target \in Targets /\ c.spec.reqs \in Reqs
    BY <1>1 DEF Forwards
  <1>3. NoEntry \in Entry
    BY DEF NoEntry, Entry
  <1>4. e1 \in Entry
    BY <1>2, <1>3 DEF Entry
  <1> HIDE DEF e1
  <1>5. old \in [target : Targets, rc : Rcs] \cup {None}
    BY <1>2, <1>4 DEF Entry
  <1>6. rc \in Rcs
    BY <1>1, <1>5
  <1>7. Requested(e, c) = [e1 EXCEPT !.targets[c.spec.reqs] = t]
    BY DEF Requested, e1
  <1>8. t \in [target : Targets, rc : Rcs] /\ t.rc \in Rcs
    BY <1>2, <1>6
  <1> HIDE DEF t
  <1> QED
    BY <1>2, <1>4, <1>7, <1>8 DEF Entry

(* So does what becomes of a transaction, carried out or refused. *)
LEMMA OutcomeType ==
    ASSUME TypeOK, NEW r \in Rules, NEW rules \in SUBSET Rules, Carried(rules, r) \/ Refused(r)
    PROVE  /\ kernel' \in SUBSET Rules /\ failed' \in SUBSET Rules
           /\ budget' \in [changes : Nat, failures : Nat, restarts : Nat]
  <1>1. budget \in [changes : Nat, failures : Nat, restarts : Nat]
        /\ kernel \in SUBSET Rules /\ failed \in SUBSET Rules
    BY DEF TypeOK
  <1>2. CASE Carried(rules, r)
    BY <1>1, <1>2 DEF Carried
  <1>3. CASE Refused(r)
    BY <1>1, <1>3 DEF Refused, Spend
  <1> QED
    BY <1>2, <1>3

(* The steps of the controller keep the types. *)
LEMMA ControllerTyped ==
    ASSUME TypeOK, Controller
    PROVE  TypeOK'
  <1> USE DEF envVars, svcVars, ctlVars
  <1>1. CASE TakeSync
    <2>1. queue # <<>> /\ queue \in Seq(Command)
      BY <1>1 DEF TypeOK, TakeSync
    <2>2. Head(queue) \in Command /\ queue' \in Seq(Command)
      BY <1>1, <2>1 DEF TakeSync
    <2>3. Known(entries) \in SUBSET Ports
      BY DEF Known
    <2>4. SyncOn(Head(queue), Known(entries), entries, interfaces)
      BY <1>1 DEF TakeSync
    <2>5. /\ entries' \in [Ports -> Entry] /\ ctl' \in Work
          /\ ctl'.at \in {"rows", "gc"} /\ (ctl'.at = "rows" => ctl'.port \in Ports)
      BY <2>2, <2>3, <2>4, SyncOnType DEF TypeOK
    <2>6. ctl'.at = "gc" => \A x \in ctl'.dead : mappings[x] # None
      BY <2>4, SyncOnDead
    <2> QED
      BY <1>1, <2>2, <2>5, <2>6 DEF TypeOK, TakeSync
  <1>2. CASE TakeNet
    <2>1. Sync(None) \in Command
      BY DEF Sync, Command
    <2>2. interfaces' \in Nets /\ Renewed \in Nets
      BY <1>2 DEF TypeOK, TakeNet, Renewed
    <2>3. Known(entries) \in SUBSET Ports
      BY DEF Known
    <2>4. SyncOn(Sync(None), Known(entries), entries, Renewed)
      BY <1>2 DEF TakeNet
    <2>5. /\ entries' \in [Ports -> Entry] /\ ctl' \in Work
          /\ ctl'.at \in {"rows", "gc"} /\ (ctl'.at = "rows" => ctl'.port \in Ports)
      BY <2>1, <2>2, <2>3, <2>4, SyncOnType, ZenonT(60) DEF TypeOK
    <2>6. ctl'.at = "gc" => \A x \in ctl'.dead : mappings[x] # None
      BY <2>4, SyncOnDead
    <2> QED
      BY <1>2, <2>2, <2>5, <2>6 DEF TypeOK, TakeNet
  <1>3. CASE TakeForward
    <2> DEFINE c == Head(queue)
               e == Requested(entries[c.port], c)
    <2>1. queue # <<>> /\ queue \in Seq(Command) /\ Asking(c)
      BY <1>3 DEF TypeOK, TakeForward
    <2>2. c \in Command /\ queue' \in Seq(Command)
      BY <1>3, <2>1 DEF TakeForward
    <2>3. c \in [kind : {"forward"}, by : Services \cup {None}, port : Ports,
                 spec : Forwards, rc : Rcs]
      BY <2>1, <2>2 DEF Command, Asking
    <2>4. c.port \in Ports /\ entries[c.port] \in Entry
      BY <2>3 DEF TypeOK
    <2>5. e \in Entry /\ e.targets[c.spec.reqs].rc \in Rcs
      BY <2>3, <2>4, RequestedType
    <2>6. /\ entries' = [entries EXCEPT ![c.port] = e]
          /\ ctl' = Update([c EXCEPT !.rc = e.targets[c.spec.reqs].rc], c.port, {}, interfaces)
      BY <1>3 DEF TakeForward
    <2> HIDE DEF c, e
    <2>7. entries' \in [Ports -> Entry]
      BY <2>4, <2>5, <2>6 DEF TypeOK
    <2>8. [c EXCEPT !.rc = e.targets[c.spec.reqs].rc] \in Command
      BY <2>3, <2>5 DEF Command
    <2>9. interfaces \in Seq(Row)
      BY NetsAssumption DEF TypeOK
    <2>10. ctl' \in Work /\ ctl'.at = "rows" /\ ctl'.port \in Ports
      BY <2>4, <2>6, <2>8, <2>9, IdleType DEF Update, Work
    <2> QED
      BY <1>3, <2>2, <2>7, <2>10 DEF TypeOK, TakeForward
  <1>4. CASE SkipRow
    <2>1. Tail(ctl.rows) \in Seq(Row) /\ ctl.port \in Ports /\ ctl.at = "rows"
      BY <1>4, RowType DEF SkipRow, Rows
    <2>2. ctl' = [ctl EXCEPT !.rows = Tail(ctl.rows)]
      BY <1>4 DEF SkipRow
    <2>3. ctl' \in Work /\ ctl'.at = "rows" /\ ctl'.port \in Ports
      BY <2>1, <2>2, ZenonT(60) DEF TypeOK, Work
    <2> QED
      BY <1>4, <2>3 DEF TypeOK, SkipRow
  <1>5. CASE ReuseRule
    <2> DEFINE row == Head(ctl.rows)
               x == At(row)
               m == mappings[x]
               rc == IF m.rc = entries[ctl.port].forwards[row.ip] THEN m.rc ELSE FreshRc(x)
    <2>1. row \in Row /\ ctl.port \in Ports /\ x \in Sources /\ m # None
      BY <1>5, RowType DEF ReuseRule, Installed
    <2>2. m \in Mapping
      BY <2>1 DEF TypeOK
    <2>3. m.rc \in 1..3
      BY <2>2 DEF Mapping
    <2>4. rc \in 1..3
      BY <2>1, <2>3, FreshIn
    <2>5. /\ mappings' = [mappings EXCEPT ![x].rc = rc]
          /\ entries' = [entries EXCEPT ![ctl.port].forwards[row.ip] = rc]
          /\ ctl' = Kept(row)
      BY <1>5 DEF ReuseRule, Rearm
    <2>6. ctl' \in Work /\ ctl'.at = "rows" /\ ctl'.port \in Ports
      BY <1>5, <2>1, <2>5, KeptType DEF ReuseRule
    <2>7. row.ip \in Ips
      BY <2>1 DEF Row
    <2> HIDE DEF row, x, rc
    <2>8. [m EXCEPT !.rc = rc] \in Mapping
      BY <2>2, <2>4 DEF Mapping
    <2>9. mappings' \in [Sources -> Mapping \cup {None}]
      BY <2>1, <2>5, <2>8 DEF TypeOK
    <2>10. entries[ctl.port] \in Entry
      BY <2>1 DEF TypeOK
    <2>11. [entries[ctl.port] EXCEPT !.forwards[row.ip] = rc] \in Entry
      BY <2>4, <2>7, <2>10 DEF Entry
    <2>12. entries' \in [Ports -> Entry]
      BY <2>1, <2>5, <2>11 DEF TypeOK
    <2> QED
      BY <1>5, <2>6, <2>9, <2>12 DEF TypeOK, ReuseRule
  <1>6. CASE ChangeRule
    <2> DEFINE row == Head(ctl.rows)
               m == mappings[At(row)]
               old == IF m = None THEN None ELSE m.rule
    <2>1. ctl.port \in Ports /\ At(row) \in Sources
      BY <1>6, RowType DEF ChangeRule
    <2>2. old \in Rules \cup {None} /\ (m # None => old \in Rules)
      BY <2>1 DEF TypeOK, Mapping
    <2>3. Asked(row) \in Rules
      BY <1>6, AskedType DEF ChangeRule
    <2>4. Kept(row) \in Work /\ Kept(row).port = ctl.port
      BY <1>6, KeptType DEF ChangeRule
    <2>5. /\ mappings' = [mappings EXCEPT ![At(row)] = None]
          /\ ctl' = [Kept(row) EXCEPT !.at = FirstOp(m), !.op = [old |-> old, new |-> Asked(row)]]
      BY <1>6 DEF ChangeRule
    <2>6. FirstOp(m) \in {"unforward", "forward"} /\ (FirstOp(m) = "unforward" => m # None)
      BY DEF FirstOp
    <2> HIDE DEF row, m, old
    <2>7. [old |-> old, new |-> Asked(row)] \in Operation
      BY <2>2, <2>3 DEF Operation
    <2>8. ctl' \in Work
      BY <2>4, <2>5, <2>6, <2>7 DEF Work
    <2>9. /\ ctl'.at = FirstOp(m) /\ ctl'.port = ctl.port
          /\ ctl'.op = [old |-> old, new |-> Asked(row)]
      BY <2>4, <2>5 DEF Work
    <2>10. mappings' \in [Sources -> Mapping \cup {None}]
      BY <2>1, <2>5 DEF TypeOK
    <2> QED
      BY <1>6, <2>1, <2>2, <2>6, <2>7, <2>8, <2>9, <2>10, NoneAssumption DEF TypeOK, ChangeRule
  <1>7. CASE Unforward
    <2>1. ctl' \in Work /\ ctl'.at = "forward" /\ ctl'.port = ctl.port /\ ctl'.op = ctl.op
      BY <1>7 DEF TypeOK, Unforward, Work
    <2>2. ctl.op \in Operation /\ ctl.op.old # None
      BY <1>7 DEF TypeOK, Unforward, Work
    <2>3. ctl.op.old \in Rules /\ kernel \ {ctl.op.old} \in SUBSET Rules
      BY <2>2 DEF TypeOK, Operation
    <2>4. /\ kernel' \in SUBSET Rules /\ failed' \in SUBSET Rules
          /\ budget' \in [changes : Nat, failures : Nat, restarts : Nat]
      BY <1>7, <2>3, OutcomeType DEF Unforward
    <2> QED
      BY <1>7, <2>1, <2>4 DEF TypeOK, Unforward
  <1>8. CASE Forward
    <2> DEFINE new == ctl.op.new
               x == new.source
               rc == FreshRc(x)
    <2>1. ctl.op \in Operation
      BY <1>8 DEF TypeOK, Forward, Work
    <2>2. new \in Rules
      BY <2>1 DEF Operation
    <2>3. x \in Sources /\ x[1] \in Ips /\ x[2] \in Ports
      BY <2>2 DEF Rules, Sources
    <2>4. rc \in 1..3
      BY <2>3, FreshIn
    <2>5. /\ mappings' = [mappings EXCEPT ![x] = [rule |-> new, rc |-> rc]]
          /\ entries' = [entries EXCEPT ![x[2]].forwards[x[1]] = rc]
      BY <1>8 DEF Forward
    <2>6. ctl' \in Work /\ ctl'.at = "rows" /\ ctl'.port = ctl.port
      BY <1>8 DEF TypeOK, Forward, Work
    <2>12. /\ kernel' \in SUBSET Rules /\ failed' \in SUBSET Rules
           /\ budget' \in [changes : Nat, failures : Nat, restarts : Nat]
      <3>1. kernel \cup {new} \in SUBSET Rules
        BY <2>2 DEF TypeOK
      <3> QED
        BY <1>8, <2>2, <3>1, OutcomeType DEF Forward
    <2> HIDE DEF new, x, rc
    <2>7. [rule |-> new, rc |-> rc] \in Mapping
      BY <2>2, <2>4 DEF Mapping
    <2>8. mappings' \in [Sources -> Mapping \cup {None}]
      BY <2>3, <2>5, <2>7 DEF TypeOK
    <2>9. entries[x[2]] \in Entry
      BY <2>3 DEF TypeOK
    <2>10. [entries[x[2]] EXCEPT !.forwards[x[1]] = rc] \in Entry
      BY <2>3, <2>4, <2>9 DEF Entry
    <2>11. entries' \in [Ports -> Entry]
      BY <2>3, <2>5, <2>10 DEF TypeOK
    <2> QED
      BY <1>8, <2>6, <2>8, <2>11, <2>12 DEF TypeOK, Forward
  <1>9. CASE EndRows
    <2> DEFINE p == ctl.port
               e == [entries[p] EXCEPT !.forwards = Refs(entries[p]), !.mapped = ctl.wanted]
               es == [entries EXCEPT ![p] = e]
    <2>1. p \in Ports /\ entries[p] \in Entry /\ ctl.wanted \in SUBSET Ips
          /\ ctl.cmd \in Command /\ ctl.ports \in SUBSET Ports
      BY <1>9 DEF TypeOK, EndRows, Work
    <2>2. Refs(entries[p]) \in [Ips -> 0..3]
      BY <2>1 DEF Refs, Entry
    <2> HIDE DEF p
    <2>3. e \in Entry
      BY <2>1, <2>2 DEF Entry
    <2>4. es \in [Ports -> Entry]
      BY <2>1, <2>3 DEF TypeOK
    <2>5. e.count \in Counts \cup {0}
      BY <2>3 DEF Entry
    <2>6. upstream' = [x \in Sources |->
             IF x[2] # p THEN upstream[x]
             ELSE IF x[1] \in ctl.wanted THEN e.count
             ELSE IF x[1] \in entries[p].mapped THEN 0 ELSE upstream[x]]
      BY <1>9 DEF EndRows, p
    <2>7. upstream' \in [Sources -> Counts \cup {0}]
      <3> HIDE DEF e
      <3> QED
        BY <2>5, <2>6 DEF TypeOK
    <2>8. CASE Asking(ctl.cmd)
      <3>1. Answer(TRUE) /\ entries' = es /\ ctl' = Idle
        BY <1>9, <2>8 DEF EndRows, p
      <3>2. held' \in [Services -> Holding] /\ pass' \in [Services -> Pass]
        BY <3>1, AnswerType
      <3> HIDE DEF es
      <3> QED
        BY <1>9, <2>4, <2>7, <3>1, <3>2, IdleType DEF TypeOK, EndRows
    <2>9. CASE ~Asking(ctl.cmd)
      <3>1. SyncOn(ctl.cmd, ctl.ports, es, interfaces) /\ UNCHANGED <<held, pass>>
        BY <1>9, <2>9 DEF EndRows, p
      <3> HIDE DEF es
      <3>2. /\ entries' \in [Ports -> Entry] /\ ctl' \in Work
            /\ ctl'.at \in {"rows", "gc"} /\ (ctl'.at = "rows" => ctl'.port \in Ports)
        BY <2>1, <2>4, <3>1, SyncOnType DEF TypeOK
      <3>3. ctl'.at = "gc" => \A x \in ctl'.dead : mappings[x] # None
        BY <3>1, SyncOnDead
      <3> QED
        BY <1>9, <2>7, <3>1, <3>2, <3>3 DEF TypeOK, EndRows
    <2> QED
      BY <2>8, <2>9
  <1>10. CASE GcRule
    <2>1. PICK x \in ctl.dead :
             /\ Carried(kernel \ {mappings[x].rule}, mappings[x].rule) \/ Refused(mappings[x].rule)
             /\ mappings' = [mappings EXCEPT ![x] = None]
             /\ ctl' = [ctl EXCEPT !.dead = ctl.dead \ {x}]
      BY <1>10 DEF GcRule
    <2>2. x \in Sources
      BY DEF TypeOK, Work
    <2>6. /\ kernel' \in SUBSET Rules /\ failed' \in SUBSET Rules
          /\ budget' \in [changes : Nat, failures : Nat, restarts : Nat]
      <3>1. mappings[x] # None /\ mappings[x] \in Mapping \cup {None}
        BY <1>10, <2>2 DEF TypeOK, GcRule
      <3>2. mappings[x].rule \in Rules /\ kernel \ {mappings[x].rule} \in SUBSET Rules
        BY <3>1 DEF TypeOK, Mapping
      <3> QED
        BY <2>1, <3>2, OutcomeType
    <2>3. ctl' \in Work /\ ctl'.at = "gc" /\ ctl'.dead = ctl.dead \ {x} /\ ctl.at = "gc"
      BY <1>10, <2>1 DEF TypeOK, Work, GcRule
    <2>4. mappings' \in [Sources -> Mapping \cup {None}]
      BY <2>1, <2>2 DEF TypeOK
    <2>5. \A y \in ctl'.dead : mappings'[y] # None
      BY <2>1, <2>3 DEF TypeOK, Work
    <2> QED
      BY <1>10, <2>3, <2>4, <2>5, <2>6 DEF TypeOK, GcRule
  <1>11. CASE EndSync
    <2>1. held' \in [Services -> Holding] /\ pass' \in [Services -> Pass]
      BY <1>11, AnswerType DEF EndSync
    <2> QED
      BY <1>11, <2>1, IdleType DEF TypeOK, EndSync
  <1>12. CASE RemoveStale
    <2>1. /\ kernel' \in SUBSET Rules /\ failed' \in SUBSET Rules
          /\ budget' \in [changes : Nat, failures : Nat, restarts : Nat]
      <3>1. budget \in [changes : Nat, failures : Nat, restarts : Nat]
            /\ kernel \in SUBSET Rules /\ failed \in SUBSET Rules
        BY DEF TypeOK
      <3> QED
        BY <1>12, <3>1 DEF RemoveStale, Spend
    <2> QED
      BY <1>12, <2>1 DEF TypeOK, RemoveStale
  <1> QED
    BY <1>1, <1>2, <1>3, <1>4, <1>5, <1>6, <1>7, <1>8, <1>9, <1>10, <1>11, <1>12 DEF Controller

(* Spec => []TypeOK: whatever the services, the network and the scripts do, *)
(* every structure of the controller and the services keeps its type, and   *)
(* no rule or mapping is used that is not there.                            *)
THEOREM ForwardsTypeCorrect == Spec => []TypeOK
  <1>1. Init => TypeOK
    <2> SUFFICES ASSUME Init PROVE TypeOK
      OBVIOUS
    <2>1. NoPass \in Pass /\ NoEntry \in Entry /\ [p \in Ports |-> None] \in Holding
          /\ [p \in Ports |-> None] \in Goal
      BY DEF NoPass, Pass, Goal, NoEntry, Entry, Holding
    <2>2. queue \in Seq(Command)
      BY DEF Init
    <2> QED
      BY <2>1, <2>2, IdleType DEF Init, TypeOK
  <1>2. TypeOK /\ [Next]_vars => TypeOK'
    <2> SUFFICES ASSUME TypeOK, [Next]_vars PROVE TypeOK'
      OBVIOUS
    <2>1. CASE UNCHANGED vars
      BY <2>1 DEF vars, envVars, svcVars, ctlVars, TypeOK
    <2> QED
      BY <2>1, EnvironmentTyped, ControllerTyped, TaskTyped DEF Next
  <1> QED
    BY <1>1, <1>2, PTL DEF Spec

-----------------------------------------------------------------------------
(* The rule of every mapping is in the kernel or failed; every rule in the  *)
(* kernel is that of a mapping, one that failed, or the one being removed.  *)
Booked ==
    /\ \A x \in Sources : mappings[x] # None => mappings[x].rule \in kernel \cup failed
    /\ \A k \in kernel :
          \/ \E x \in Sources : mappings[x] # None /\ mappings[x].rule = k
          \/ k \in failed
          \/ ctl.at = "unforward" /\ k = ctl.op.old

(* What makes it inductive: a mapping is filed under its rule's address, so *)
(* that no other mapping has the rule that is removed; the address being    *)
(* worked on has no mapping; before the rules of the last run are removed   *)
(* there is none at all.                                                    *)
Ledger ==
    /\ \A x \in Sources : mappings[x] # None => mappings[x].rule.source = x
    /\ ctl.at \in {"unforward", "forward"} => up /\ mappings[ctl.op.new.source] = None
    /\ ctl.at = "unforward" => ctl.op.old.source = ctl.op.new.source
    /\ ~up => \A x \in Sources : mappings[x] = None
    /\ up => Booked

(* A step that leaves the rules and the operation alone. *)
LEMMA Quiet ==
    ASSUME Ledger, UNCHANGED <<mappings, kernel, failed, up>>,
           \/ ctl'.at = ctl.at /\ ctl'.op = ctl.op
           \/ ctl.at # "unforward" /\ ctl'.at \notin {"unforward", "forward"}
    PROVE  Ledger'
  BY DEF Ledger, Booked

(* The steps of the environment. *)
LEMMA LedgerEnvironment ==
    ASSUME TypeOK, Ledger, Environment
    PROVE  Ledger'
  <1> USE DEF envVars, svcVars, ctlVars
  <1>1. ASSUME NEW s \in Services, NEW p \in Ports, NEW v, Change(s, p, v)
        PROVE  Ledger'
    BY <1>1, Quiet DEF Change
  <1>2. ASSUME NEW n \in Nets, Rewire(n)
        PROVE  Ledger'
    BY <1>2, Quiet DEF Rewire
  <1>3. ASSUME NEW s \in Services, Remove(s)
        PROVE  Ledger'
    <2>1. ctl'.at = ctl.at /\ ctl'.op = ctl.op
      BY <1>3 DEF TypeOK, Remove, Work
    <2> QED
      BY <1>3, <2>1, Quiet DEF Remove
  <1>4. CASE Fail
    <2>1. ctl'.at = "idle" /\ kernel' = kernel /\ up' = up
      BY <1>4, IdleType DEF Fail
    <2>2. CASE ctl.at = "unforward"
      <3>1. failed' = failed \cup {ctl.op.old} /\ mappings' = mappings
        BY <1>4, <2>2 DEF Fail
      <3> QED
        BY <2>1, <2>2, <3>1 DEF Ledger, Booked
    <2>3. CASE ctl.at = "forward"
      BY <1>4, <2>1, <2>3, Quiet DEF Fail
    <2>4. CASE ctl.at = "gc"
      <3>1. PICK x \in ctl.dead : /\ failed' = failed \cup {mappings[x].rule}
                                  /\ mappings' = [mappings EXCEPT ![x] = None]
        BY <1>4, <2>4 DEF Fail
      <3>2. x \in Sources /\ mappings \in [Sources -> Mapping \cup {None}]
        BY DEF TypeOK, Work
      <3>3. \A y \in Sources : mappings'[y] = IF y = x THEN None ELSE mappings[y]
        BY <3>1, <3>2
      <3>4. Booked => Booked'
        BY <2>1, <2>4, <3>1, <3>3 DEF Booked
      <3> QED
        BY <2>1, <3>3, <3>4 DEF Ledger
    <2> QED
      BY <1>4, <2>2, <2>3, <2>4 DEF Fail
  <1>5. CASE Restart
    <2>1. ctl'.at = "idle" /\ up' = FALSE /\ \A x \in Sources : mappings'[x] = None
      BY <1>5, IdleType DEF Restart
    <2> QED
      BY <2>1 DEF Ledger
  <1> QED
    BY <1>1, <1>2, <1>3, <1>4, <1>5 DEF Environment

(* The steps of the services' passes leave the rules alone. *)
LEMMA LedgerTask ==
    ASSUME Ledger, NEW s \in Services, Task(s)
    PROVE  Ledger'
  BY Quiet DEF Task, Begin, Keep, Drop, Ask, Collect, envVars, svcVars, ctlVars

(* The steps of the controller. *)
LEMMA LedgerController ==
    ASSUME TypeOK, Ledger, Controller
    PROVE  Ledger'
  <1> USE DEF envVars, svcVars, ctlVars
  <1>0. mappings \in [Sources -> Mapping \cup {None}]
    BY DEF TypeOK
  <1>1. ASSUME NEW c, NEW ports, NEW es, NEW ifs, SyncOn(c, ports, es, ifs)
        PROVE  ctl'.at \in {"rows", "gc"}
    BY <1>1 DEF SyncOn, Update, Idle
  <1>2. CASE TakeSync
    BY <1>1, <1>2, Quiet DEF TakeSync, Busy
  <1>3. CASE TakeNet
    BY <1>1, <1>3, Quiet DEF TakeNet, Busy
  <1>4. CASE TakeForward
    <2>1. ctl'.at = "rows" /\ ctl.at = "idle"
      BY <1>4 DEF TakeForward, Update, Idle, Busy
    <2> QED
      BY <1>4, <2>1, Quiet DEF TakeForward
  <1>5. CASE SkipRow
    <2>1. ctl'.at = ctl.at /\ ctl'.op = ctl.op
      BY <1>5 DEF TypeOK, SkipRow, Work
    <2> QED
      BY <1>5, <2>1, Quiet DEF SkipRow
  <1>6. CASE ReuseRule
    <2> DEFINE x == At(Head(ctl.rows))
    <2>1. x \in Sources /\ mappings[x] # None
      BY <1>6, RowType DEF ReuseRule, Installed
    <2>2. mappings[x] \in Mapping /\ mappings[x].rc \in 1..3
      BY <1>0, <2>1 DEF Mapping
    <2>3. PICK rc \in 1..3 : mappings' = [mappings EXCEPT ![x].rc = rc]
      BY <1>6, <2>1, <2>2, FreshIn DEF ReuseRule, Rearm
    <2>4. ctl'.at = "rows" /\ ctl.at = "rows" /\ UNCHANGED <<kernel, failed, up>>
      BY <1>6, KeptType DEF ReuseRule, Rows
    <2> HIDE DEF x
    <2>5. mappings'[x].rule = mappings[x].rule
      BY <1>0, <2>1, <2>3, <2>2 DEF Mapping
    <2>6. mappings'[x] # None
      <3>1. mappings'[x] = [mappings[x] EXCEPT !.rc = rc]
        BY <1>0, <2>1, <2>3
      <3>2. mappings'[x] \in Mapping
        BY <2>2, <3>1 DEF Mapping
      <3> QED
        BY <3>2, NoneAssumption
    <2>7. \A y \in Sources \ {x} : mappings'[y] = mappings[y]
      BY <1>0, <2>3
    <2>8. \A y \in Sources : mappings[y] # None <=> mappings'[y] # None
      BY <2>1, <2>6, <2>7
    <2>9. \A y \in Sources : mappings[y] # None => mappings'[y].rule = mappings[y].rule
      BY <2>5, <2>7
    <2>10. Booked => Booked'
      BY <2>4, <2>8, <2>9 DEF Booked
    <2> QED
      BY <2>4, <2>8, <2>9, <2>10 DEF Ledger
  <1>7. CASE ChangeRule
    <2> DEFINE x == At(Head(ctl.rows))
               m == mappings[x]
               old == IF m = None THEN None ELSE m.rule
               new == Asked(Head(ctl.rows))
    <2>1. x \in Sources /\ new.source = x
      BY <1>7, RowType, AskedType DEF ChangeRule
    <2>2. Kept(Head(ctl.rows)) \in Work
      BY <1>7, KeptType DEF ChangeRule
    <2>3. /\ mappings' = [mappings EXCEPT ![x] = None]
          /\ ctl' = [Kept(Head(ctl.rows)) EXCEPT !.at = FirstOp(m), !.op = [old |-> old, new |-> new]]
          /\ up /\ up' /\ ctl.at = "rows" /\ kernel' = kernel /\ failed' = failed
      BY <1>7 DEF ChangeRule, Rows
    <2> HIDE DEF x, new
    <2>4. ctl'.at = (IF m = None THEN "forward" ELSE "unforward")
          /\ ctl'.op = [old |-> old, new |-> new]
      BY <2>2, <2>3 DEF Work, FirstOp
    <2>5. \A y \in Sources : mappings'[y] = IF y = x THEN None ELSE mappings[y]
      BY <1>0, <2>1, <2>3
    <2>6. ctl'.op.old = old /\ ctl'.op.new.source = x
      BY <2>1, <2>4
    <2>7. m # None => old.source = x
      BY <2>1 DEF Ledger
    <2>8. Booked'
      <3>1. Booked
        BY <2>3 DEF Ledger
      <3> QED
        BY <3>1, <2>1, <2>3, <2>4, <2>5, <2>6 DEF Booked
    <2> HIDE DEF old
    <2> QED
      BY <2>1, <2>3, <2>4, <2>5, <2>6, <2>7, <2>8 DEF Ledger
  <1>8. CASE Unforward
    <2>1. /\ \/ kernel' = kernel \ {ctl.op.old} /\ failed' = failed \ {ctl.op.old}
             \/ kernel' = kernel /\ failed' = failed \cup {ctl.op.old}
          /\ ctl.at = "unforward" /\ UNCHANGED <<mappings, up>>
      BY <1>8 DEF Unforward, Carried, Refused
    <2>2. ctl'.at = "forward" /\ ctl'.op = ctl.op
      BY <1>8 DEF TypeOK, Work, Unforward
    <2>3. up /\ Booked /\ mappings[ctl.op.new.source] = None
          /\ ctl.op.old.source = ctl.op.new.source
      BY <2>1 DEF Ledger
    <2>4. \A x \in Sources : mappings[x] # None => mappings[x].rule # ctl.op.old
      BY <2>3 DEF Ledger
    <2>5. Booked'
      BY <2>1, <2>2, <2>3, <2>4 DEF Booked
    <2> QED
      BY <2>1, <2>2, <2>3, <2>5 DEF Ledger
  <1>9. CASE Forward
    <2> DEFINE new == ctl.op.new
               x == new.source
    <2>1. ctl.op \in Operation
      BY <1>9 DEF TypeOK, Forward, Work
    <2>2. new \in Rules
      BY <2>1 DEF Operation
    <2>3. x \in Sources
      BY <2>2 DEF Rules
    <2>4. PICK rc \in 1..3 : mappings' = [mappings EXCEPT ![x] = [rule |-> new, rc |-> rc]]
      BY <1>9, <2>3, FreshIn, ZenonT(60) DEF Forward
    <2>11. \/ kernel' = kernel \cup {new} /\ failed' = failed \ {new}
           \/ kernel' = kernel /\ failed' = failed \cup {new}
      BY <1>9 DEF Forward, Carried, Refused
    <2>5. ctl'.at = "rows" /\ ctl.at = "forward" /\ up' = up
      BY <1>9 DEF TypeOK, Forward, Work
    <2>6. up /\ mappings[x] = None /\ Booked
      BY <2>5 DEF Ledger
    <2> HIDE DEF new, x
    <2>7. [rule |-> new, rc |-> rc] # None
      BY <2>2, NoneAssumption DEF Mapping
    <2>8. /\ mappings'[x] # None /\ mappings'[x].rule = new
          /\ \A y \in Sources \ {x} : mappings'[y] = mappings[y]
      BY <1>0, <2>3, <2>4, <2>7
    <2>9. Booked'
      BY <2>3, <2>11, <2>5, <2>6, <2>8 DEF Booked
    <2>10. new.source = x
      BY DEF x
    <2> QED
      BY <2>3, <2>5, <2>6, <2>8, <2>9, <2>10 DEF Ledger
  <1>10. CASE EndRows
    <2>1. ctl.at = "rows" /\ UNCHANGED <<mappings, kernel, failed, up>>
      BY <1>10 DEF EndRows
    <2>2. ctl'.at \in {"idle", "rows", "gc"}
      BY <1>1, <1>10, IdleType DEF EndRows
    <2> QED
      BY <2>1, <2>2, Quiet
  <1>11. CASE GcRule
    <2>1. PICK x \in ctl.dead :
             /\ \/ kernel' = kernel \ {mappings[x].rule} /\ failed' = failed \ {mappings[x].rule}
                \/ kernel' = kernel /\ failed' = failed \cup {mappings[x].rule}
             /\ mappings' = [mappings EXCEPT ![x] = None]
             /\ ctl' = [ctl EXCEPT !.dead = ctl.dead \ {x}]
      BY <1>11 DEF GcRule, Carried, Refused
    <2>2. x \in Sources /\ mappings[x] # None
      BY <1>11 DEF TypeOK, Work, GcRule
    <2>3. ctl'.at = "gc" /\ ctl.at = "gc" /\ up /\ up'
      BY <1>11, <2>1 DEF TypeOK, Work, GcRule
    <2>4. \A y \in Sources : mappings'[y] = IF y = x THEN None ELSE mappings[y]
      BY <1>0, <2>1, <2>2
    <2>5. \A y \in Sources \ {x} : mappings[y] # None => mappings[y].rule # mappings[x].rule
      BY <2>2 DEF Ledger
    <2>6. Booked'
      BY <2>1, <2>2, <2>3, <2>4, <2>5 DEF Ledger, Booked
    <2> QED
      BY <2>3, <2>4, <2>6 DEF Ledger
  <1>12. CASE EndSync
    BY <1>12, IdleType, Quiet DEF EndSync
  <1>13. CASE RemoveStale
    BY <1>13 DEF RemoveStale, Ledger, Booked
  <1> QED
    BY <1>2, <1>3, <1>4, <1>5, <1>6, <1>7, <1>8, <1>9, <1>10, <1>11, <1>12, <1>13
       DEF Controller

(* The ledger of mappings and rules holds throughout, whether a script      *)
(* reports its failure or hides it.                                         *)
THEOREM LedgerKept == Spec => []Ledger
  <1>1. Init => Ledger
    BY IdleType DEF Init, Ledger
  <1>2. TypeOK /\ Ledger /\ [Next]_vars => Ledger'
    <2> SUFFICES ASSUME TypeOK, Ledger, [Next]_vars PROVE Ledger'
      OBVIOUS
    <2>1. CASE UNCHANGED vars
      BY <2>1, Quiet DEF vars, ctlVars
    <2> QED
      BY <2>1, LedgerEnvironment, LedgerController, LedgerTask DEF Next
  <1> QED
    BY <1>1, <1>2, ForwardsTypeCorrect, PTL DEF Spec

(* Spec => []Accounted: for any services, networks and bindings, whatever   *)
(* script fails, reporting it or not, whoever drops a lease and whenever    *)
(* the daemon restarts, a mapping has its rule in the kernel and a rule its *)
(* mapping, unless the last script for that very rule failed.               *)
THEOREM RulesAreAccounted == Spec => []Accounted
  <1>1. Ledger => Accounted
    BY DEF Ledger, Booked, Accounted
  <1> QED
    BY <1>1, LedgerKept, PTL

-----------------------------------------------------------------------------
(***************************************************************************)
(* The messages to the controller: the one in hand, numbered 0, and those  *)
(* in its channel.                                                         *)
(***************************************************************************)
Slots == {i \in 0..Len(queue) : i = 0 => Busy}
Msg(i) == IF i = 0 THEN ctl.cmd ELSE queue[i]
AsksFor(i, p) == Asking(Msg(i)) /\ Msg(i).port = p

(* The types of what the proofs below look at. *)
LEMMA Types ==
    ASSUME TypeOK
    PROVE  /\ held \in [Services -> Holding] /\ pass \in [Services -> Pass]
           /\ want \in [Services -> Goal] /\ queue \in Seq(Command)
           /\ entries \in [Ports -> Entry] /\ ctl \in Work /\ ctl.cmd \in Command
           /\ interfaces \in Seq(Row) /\ net \in Seq(Row)
           /\ Len(queue) \in Nat
  <1>1. interfaces \in Seq(Row) /\ net \in Seq(Row)
    BY NetsAssumption DEF TypeOK
  <1> QED
    BY <1>1 DEF TypeOK, Work

(* What a command is made of. *)
LEMMA CommandFacts ==
    ASSUME NEW c \in Command
    PROVE  /\ c.by \in Services \cup {None}
           /\ Asking(c) => /\ c.port \in Ports /\ c.spec \in Forwards /\ c.rc \in Rcs
                           /\ c.spec # None
           /\ Asking(c) \/ c.kind = "sync"
  <1>1. CASE c \in [kind : {"sync"}, by : Services \cup {None}]
    BY <1>1 DEF Asking
  <1>2. CASE c \in [kind : {"forward"}, by : Services \cup {None}, port : Ports,
                    spec : Forwards, rc : Rcs]
    BY <1>2, NoneAssumption DEF Asking
  <1> QED
    BY <1>1, <1>2 DEF Command

(* A message is a command. *)
LEMMA MsgType ==
    ASSUME TypeOK, NEW i \in Slots
    PROVE  /\ Msg(i) \in Command
           /\ i \in Nat /\ i <= Len(queue)
  <1>1. queue \in Seq(Command) /\ ctl.cmd \in Command /\ Len(queue) \in Nat
    BY Types
  <1>2. i \in 0..Len(queue)
    BY DEF Slots
  <1>3. i # 0 => queue[i] \in Command
    BY <1>1, <1>2
  <1> QED
    BY <1>1, <1>2, <1>3 DEF Msg

(* A step that leaves the messages alone. *)
LEMMA MsgsSame ==
    ASSUME queue' = queue, ctl'.cmd = ctl.cmd, Busy' <=> Busy
    PROVE  Slots' = Slots /\ \A i : Msg(i)' = Msg(i)
  BY DEF Slots, Msg

(* One that sends a message. *)
LEMMA MsgsSent ==
    ASSUME TypeOK, NEW c \in Command, queue' = Append(queue, c), ctl' = ctl,
           NEW n, n = Len(queue) + 1
    PROVE  /\ Slots' = Slots \cup {n}
           /\ \A i \in Slots : Msg(i)' = Msg(i) /\ i < n
           /\ Msg(n)' = c /\ n \notin Slots
  <1>1. queue \in Seq(Command) /\ Len(queue) \in Nat
    BY Types
  <1>2. /\ Len(queue') = n
        /\ \A i \in 1..Len(queue) : queue'[i] = queue[i]
        /\ queue'[n] = c
    BY <1>1
  <1>3. Slots' = {i \in 0..n : i = 0 => Busy}
    BY <1>2 DEF Slots, Busy
  <1>4. Slots' = Slots \cup {n}
    BY <1>1, <1>3 DEF Slots
  <1>5. \A i \in Slots : Msg(i)' = Msg(i) /\ i < n
    BY <1>1, <1>2 DEF Slots, Msg
  <1>6. n \notin Slots /\ n # 0
    BY <1>1 DEF Slots
  <1>7. Msg(n)' = c
    BY <1>2, <1>6 DEF Msg
  <1> QED
    BY <1>4, <1>5, <1>6, <1>7

(* One that takes the first message of the channel, as c. *)
LEMMA MsgsTaken ==
    ASSUME TypeOK, ~Busy, queue # <<>>, queue' = Tail(queue), Busy', NEW c, ctl'.cmd = c
    PROVE  /\ \A i \in Slots' : i + 1 \in Slots /\ i \in Nat
           /\ \A i \in Slots' : i # 0 => Msg(i)' = Msg(i + 1)
           /\ Msg(0)' = c /\ Msg(1) = Head(queue) /\ 0 \in Slots'
           /\ Head(queue) \in Command
  <1>1. queue \in Seq(Command) /\ Len(queue) \in Nat \ {0}
    BY Types
  <1>2. /\ Len(queue') = Len(queue) - 1 /\ Head(queue) = queue[1]
        /\ \A i \in 1..(Len(queue) - 1) : queue'[i] = queue[i + 1]
        /\ queue[1] \in Command
    BY <1>1
  <1>3. Slots' = 0..(Len(queue) - 1)
    BY <1>1, <1>2 DEF Slots
  <1>4. Slots = 1..Len(queue)
    BY <1>1 DEF Slots
  <1> QED
    BY <1>1, <1>2, <1>3, <1>4 DEF Msg

(* One that is done with the message in hand. *)
LEMMA MsgsDone ==
    ASSUME Busy, queue' = queue, ctl' = Idle
    PROVE  \A i \in Slots' : i \in Slots /\ i # 0 /\ Msg(i)' = Msg(i)
  BY DEF Slots, Msg, Busy, Idle

(* The first message there is when the controller is busy. *)
LEMMA HandIsSlot ==
    ASSUME TypeOK, Busy
    PROVE  0 \in Slots /\ Msg(0) = ctl.cmd
  BY Types DEF Slots, Msg

(* One that begins by itself, without a message. *)
LEMMA MsgsNet ==
    ASSUME TypeOK, ~Busy, queue' = queue, Busy', NEW c, ctl'.cmd = c
    PROVE  /\ \A i \in Slots' : i # 0 => i \in Slots /\ Msg(i)' = Msg(i)
           /\ Msg(0)' = c /\ \A i \in Slots' : i \in Nat
  BY Types DEF Slots, Msg

(* What becomes of the messages: those that are left, and that somebody      *)
(* awaits or that ask for a lease, were there before, in the same order.     *)
Follow(j) ==
    /\ \A i \in Slots' : Msg(i)'.by \in Services \/ Asking(Msg(i)') =>
          /\ j[i] \in Slots
          /\ Msg(i)'.by \in Services => Msg(i)'.by = Msg(j[i]).by
          /\ Asking(Msg(i)') <=> Asking(Msg(j[i]))
          /\ Asking(Msg(i)') => /\ Msg(i)'.port = Msg(j[i]).port
                                /\ Msg(i)'.spec = Msg(j[i]).spec
    /\ \A i, k \in Slots' : j[i] <= j[k] => i <= k
    /\ \A i, k \in Slots' : j[i] = j[k] => i = k

(* How the messages move: they stay where they are, or move up by one. *)
Stay == [i \in Nat |-> i]
Move == [i \in Nat |-> i + 1]

(* Nothing is sent and nothing taken. *)
LEMMA FollowSame ==
    ASSUME TypeOK, queue' = queue, ctl'.cmd = ctl.cmd, Busy' <=> Busy
    PROVE  Follow(Stay)
  <1>1. Slots' = Slots /\ \A i : Msg(i)' = Msg(i)
    BY MsgsSame
  <1>2. \A i \in Slots : i \in Nat /\ Stay[i] = i
    BY MsgType DEF Stay
  <1> HIDE DEF Stay
  <1> QED
    BY <1>1, <1>2 DEF Follow, Stay

(* The message in hand is done with. *)
LEMMA FollowDone ==
    ASSUME TypeOK, Busy, queue' = queue, ctl' = Idle
    PROVE  Follow(Stay)
  <1>1. \A i \in Slots' : i \in Slots /\ Msg(i)' = Msg(i)
    BY MsgsDone
  <1>2. \A i \in Slots : i \in Nat /\ Stay[i] = i
    BY MsgType DEF Stay
  <1> QED
    BY <1>1, <1>2 DEF Follow

(* The controller takes up a sync of its own. *)
LEMMA FollowNet ==
    ASSUME TypeOK, ~Busy, queue' = queue, Busy', ctl'.cmd = Sync(None)
    PROVE  Follow(Stay)
  <1>1. /\ \A i \in Slots' : i # 0 => i \in Slots /\ Msg(i)' = Msg(i)
        /\ Msg(0)' = Sync(None) /\ \A i \in Slots' : i \in Nat
    BY MsgsNet
  <1>2. \A i \in Slots' : i \in Nat /\ Stay[i] = i
    BY <1>1 DEF Stay
  <1>3. Sync(None).by \notin Services /\ ~Asking(Sync(None))
    BY NoneAssumption DEF Sync, Asking
  <1> QED
    BY <1>1, <1>2, <1>3 DEF Follow

(* The controller takes the next message. *)
LEMMA FollowTaken ==
    ASSUME TypeOK, ~Busy, queue # <<>>, queue' = Tail(queue), Busy', NEW c,
           ctl'.cmd = c, c.by = Head(queue).by, Asking(c) <=> Asking(Head(queue)),
           Asking(c) => c.port = Head(queue).port /\ c.spec = Head(queue).spec
    PROVE  Follow(Move)
  <1>1. /\ \A i \in Slots' : i + 1 \in Slots /\ i \in Nat
        /\ \A i \in Slots' : i # 0 => Msg(i)' = Msg(i + 1)
        /\ Msg(0)' = c /\ Msg(1) = Head(queue)
    BY MsgsTaken
  <1>2. \A i \in Slots' : i \in Nat /\ Move[i] = i + 1
    BY <1>1 DEF Move
  <1>3. \A i, k \in Slots' : (Move[i] <= Move[k] => i <= k) /\ (Move[i] = Move[k] => i = k)
    BY <1>2
  <1>4. ASSUME NEW i \in Slots'
        PROVE  /\ Move[i] \in Slots
               /\ Msg(i)'.by = Msg(Move[i]).by
               /\ Asking(Msg(i)') <=> Asking(Msg(Move[i]))
               /\ Asking(Msg(i)') => /\ Msg(i)'.port = Msg(Move[i]).port
                                     /\ Msg(i)'.spec = Msg(Move[i]).spec
    <2>1. CASE i = 0
      <3>1. Move[i] = 1
        BY <1>2, <2>1
      <3> QED
        BY <1>1, <2>1, <3>1
    <2>2. CASE i # 0
      <3>1. Msg(i)' = Msg(Move[i])
        BY <1>1, <1>2, <2>2
      <3> QED
        BY <1>1, <1>2, <3>1
    <2> QED
      BY <2>1, <2>2
  <1> QED
    BY <1>3, <1>4 DEF Follow

(* A service goes away: its messages are nobody's. *)
LEMMA FollowForsaken ==
    ASSUME TypeOK, NEW s \in Services, queue' = [i \in DOMAIN queue |-> Forsake(queue[i], s)],
           ctl' = [ctl EXCEPT !.cmd = Forsake(ctl.cmd, s)]
    PROVE  /\ Follow(Stay) /\ Slots' = Slots
           /\ \A i \in Slots : Msg(i)' = Forsake(Msg(i), s) /\ Msg(i)'.by # s
           /\ ctl'.at = ctl.at /\ ctl'.port = ctl.port /\ ctl'.cmd = Forsake(ctl.cmd, s)
  <1>1. queue \in Seq(Command) /\ ctl \in Work /\ Len(queue) \in Nat
    BY Types
  <1>2. DOMAIN queue = 1..Len(queue) /\ Len(queue') = Len(queue)
    <2>1. \A i \in DOMAIN queue : Forsake(queue[i], s) \in Command
      BY <1>1, ForsakeType
    <2>2. queue' \in Seq(Command) /\ DOMAIN queue' = 1..Len(queue)
      BY <1>1, <2>1
    <2> QED
      BY <1>1, <2>2
  <1>3. /\ ctl'.at = ctl.at /\ ctl'.cmd = Forsake(ctl.cmd, s) /\ ctl'.port = ctl.port
    BY <1>1 DEF Work
  <1>4. Slots' = Slots
    BY <1>2, <1>3 DEF Slots, Busy
  <1>5. \A i \in Slots : Msg(i)' = Forsake(Msg(i), s)
    BY <1>2, <1>3 DEF Slots, Msg
  <1>6. ASSUME NEW c \in Command
        PROVE  LET d == Forsake(c, s) IN
               /\ d.by # s /\ (d.by \in Services => d.by = c.by)
               /\ Asking(d) <=> Asking(c)
               /\ Asking(c) => d.port = c.port /\ d.spec = c.spec /\ d.rc = c.rc
    <2>0. None # s
      BY NoneAssumption
    <2>1. CASE c \in [kind : {"sync"}, by : Services \cup {None}]
      BY <2>0, <2>1, NoneAssumption DEF Forsake, Asking
    <2>2. CASE c \in [kind : {"forward"}, by : Services \cup {None}, port : Ports,
                      spec : Forwards, rc : Rcs]
      BY <2>0, <2>2, NoneAssumption DEF Forsake, Asking
    <2> QED
      BY <2>1, <2>2 DEF Command
  <1>7. \A i \in Slots : i \in Nat /\ Stay[i] = i /\ Msg(i) \in Command
    BY MsgType DEF Stay
  <1>8. Follow(Stay)
    BY <1>4, <1>5, <1>6, <1>7 DEF Follow
  <1> QED
    BY <1>3, <1>4, <1>5, <1>6, <1>7, <1>8

-----------------------------------------------------------------------------
(* Port p was last given to s, or s may still ask for it; what is said of   *)
(* claims and firm leases is said as long as no port has changed hands too  *)
(* early.                                                                   *)
Claims(s, p) == ~rushed /\ (owner[p] = s \/ MayAsk(s, p))
(* Service s holds a lease on port p, and was the last to be given the      *)
(* port.                                                                    *)
Firm(s, p) == ~rushed /\ held[s][p] # None /\ owner[p] = s
(* The controller knows a lease. *)
Noted(p, spec, rc) ==
    /\ entries[p].count = spec.count
    /\ entries[p].targets[spec.reqs] = [target |-> spec.target, rc |-> rc]
(* The controller is at work on a port. *)
Working == ctl.at \in {"rows", "unforward", "forward"}

(* A service has use for ports it was the last to be given: AvailablePorts. *)
Owned == \A s \in Services, p \in Ports : want[s][p] # None => owner[p] = s
(* A port has one service that claims it.                                   *)
OneClaim == \A p \in Ports : \A s, o \in Services : Claims(s, p) /\ Claims(o, p) => s = o
(* A service awaits the answer to what it sent, and the lease it asked for  *)
(* is not in its hands yet.                                                 *)
Awaited ==
    \A i \in Slots : Msg(i).by \in Services =>
        /\ ~Asking(Msg(i)) => pass[Msg(i).by].at = "gc"
        /\ Asking(Msg(i)) => /\ pass[Msg(i).by].at = "reply"
                             /\ pass[Msg(i).by].goal[Msg(i).port] = Msg(i).spec
                             /\ held[Msg(i).by][Msg(i).port] = None
(* A service has one message on its way. *)
OneEach == \A i, j \in Slots : Msg(i).by \in Services /\ Msg(j).by = Msg(i).by => i = j
(* Behind a request that is awaited nobody asks for the same port. *)
LastAsks ==
    ~rushed => \A i, j \in Slots :
        Msg(i).by \in Services /\ Asking(Msg(i)) /\ AsksFor(j, Msg(i).port) => j <= i
(* A firm lease is known to the controller, and nobody asks for its port. *)
FirmKnown ==
    \A s \in Services, p \in Ports : Firm(s, p) =>
        /\ Noted(p, held[s][p].spec, held[s][p].rc)
        /\ \A i \in Slots : ~AsksFor(i, p)
(* The request in hand has been entered already. *)
InHand ==
    Busy /\ Asking(ctl.cmd) =>
        /\ Working /\ ctl.port = ctl.cmd.port
        /\ Noted(ctl.port, ctl.cmd.spec, ctl.cmd.rc)
(* The inductive invariant of leases and requests. *)
HandInv == Owned /\ OneClaim /\ Awaited /\ OneEach /\ LastAsks /\ FirmKnown /\ InHand

(* An update deep inside a function. *)
LEMMA Nested ==
    ASSUME NEW S, NEW P, NEW T, NEW f \in [S -> [P -> T]], NEW s \in S, NEW p \in P, NEW v
    PROVE  \A a \in S, b \in P :
              [f EXCEPT ![s][p] = v][a][b] = IF a = s /\ b = p THEN v ELSE f[a][b]
  OBVIOUS

(* No new claim is made. *)
LEMMA FrameClaims ==
    ASSUME HandInv, \A s \in Services, p \in Ports : Claims(s, p)' => Claims(s, p),
           owner' = owner, \A s \in Services, p \in Ports : want'[s][p] \in {want[s][p], None}
    PROVE  Owned' /\ OneClaim'
  BY DEF HandInv, Owned, OneClaim

(* The messages only move, and those who await them do nothing. *)
LEMMA FrameMsgs ==
    ASSUME TypeOK', HandInv, NEW j, Follow(j), rushed' = rushed,
           \A s \in Services :
              \/ /\ pass'[s].at = pass[s].at /\ pass'[s].goal = pass[s].goal
                 /\ held'[s] = held[s]
              \/ \A i \in Slots' : Msg(i)'.by # s
    PROVE  Awaited' /\ OneEach' /\ LastAsks'
  <1>1. ASSUME NEW i \in Slots', Msg(i)'.by \in Services
        PROVE  /\ ~Asking(Msg(i)') => pass'[Msg(i)'.by].at = "gc"
               /\ Asking(Msg(i)') => /\ pass'[Msg(i)'.by].at = "reply"
                                     /\ pass'[Msg(i)'.by].goal[Msg(i)'.port] = Msg(i)'.spec
                                     /\ held'[Msg(i)'.by][Msg(i)'.port] = None
    <2>1. /\ j[i] \in Slots /\ Msg(i)'.by = Msg(j[i]).by
          /\ Asking(Msg(i)') <=> Asking(Msg(j[i]))
          /\ Asking(Msg(i)') => Msg(i)'.port = Msg(j[i]).port /\ Msg(i)'.spec = Msg(j[i]).spec
      BY <1>1 DEF Follow
    <2>2. LET s == Msg(j[i]).by IN
          s \in Services /\ pass'[s].at = pass[s].at /\ pass'[s].goal = pass[s].goal
            /\ held'[s] = held[s]
      BY <1>1, <2>1
    <2>3. /\ ~Asking(Msg(j[i])) => pass[Msg(j[i]).by].at = "gc"
          /\ Asking(Msg(j[i])) => /\ pass[Msg(j[i]).by].at = "reply"
                                  /\ pass[Msg(j[i]).by].goal[Msg(j[i]).port] = Msg(j[i]).spec
                                  /\ held[Msg(j[i]).by][Msg(j[i]).port] = None
      BY <2>1, <2>2 DEF HandInv, Awaited
    <2> QED
      BY <2>1, <2>2, <2>3
  <1>2. Awaited'
    BY <1>1 DEF Awaited, Asking
  <1>3. OneEach'
    <2> SUFFICES ASSUME NEW i \in Slots', NEW k \in Slots', Msg(i)'.by \in Services,
                        Msg(k)'.by = Msg(i)'.by
                 PROVE  i = k
      BY DEF OneEach
    <2>1. /\ j[i] \in Slots /\ j[k] \in Slots
          /\ Msg(i)'.by = Msg(j[i]).by /\ Msg(k)'.by = Msg(j[k]).by
      BY DEF Follow
    <2>2. j[i] = j[k]
      BY <2>1 DEF HandInv, OneEach
    <2> QED
      BY <2>2 DEF Follow
  <1>4. LastAsks'
    <2> SUFFICES ASSUME ~rushed', NEW i \in Slots', NEW k \in Slots', Msg(i)'.by \in Services,
                        Asking(Msg(i)'), Asking(Msg(k)'), Msg(k)'.port = Msg(i)'.port
                 PROVE  k <= i
      BY DEF LastAsks, AsksFor, Asking
    <2>1. /\ j[i] \in Slots /\ j[k] \in Slots
          /\ Msg(i)'.by = Msg(j[i]).by
          /\ Asking(Msg(j[i])) /\ Msg(i)'.port = Msg(j[i]).port
          /\ Asking(Msg(j[k])) /\ Msg(k)'.port = Msg(j[k]).port
      BY DEF Follow
    <2>2. j[k] <= j[i]
      BY <2>1 DEF HandInv, LastAsks, AsksFor
    <2> QED
      BY <2>2 DEF Follow
  <1> QED
    BY <1>2, <1>3, <1>4

(* No lease becomes firm, and no message asks for another port. *)
LEMMA FrameFirm ==
    ASSUME HandInv, NEW j, Follow(j),
           \A s \in Services, p \in Ports : Firm(s, p)' =>
              Firm(s, p) /\ Noted(p, held[s][p].spec, held[s][p].rc)'
    PROVE  FirmKnown'
  <1> SUFFICES ASSUME NEW s \in Services, NEW p \in Ports, Firm(s, p)'
               PROVE  \A i \in Slots' : ~(Asking(Msg(i)') /\ Msg(i)'.port = p)
    BY DEF FirmKnown, AsksFor, Asking
  <1>1. \A i \in Slots : ~AsksFor(i, p)
    BY DEF HandInv, FirmKnown
  <1> QED
    BY <1>1 DEF Follow, AsksFor

(* The entry of a firm lease. *)
LEMMA FirmNoted ==
    ASSUME HandInv, NEW s \in Services, NEW p \in Ports, Firm(s, p),
           held'[s][p] = held[s][p],
           entries'[p].count = entries[p].count,
           entries'[p].targets[held[s][p].spec.reqs] = entries[p].targets[held[s][p].spec.reqs]
    PROVE  Noted(p, held[s][p].spec, held[s][p].rc)'
  BY DEF HandInv, FirmKnown, Noted

(* A step that leaves leases, bindings and messages alone. *)
LEMMA HandQuiet ==
    ASSUME TypeOK, TypeOK', HandInv, UNCHANGED <<want, owner, rushed, held, pass, queue>>,
           ctl'.cmd = ctl.cmd, Busy' <=> Busy,
           \A p \in Ports : /\ entries'[p].count = entries[p].count
                            /\ entries'[p].targets = entries[p].targets,
           Busy /\ Asking(ctl.cmd) => Working' /\ ctl'.port = ctl.port
    PROVE  HandInv'
  <1>1. Follow(Stay)
    BY FollowSame
  <1>2. Owned' /\ OneClaim'
    BY FrameClaims DEF Claims, MayAsk, Holds
  <1>3. Awaited' /\ OneEach' /\ LastAsks'
    BY <1>1, FrameMsgs
  <1>4. \A s \in Services, p \in Ports : Firm(s, p)' =>
              Firm(s, p) /\ Noted(p, held[s][p].spec, held[s][p].rc)'
    BY FirmNoted DEF Firm
  <1>5. FirmKnown'
    BY <1>1, <1>4, FrameFirm
  <1>6. InHand'
    <2> SUFFICES ASSUME Busy, Asking(ctl.cmd)
                 PROVE  Working' /\ ctl'.port = ctl'.cmd.port /\ Noted(ctl.port, ctl.cmd.spec, ctl.cmd.rc)'
      BY DEF InHand, Asking
    <2>1. ctl.port \in Ports
      BY CommandFacts, Types DEF HandInv, InHand
    <2> QED
      BY <2>1 DEF HandInv, InHand, Noted
  <1> QED
    BY <1>2, <1>3, <1>5, <1>6 DEF HandInv

(* What a change of the bindings leaves alone, and what becomes of the      *)
(* owners when no port has changed hands too early.                         *)
LEMMA ChangeFacts ==
    ASSUME TypeOK, NEW s \in Services, NEW p \in Ports, NEW v, Change(s, p, v)
    PROVE  /\ UNCHANGED <<held, pass, queue, entries, ctl>>
           /\ \A a \in Services, b \in Ports :
                 want'[a][b] = IF a = s /\ b = p THEN v ELSE want[a][b]
           /\ \A b \in Ports : owner'[b] = IF v # None /\ b = p THEN s ELSE owner[b]
           /\ v # None => \A o \in Services \ {s} : want[o][p] = None
           /\ ~rushed' => ~rushed
           /\ ~rushed' /\ v # None /\ owner[p] # s =>
                 held[s][p] = None /\ \A o \in Services : ~MayAsk(o, p)
  <1>1. /\ UNCHANGED <<held, pass, queue, entries, ctl>>
        /\ v # None => \A o \in Services \ {s} : want[o][p] = None
        /\ want' = [want EXCEPT ![s][p] = v]
        /\ IF v = None THEN UNCHANGED <<owner, rushed>>
                       ELSE owner' = [owner EXCEPT ![p] = s] /\ rushed' = (rushed \/ Rush(s, p))
    BY DEF Change, svcVars, ctlVars
  <1>2. \A a \in Services, b \in Ports :
                 want'[a][b] = IF a = s /\ b = p THEN v ELSE want[a][b]
    BY <1>1, Nested, Types DEF Goal
  <1>3. \A b \in Ports : owner'[b] = IF v # None /\ b = p THEN s ELSE owner[b]
    BY <1>1 DEF TypeOK
  <1> QED
    BY <1>1, <1>2, <1>3, Zenon DEF Rush

(* A binding changes: a port goes to a service only when nobody else claims *)
(* it, or too early.                                                        *)
LEMMA HandChange ==
    ASSUME TypeOK, TypeOK', HandInv, NEW s \in Services, NEW p \in Ports, NEW v,
           Change(s, p, v)
    PROVE  HandInv'
  <1>1. /\ UNCHANGED <<held, pass, queue, entries, ctl>>
        /\ \A a \in Services, b \in Ports :
              want'[a][b] = IF a = s /\ b = p THEN v ELSE want[a][b]
        /\ \A b \in Ports : owner'[b] = IF v # None /\ b = p THEN s ELSE owner[b]
        /\ v # None => \A o \in Services \ {s} : want[o][p] = None
        /\ ~rushed' => ~rushed
        /\ ~rushed' /\ v # None /\ owner[p] # s =>
              held[s][p] = None /\ \A o \in Services : ~MayAsk(o, p)
    BY ChangeFacts
  <1>2. Owned'
    BY <1>1 DEF HandInv, Owned
  <1>3. \A o \in Services, q \in Ports : MayAsk(o, q)' <=> MayAsk(o, q)
    BY <1>1 DEF MayAsk, Holds
  <1>4. OneClaim'
    <2> SUFFICES ASSUME NEW q \in Ports, NEW a \in Services, NEW b \in Services,
                        Claims(a, q)', Claims(b, q)'
                 PROVE  a = b
      BY DEF OneClaim
    <2>1. ~rushed'
      BY DEF Claims
    <2>2. CASE q = p /\ v # None /\ owner[p] # s
      BY <1>1, <1>3, <2>1, <2>2 DEF Claims
    <2>3. CASE ~(q = p /\ v # None /\ owner[p] # s)
      <3>1. \A o \in Services : Claims(o, q)' => Claims(o, q)
        BY <1>1, <1>3, <2>1, <2>3 DEF Claims
      <3> QED
        BY <3>1 DEF HandInv, OneClaim
    <2> QED
      BY <2>2, <2>3
  <1>5. Follow(Stay)
    BY <1>1, FollowSame DEF Busy
  <1>6. Awaited' /\ OneEach' /\ LastAsks'
    <2>1. Slots' = Slots /\ \A i : Msg(i)' = Msg(i)
      BY <1>1, MsgsSame DEF Busy
    <2> QED
      BY <1>1, <2>1 DEF HandInv, Awaited, OneEach, LastAsks, AsksFor
  <1>7. \A a \in Services, b \in Ports : Firm(a, b)' => Firm(a, b)
    BY <1>1 DEF Firm
  <1>8. FirmKnown'
    BY <1>1, <1>5, <1>7, FrameFirm, FirmNoted
  <1>9. InHand'
    BY <1>1 DEF HandInv, InHand, Noted, Busy, Working
  <1> QED
    BY <1>2, <1>4, <1>6, <1>8, <1>9 DEF HandInv

(* A service is removed. *)
LEMMA HandRemove ==
    ASSUME TypeOK, TypeOK', HandInv, NEW s \in Services, Remove(s)
    PROVE  HandInv'
  <1>1. /\ UNCHANGED <<owner, rushed, held, entries>>
        /\ want' = [want EXCEPT ![s] = NoPass.goal] /\ pass' = [pass EXCEPT ![s] = NoPass]
        /\ queue' = [i \in DOMAIN queue |-> Forsake(queue[i], s)]
        /\ ctl' = [ctl EXCEPT !.cmd = Forsake(ctl.cmd, s)]
    BY DEF Remove
  <1>2. /\ \A q \in Ports : want'[s][q] = None
        /\ \A a \in Services \ {s} : want'[a] = want[a] /\ pass'[a] = pass[a]
        /\ pass'[s].at = "idle"
    BY <1>1, Types DEF NoPass
  <1>3. /\ Follow(Stay) /\ Slots' = Slots
        /\ \A i \in Slots : Msg(i)' = Forsake(Msg(i), s) /\ Msg(i)'.by # s
        /\ ctl'.at = ctl.at /\ ctl'.port = ctl.port /\ ctl'.cmd = Forsake(ctl.cmd, s)
    BY <1>1, FollowForsaken
  <1>4. Owned' /\ OneClaim'
    BY <1>1, <1>2, FrameClaims DEF Claims, MayAsk, Holds
  <1>5. Awaited' /\ OneEach' /\ LastAsks'
    BY <1>1, <1>2, <1>3, FrameMsgs
  <1>6. \A a \in Services, b \in Ports : Firm(a, b)' => Firm(a, b)
    BY <1>1, <1>2 DEF Firm
  <1>7. FirmKnown'
    BY <1>1, <1>3, <1>6, FrameFirm, FirmNoted
  <1>8. InHand'
    <2>1. ctl.cmd \in Command
      BY Types
    <2>2. /\ Asking(ctl'.cmd) <=> Asking(ctl.cmd)
          /\ Asking(ctl.cmd) => /\ ctl'.cmd.port = ctl.cmd.port /\ ctl'.cmd.spec = ctl.cmd.spec
                                /\ ctl'.cmd.rc = ctl.cmd.rc
      <3>1. CASE ctl.cmd \in [kind : {"sync"}, by : Services \cup {None}]
        BY <1>3, <3>1 DEF Forsake, Asking
      <3>2. CASE ctl.cmd \in [kind : {"forward"}, by : Services \cup {None}, port : Ports,
                              spec : Forwards, rc : Rcs]
        BY <1>3, <3>2 DEF Forsake, Asking
      <3> QED
        BY <2>1, <3>1, <3>2 DEF Command
    <2> QED
      BY <1>1, <1>3, <2>2 DEF HandInv, InHand, Noted, Busy, Working, Asking
  <1> QED
    BY <1>4, <1>5, <1>7, <1>8 DEF HandInv

(* The daemon restarts. *)
LEMMA HandRestart ==
    ASSUME TypeOK, HandInv, Restart
    PROVE  HandInv'
  <1>1. /\ \A a \in Services, b \in Ports : held'[a][b] = None
        /\ \A a \in Services : pass'[a].at = "idle"
        /\ want' = want /\ owner' = owner /\ queue' = <<>> /\ ctl'.at = "idle"
    BY IdleType DEF Restart, NoPass
  <1>2. Owned' /\ OneClaim'
    BY <1>1 DEF HandInv, Owned, OneClaim, Claims, MayAsk
  <1>3. Slots' = {}
    BY <1>1 DEF Slots, Busy
  <1>4. Awaited' /\ OneEach' /\ LastAsks'
    BY <1>3 DEF Awaited, OneEach, LastAsks
  <1>5. FirmKnown' /\ InHand'
    BY <1>1 DEF FirmKnown, Firm, InHand, Busy
  <1> QED
    BY <1>2, <1>4, <1>5 DEF HandInv

(* The request in hand ends without a lease: its service's pass is over. *)
LEMMA HandOver ==
    ASSUME TypeOK, TypeOK', HandInv, Busy, NEW ok \in BOOLEAN, Answer(ok),
           ~(ok /\ Asking(ctl.cmd)), ctl' = Idle, UNCHANGED <<want, owner, rushed, queue, entries>>
    PROVE  HandInv' /\ held' = held
  <1>0. ctl.cmd.by \in Services \cup {None}
    BY Types, CommandFacts
  <1>1. /\ held' = held
        /\ \A a \in Services : \/ pass'[a] = pass[a]
                               \/ a = ctl.cmd.by /\ pass'[a].at = "idle"
    BY <1>0, Types DEF Answer, NoPass
  <1>2. Follow(Stay) /\ \A i \in Slots' : i \in Slots /\ i # 0 /\ Msg(i)' = Msg(i)
    BY FollowDone, MsgsDone
  <1>3. ASSUME NEW a \in Services, a = ctl.cmd.by
        PROVE  \A i \in Slots' : Msg(i)'.by # a
    BY <1>2, <1>3, HandIsSlot DEF HandInv, OneEach
  <1>4. Owned' /\ OneClaim'
    BY <1>1, FrameClaims DEF Claims, MayAsk, Holds
  <1>5. Awaited' /\ OneEach' /\ LastAsks'
    BY <1>1, <1>2, <1>3, FrameMsgs
  <1>6. FirmKnown'
    BY <1>1, <1>2, FrameFirm, FirmNoted DEF Firm
  <1>7. InHand'
    BY IdleType DEF InHand, Busy
  <1> QED
    BY <1>1, <1>4, <1>5, <1>6, <1>7 DEF HandInv

(* The steps of the environment keep leases and requests in order. *)
LEMMA HandEnvironment ==
    ASSUME TypeOK, TypeOK', HandInv, Environment
    PROVE  HandInv'
  <1> USE DEF envVars, svcVars, ctlVars
  <1>1. ASSUME NEW n \in Nets, Rewire(n)
        PROVE  HandInv'
    BY <1>1, HandQuiet DEF Rewire, Busy, HandInv, InHand, Working
  <1>2. CASE Fail
    BY <1>2, HandOver DEF Fail, Busy
  <1> QED
    BY <1>1, <1>2, HandChange, HandRemove, HandRestart DEF Environment

(* A service that awaits nothing has no message on its way. *)
LEMMA NoneOnItsWay ==
    ASSUME HandInv, NEW s \in Services, pass[s].at \in {"idle", "ports"}
    PROVE  \A i \in Slots : Msg(i).by # s
  BY DEF HandInv, Awaited

(* A step of a service's pass that sends nothing: the service claims no     *)
(* more than before, and drops leases at most.                              *)
LEMMA HandStep ==
    ASSUME TypeOK, TypeOK', HandInv, NEW s \in Services, pass[s].at \in {"idle", "ports"},
           UNCHANGED <<want, owner, rushed, queue, entries, ctl>>,
           \A a \in Services \ {s} : pass'[a] = pass[a] /\ held'[a] = held[a],
           \A p \in Ports : MayAsk(s, p)' /\ ~rushed => Claims(s, p),
           \A p \in Ports : held'[s][p] \in {held[s][p], None}
    PROVE  HandInv'
  <1>1. Follow(Stay) /\ Slots' = Slots /\ \A i : Msg(i)' = Msg(i)
    BY FollowSame, MsgsSame DEF Busy
  <1>2. Owned' /\ OneClaim'
    BY FrameClaims DEF Claims, MayAsk, Holds
  <1>3. Awaited' /\ OneEach' /\ LastAsks'
    BY <1>1, FrameMsgs, NoneOnItsWay
  <1>4. \A a \in Services, p \in Ports : Firm(a, p)' => Firm(a, p) /\ held'[a][p] = held[a][p]
    BY DEF Firm
  <1>5. FirmKnown'
    BY <1>1, <1>4, FrameFirm, FirmNoted
  <1>6. InHand'
    BY DEF HandInv, InHand, Busy, Working, Noted
  <1> QED
    BY <1>2, <1>3, <1>5, <1>6 DEF HandInv

(* What a pass does with a port it is done with. *)
LEMMA DoneFacts ==
    ASSUME TypeOK, NEW s \in Services, NEW p
    PROVE  /\ Done(s, p)[s].at = pass[s].at /\ Done(s, p)[s].goal = pass[s].goal
           /\ \A a \in Services \ {s} : Done(s, p)[a] = pass[a]
           /\ [Done(s, p) EXCEPT ![s].at = "reply"][s].at = "reply"
           /\ [Done(s, p) EXCEPT ![s].at = "reply"][s].goal = pass[s].goal
           /\ \A a \in Services \ {s} : [Done(s, p) EXCEPT ![s].at = "reply"][a] = pass[a]
  BY DEF TypeOK, Done, Pass

(* A lease is asked for: nobody else may ask for the port. *)
LEMMA HandAsk ==
    ASSUME TypeOK, TypeOK', HandInv, NEW s \in Services, Ask(s)
    PROVE  HandInv'
  <1> USE DEF envVars, svcVars, ctlVars
  <1> DEFINE p == Lowest(pass[s].todo)
             spec == pass[s].goal[p]
  <1>1. pass[s] \in Pass /\ p \in Ports
    <2>1. pass[s] \in Pass /\ pass[s].todo \in SUBSET Ports
      BY Types DEF Pass
    <2> QED
      BY <2>1, LowestIn DEF Ask
  <1>2. PICK rc \in Rcs : queue' =
           Append(queue, [kind |-> "forward", by |-> s, port |-> p, spec |-> spec, rc |-> rc])
    BY DEF Ask, Send
  <1>3. /\ spec # None /\ ~Holds(s, p, spec) /\ pass[s].at = "ports"
        /\ held' = [held EXCEPT ![s][p] = None]
        /\ pass' = [Done(s, p) EXCEPT ![s].at = "reply"]
        /\ UNCHANGED <<want, owner, rushed, entries, ctl>>
    BY DEF Ask
  <1>4. spec \in Forwards
    BY <1>1, <1>3 DEF Pass, Goal
  <1> HIDE DEF p, spec
  <1>5. /\ \A a \in Services, b \in Ports :
              held'[a][b] = IF a = s /\ b = p THEN None ELSE held[a][b]
        /\ \A a \in Services \ {s} : held'[a] = held[a]
    BY <1>1, <1>3, Nested, Types DEF Holding
  <1>6. /\ pass'[s].at = "reply" /\ pass'[s].goal = pass[s].goal
        /\ \A a \in Services \ {s} : pass'[a] = pass[a]
    BY <1>3, DoneFacts
  <1> DEFINE c == [kind |-> "forward", by |-> s, port |-> p, spec |-> spec, rc |-> rc]
  <1>7. /\ c \in Command /\ c.by = s /\ c.port = p /\ c.spec = spec /\ Asking(c)
    BY <1>1, <1>4 DEF Command, Asking
  <1>8. queue' = Append(queue, c)
    BY <1>2
  <1> HIDE DEF c
  <1>9. PICK n : n = Len(queue) + 1
    OBVIOUS
  <1>10. /\ Slots' = Slots \cup {n} /\ \A i \in Slots : Msg(i)' = Msg(i) /\ i < n
         /\ Msg(n)' = c /\ n \notin Slots
    BY <1>3, <1>7, <1>8, <1>9, MsgsSent
  <1>11. MayAsk(s, p)
    BY <1>3 DEF MayAsk, spec
  <1>12. Owned' /\ OneClaim'
    BY <1>3, <1>5, <1>6, <1>11, FrameClaims DEF Claims, MayAsk, Holds
  <1>13. \A i \in Slots : Msg(i).by # s
    BY <1>3, NoneOnItsWay
  <1>14. ~rushed => \A i \in Slots : Msg(i).by \in Services => ~AsksFor(i, p)
    <2> SUFFICES ASSUME ~rushed, NEW i \in Slots, Msg(i).by \in Services, AsksFor(i, p)
                 PROVE  FALSE
      OBVIOUS
    <2>1. Msg(i) \in Command
      BY MsgType
    <2>2. /\ pass[Msg(i).by].at = "reply" /\ held[Msg(i).by][p] = None
          /\ pass[Msg(i).by].goal[p] = Msg(i).spec /\ Msg(i).spec # None
      BY <2>1, CommandFacts DEF AsksFor, HandInv, Awaited
    <2>3. MayAsk(Msg(i).by, p)
      BY <2>2 DEF MayAsk, Holds
    <2>4. Msg(i).by = s
      BY <1>1, <1>11, <2>3 DEF HandInv, OneClaim, Claims
    <2> QED
      BY <1>13, <2>4
  <1>15. \A i \in Slots : Msg(i) \in Command /\ i \in Nat
    BY MsgType
  <1>16. Awaited'
    <2> SUFFICES ASSUME NEW i \in Slots', Msg(i)'.by \in Services
                 PROVE  /\ ~Asking(Msg(i)') => pass'[Msg(i)'.by].at = "gc"
                        /\ Asking(Msg(i)') => /\ pass'[Msg(i)'.by].at = "reply"
                                              /\ pass'[Msg(i)'.by].goal[Msg(i)'.port] = Msg(i)'.spec
                                              /\ held'[Msg(i)'.by][Msg(i)'.port] = None
      BY DEF Awaited, Asking
    <2>1. CASE i = n
      BY <1>1, <1>5, <1>6, <1>7, <1>10, <2>1 DEF spec
    <2>2. CASE i # n
      <3>1. i \in Slots /\ Msg(i)' = Msg(i) /\ Msg(i).by # s
        BY <1>10, <1>13, <2>2
      <3> QED
        BY <1>5, <1>6, <3>1 DEF HandInv, Awaited
    <2> QED
      BY <2>1, <2>2
  <1>17. OneEach'
    BY <1>7, <1>10, <1>13 DEF HandInv, OneEach
  <1>18. LastAsks'
    <2> SUFFICES ASSUME ~rushed', NEW i \in Slots', NEW k \in Slots', Msg(i)'.by \in Services,
                        Asking(Msg(i)'), Asking(Msg(k)'), Msg(k)'.port = Msg(i)'.port
                 PROVE  k <= i
      BY DEF LastAsks, AsksFor, Asking
    <2>0. n \in Nat
      BY <1>9, Types
    <2>1. CASE i = n
      BY <1>10, <1>15, <2>0, <2>1
    <2>2. CASE i # n /\ k = n
      <3>1. i \in Slots /\ Msg(i)' = Msg(i) /\ Msg(k)'.port = p
        BY <1>7, <1>10, <2>2
      <3> QED
        BY <1>3, <1>14, <3>1 DEF AsksFor
    <2>3. CASE i # n /\ k # n
      <3>1. i \in Slots /\ Msg(i)' = Msg(i) /\ k \in Slots /\ Msg(k)' = Msg(k)
        BY <1>10, <2>3
      <3> QED
        BY <1>3, <3>1 DEF HandInv, LastAsks, AsksFor
    <2> QED
      BY <2>1, <2>2, <2>3
  <1>19. FirmKnown'
    <2> SUFFICES ASSUME NEW a \in Services, NEW b \in Ports, Firm(a, b)'
                 PROVE  /\ Noted(b, held[a][b].spec, held[a][b].rc)'
                        /\ \A i \in Slots' : ~(Asking(Msg(i)') /\ Msg(i)'.port = b)
      BY DEF FirmKnown, AsksFor, Asking
    <2>1. held'[a][b] = held[a][b] /\ Firm(a, b)
      BY <1>3, <1>5 DEF Firm
    <2>2. b # p
      <3> SUFFICES ASSUME b = p PROVE FALSE
        OBVIOUS
      <3>1. a = s
        BY <1>1, <1>11, <2>1 DEF HandInv, OneClaim, Claims, Firm
      <3> QED
        BY <1>5, <3>1 DEF Firm
    <2>3. Noted(b, held[a][b].spec, held[a][b].rc)'
      BY <1>3, <2>1, FirmNoted
    <2>4. \A i \in Slots : ~AsksFor(i, b)
      BY <2>1 DEF HandInv, FirmKnown
    <2> QED
      BY <1>7, <1>10, <2>2, <2>3, <2>4 DEF AsksFor
  <1>20. InHand'
    BY <1>3 DEF HandInv, InHand, Busy, Working, Noted
  <1> QED
    BY <1>12, <1>16, <1>17, <1>18, <1>19, <1>20 DEF HandInv

(* A pass ends with a sync. *)
LEMMA HandCollect ==
    ASSUME TypeOK, TypeOK', HandInv, NEW s \in Services, Collect(s)
    PROVE  HandInv'
  <1> USE DEF envVars, svcVars, ctlVars
  <1>1. /\ pass[s].at = "ports" /\ queue' = Append(queue, Sync(s))
        /\ UNCHANGED <<want, owner, rushed, held, entries, ctl>>
    BY DEF Collect, Send
  <1>2. /\ pass'[s].at = "gc" /\ pass'[s].goal = pass[s].goal
        /\ \A a \in Services \ {s} : pass'[a] = pass[a]
    BY DEF Collect, TypeOK, Pass
  <1>3. Sync(s) \in Command /\ Sync(s).by = s /\ ~Asking(Sync(s))
    BY DEF Sync, Command, Asking
  <1>4. PICK n : n = Len(queue) + 1
    OBVIOUS
  <1>5. /\ Slots' = Slots \cup {n} /\ \A i \in Slots : Msg(i)' = Msg(i) /\ i < n
        /\ Msg(n)' = Sync(s) /\ n \notin Slots
    BY <1>1, <1>3, <1>4, MsgsSent
  <1>6. Owned' /\ OneClaim'
    BY <1>1, <1>2, FrameClaims DEF Claims, MayAsk, Holds
  <1>7. \A i \in Slots : Msg(i).by # s
    BY <1>1, NoneOnItsWay
  <1>8. Awaited'
    <2> SUFFICES ASSUME NEW i \in Slots', Msg(i)'.by \in Services
                 PROVE  /\ ~Asking(Msg(i)') => pass'[Msg(i)'.by].at = "gc"
                        /\ Asking(Msg(i)') => /\ pass'[Msg(i)'.by].at = "reply"
                                              /\ pass'[Msg(i)'.by].goal[Msg(i)'.port] = Msg(i)'.spec
                                              /\ held'[Msg(i)'.by][Msg(i)'.port] = None
      BY DEF Awaited, Asking
    <2>1. CASE i = n
      BY <1>2, <1>3, <1>5, <2>1
    <2>2. CASE i # n
      <3>1. i \in Slots /\ Msg(i)' = Msg(i) /\ Msg(i).by # s
        BY <1>5, <1>7, <2>2
      <3> QED
        BY <1>1, <1>2, <3>1 DEF HandInv, Awaited
    <2> QED
      BY <2>1, <2>2
  <1>9. OneEach'
    BY <1>3, <1>5, <1>7 DEF HandInv, OneEach
  <1>10. LastAsks'
    <2> SUFFICES ASSUME ~rushed', NEW i \in Slots', NEW k \in Slots', Msg(i)'.by \in Services,
                        Asking(Msg(i)'), Asking(Msg(k)'), Msg(k)'.port = Msg(i)'.port
                 PROVE  k <= i
      BY DEF LastAsks, AsksFor, Asking
    <2>1. i \in Slots /\ Msg(i)' = Msg(i) /\ k \in Slots /\ Msg(k)' = Msg(k)
      BY <1>3, <1>5
    <2> QED
      BY <1>1, <2>1 DEF HandInv, LastAsks, AsksFor
  <1>11. FirmKnown'
    <2> SUFFICES ASSUME NEW a \in Services, NEW b \in Ports, Firm(a, b)'
                 PROVE  /\ Noted(b, held[a][b].spec, held[a][b].rc)'
                        /\ \A i \in Slots' : ~(Asking(Msg(i)') /\ Msg(i)'.port = b)
      BY DEF FirmKnown, AsksFor, Asking
    <2>1. held'[a][b] = held[a][b] /\ Firm(a, b)
      BY <1>1 DEF Firm
    <2>2. Noted(b, held[a][b].spec, held[a][b].rc)'
      BY <1>1, <2>1, FirmNoted
    <2>3. \A i \in Slots : ~AsksFor(i, b)
      BY <2>1 DEF HandInv, FirmKnown
    <2> QED
      BY <1>3, <1>5, <2>2, <2>3 DEF AsksFor
  <1>12. InHand'
    BY <1>1 DEF HandInv, InHand, Busy, Working, Noted
  <1> QED
    BY <1>6, <1>8, <1>9, <1>10, <1>11, <1>12 DEF HandInv

(* The steps of a service do. *)
LEMMA HandTask ==
    ASSUME TypeOK, TypeOK', HandInv, NEW s \in Services, Task(s)
    PROVE  HandInv'
  <1> USE DEF envVars, svcVars, ctlVars
  <1>1. CASE Begin(s)
    <2>1. /\ UNCHANGED <<want, owner, rushed, held, queue, entries, ctl>>
          /\ pass[s].at = "idle" /\ pass'[s].goal = want[s]
          /\ \A a \in Services \ {s} : pass'[a] = pass[a]
      BY <1>1, Types DEF Begin
    <2>2. \A p \in Ports : MayAsk(s, p)' /\ ~rushed => Claims(s, p)
      BY <2>1 DEF MayAsk, Claims, HandInv, Owned
    <2> QED
      BY <2>1, <2>2, HandStep
  <1>2. CASE Keep(s)
    <2>1. /\ UNCHANGED <<want, owner, rushed, held, queue, entries, ctl>> /\ pass[s].at = "ports"
          /\ pass' = Done(s, Lowest(pass[s].todo))
      BY <1>2 DEF Keep
    <2>2. /\ pass'[s].at = pass[s].at /\ pass'[s].goal = pass[s].goal
          /\ \A a \in Services \ {s} : pass'[a] = pass[a]
      BY <2>1, DoneFacts
    <2>3. \A p \in Ports : MayAsk(s, p)' /\ ~rushed => Claims(s, p)
      BY <2>1, <2>2 DEF MayAsk, Claims, Holds
    <2> QED
      BY <2>1, <2>2, <2>3, HandStep
  <1>3. CASE Drop(s)
    <2> DEFINE p == Lowest(pass[s].todo)
    <2>0. p \in Ports
      <3>1. pass[s] \in Pass /\ pass[s].todo \in SUBSET Ports
        BY Types DEF Pass
      <3> QED
        BY <1>3, <3>1, LowestIn DEF Drop
    <2>1. /\ UNCHANGED <<want, owner, rushed, queue, entries, ctl>> /\ pass[s].at = "ports"
          /\ pass' = Done(s, p) /\ pass[s].goal[p] = None
          /\ held' = [held EXCEPT ![s][p] = None]
      BY <1>3 DEF Drop
    <2> HIDE DEF p
    <2>2. /\ pass'[s].at = pass[s].at /\ pass'[s].goal = pass[s].goal
          /\ \A a \in Services \ {s} : pass'[a] = pass[a]
      BY <2>1, DoneFacts
    <2>3. /\ \A a \in Services, b \in Ports :
                held'[a][b] = IF a = s /\ b = p THEN None ELSE held[a][b]
          /\ \A a \in Services \ {s} : held'[a] = held[a]
      BY <2>0, <2>1, Nested, Types DEF Holding
    <2>4. \A q \in Ports : MayAsk(s, q)' /\ ~rushed => Claims(s, q)
      BY <2>1, <2>2, <2>3 DEF MayAsk, Claims, Holds
    <2> QED
      BY <2>1, <2>2, <2>3, <2>4, HandStep
  <1> QED
    BY <1>1, <1>2, <1>3, HandAsk, HandCollect DEF Task

(* A lease that a service holds is alive. *)
LEMMA HeldLive ==
    ASSUME NEW s \in Services, NEW p \in Ports, held[s][p] # None
    PROVE  held[s][p].rc \in Live
  <1>1. <<s, p>> \in {y \in Services \X Ports : held[y[1]][y[2]] # None}
    OBVIOUS
  <1>2. held[s][p].rc \in
           {held[x[1]][x[2]].rc : x \in {y \in Services \X Ports : held[y[1]][y[2]] # None}}
    <2>1. held[<<s, p>>[1]][<<s, p>>[2]].rc = held[s][p].rc
      OBVIOUS
    <2> QED
      BY <1>1, <2>1
  <1> QED
    BY <1>2 DEF Live

(* What forgetting the dead targets leaves of an entry. *)
LEMMA RetainedFacts ==
    ASSUME NEW e \in Entry
    PROVE  /\ Retained(e).count = e.count /\ Retained(e).forwards = e.forwards
           /\ Retained(e).mapped = e.mapped
           /\ \A r \in Reqs : Retained(e).targets[r] =
                 IF e.targets[r] # None /\ e.targets[r].rc \in Live THEN e.targets[r] ELSE None
  BY DEF Retained, Entry

(* What sync does to the entries and where it goes next. *)
LEMMA SyncOnKeeps ==
    ASSUME NEW c, NEW ports \in SUBSET Ports, NEW es \in [Ports -> Entry], NEW ifs,
           SyncOn(c, ports, es, ifs)
    PROVE  /\ ctl'.cmd = c /\ ctl'.at \in {"rows", "gc"}
           /\ \A p \in Ports :
                 /\ entries'[p].count = es[p].count /\ entries'[p].mapped = es[p].mapped
                 /\ entries'[p].forwards = es[p].forwards
                 /\ \A r \in Reqs :
                       \/ entries'[p].targets[r] = es[p].targets[r]
                       \/ /\ entries'[p].targets[r] = None
                          /\ ~(es[p].targets[r] # None /\ es[p].targets[r].rc \in Live)
  <1>1. CASE ports # {}
    <2> DEFINE q == Lowest(ports)
    <2>1. q \in Ports
      BY <1>1, LowestIn
    <2>2. entries' = [es EXCEPT ![q] = Retained(es[q])] /\ ctl' = Update(c, q, ports \ {q}, ifs)
      BY <1>1 DEF SyncOn
    <2>3. ctl'.cmd = c /\ ctl'.at = "rows"
      BY <2>2 DEF Update, Idle
    <2> HIDE DEF q
    <2>4. /\ entries'[q] = Retained(es[q]) /\ es[q] \in Entry
          /\ \A p \in Ports \ {q} : entries'[p] = es[p]
      BY <2>1, <2>2
    <2>5. /\ Retained(es[q]).count = es[q].count /\ Retained(es[q]).forwards = es[q].forwards
          /\ Retained(es[q]).mapped = es[q].mapped
          /\ \A r \in Reqs : Retained(es[q]).targets[r] =
                 IF es[q].targets[r] # None /\ es[q].targets[r].rc \in Live
                   THEN es[q].targets[r] ELSE None
      BY <2>4, RetainedFacts
    <2> QED
      BY <2>3, <2>4, <2>5
  <1>2. CASE ports = {}
    BY <1>2 DEF SyncOn, Idle
  <1> QED
    BY <1>1, <1>2

(* A sync goes on, or begins: the entry of a firm lease stays what it is. *)
LEMMA HandSync ==
    ASSUME TypeOK, TypeOK', HandInv, NEW j, Follow(j), UNCHANGED <<want, owner, rushed, held, pass>>,
           NEW c, ~Asking(c), NEW ports \in SUBSET Ports, NEW es \in [Ports -> Entry], NEW ifs,
           SyncOn(c, ports, es, ifs),
           \A p \in Ports : es[p].count = entries[p].count /\ es[p].targets = entries[p].targets
    PROVE  HandInv'
  <1>1. /\ ctl'.cmd = c
        /\ \A p \in Ports :
              /\ entries'[p].count = es[p].count
              /\ \A r \in Reqs :
                    \/ entries'[p].targets[r] = es[p].targets[r]
                    \/ ~(es[p].targets[r] # None /\ es[p].targets[r].rc \in Live)
    <2>1. ports \in SUBSET Ports /\ es \in [Ports -> Entry] /\ SyncOn(c, ports, es, ifs)
      OBVIOUS
    <2> QED
      BY ONLY <2>1, SyncOnKeeps, ZenonT(60)
  <1>2. Owned' /\ OneClaim'
    BY FrameClaims DEF Claims, MayAsk, Holds
  <1>3. Awaited' /\ OneEach' /\ LastAsks'
    BY FrameMsgs
  <1>4. ASSUME NEW s \in Services, NEW p \in Ports, Firm(s, p)
        PROVE  Noted(p, held[s][p].spec, held[s][p].rc)'
    <2>1. /\ held[s][p] \in [spec : Forwards, rc : Rcs]
          /\ held[s][p].rc \in Live
      BY <1>4, HeldLive, Types DEF Firm, Holding
    <2>2. held[s][p].spec \in Forwards /\ held[s][p].rc \in Rcs
      BY <2>1
    <2>3. held[s][p].spec.reqs \in Reqs /\ held[s][p].spec.target \in Targets
      BY <2>2 DEF Forwards
    <2>4. entries[p].targets[held[s][p].spec.reqs]
             = [target |-> held[s][p].spec.target, rc |-> held[s][p].rc]
      BY <1>4 DEF HandInv, FirmKnown, Noted
    <2>5. entries[p].targets[held[s][p].spec.reqs] # None
          /\ entries[p].targets[held[s][p].spec.reqs].rc \in Live
      <3>1. [target |-> held[s][p].spec.target, rc |-> held[s][p].rc]
               \in [target : Targets, rc : Rcs]
        BY <2>2, <2>3
      <3> QED
        BY <2>1, <2>4, <3>1, NoneAssumption
    <2>6. entries'[p].targets[held[s][p].spec.reqs] = entries[p].targets[held[s][p].spec.reqs]
          /\ entries'[p].count = entries[p].count
      BY <1>1, <2>3, <2>5
    <2> QED
      BY <1>4, <2>6, FirmNoted
  <1>5. FirmKnown'
    BY <1>4, FrameFirm DEF Firm
  <1>6. InHand'
    BY <1>1 DEF InHand, Asking
  <1> QED
    BY <1>2, <1>3, <1>5, <1>6 DEF HandInv

(* What handle_request makes of an entry. *)
LEMMA RequestedFacts ==
    ASSUME NEW e \in Entry, NEW c \in Command, Asking(c)
    PROVE  LET t == Requested(e, c).targets[c.spec.reqs] IN
           /\ Requested(e, c).count = c.spec.count
           /\ t = [target |-> c.spec.target, rc |-> t.rc]
  <1> DEFINE e1 == IF e.count = c.spec.count THEN e ELSE [NoEntry EXCEPT
                  !.count = c.spec.count, !.mapped = e.mapped]
             old == e1.targets[c.spec.reqs]
             rc == IF old # None /\ old.target = c.spec.target /\ old.rc \in Live
                     THEN old.rc ELSE c.rc
  <1>1. c.spec \in Forwards
    BY CommandFacts
  <1>2. c.spec.count \in Counts /\ c.spec.reqs \in Reqs
    BY <1>1 DEF Forwards
  <1>3. e1 \in Entry /\ e1.count = c.spec.count
    <2>1. CASE e.count = c.spec.count
      BY <2>1
    <2>2. CASE e.count # c.spec.count
      <3>1. e1 = [count |-> c.spec.count, targets |-> [r \in Reqs |-> None],
                  forwards |-> [i \in Ips |-> 0], mapped |-> e.mapped]
        BY <2>2 DEF NoEntry
      <3>2. e.mapped \in SUBSET Ips /\ [r \in Reqs |-> None] \in
              [Reqs -> [target : Targets, rc : Rcs] \cup {None}]
        BY DEF Entry
      <3> HIDE DEF e1
      <3> QED
        BY <1>2, <3>1, <3>2 DEF Entry
    <2> QED
      BY <2>1, <2>2
  <1>4. Requested(e, c) = [e1 EXCEPT !.targets[c.spec.reqs] = [target |-> c.spec.target, rc |-> rc]]
    BY DEF Requested
  <1> HIDE DEF e1, rc
  <1> QED
    BY <1>2, <1>3, <1>4 DEF Entry

(* A request is taken: nobody holds its port firmly. *)
LEMMA HandForward ==
    ASSUME TypeOK, TypeOK', HandInv, TakeForward
    PROVE  HandInv'
  <1> USE DEF envVars
  <1> DEFINE c == Head(queue)
             e == Requested(entries[c.port], c)
             d == [c EXCEPT !.rc = e.targets[c.spec.reqs].rc]
  <1>1. /\ ~Busy /\ queue # <<>> /\ Asking(c) /\ queue' = Tail(queue)
        /\ UNCHANGED <<want, owner, rushed, held, pass>>
        /\ entries' = [entries EXCEPT ![c.port] = e]
        /\ ctl' = Update(d, c.port, {}, interfaces)
    BY DEF TakeForward
  <1>2. ctl'.at = "rows" /\ ctl'.cmd = d /\ ctl'.port = c.port
    BY <1>1 DEF Update, Idle
  <1>3. c \in Command /\ Msg(1) = c /\ 1 \in Slots
    <2>1. Busy'
      BY <1>2 DEF Busy
    <2>2. c \in Command /\ Msg(1) = c
      BY <1>1, <1>2, <2>1, MsgsTaken, ZenonT(60)
    <2>3. 1 \in Slots
      BY <1>1, Types DEF Slots
    <2> QED
      BY <2>2, <2>3
  <1>4. c.port \in Ports /\ c \in [kind : {"forward"}, by : Services \cup {None}, port : Ports,
                                   spec : Forwards, rc : Rcs]
    BY <1>1, <1>3 DEF Command, Asking
  <1>5. d.by = c.by /\ Asking(d) /\ d.port = c.port /\ d.spec = c.spec
        /\ d.rc = e.targets[c.spec.reqs].rc
    BY <1>4 DEF Asking
  <1>6. entries[c.port] \in Entry
    BY <1>4, Types
  <1>7. e.count = c.spec.count
        /\ e.targets[c.spec.reqs] = [target |-> c.spec.target, rc |-> e.targets[c.spec.reqs].rc]
    BY <1>1, <1>3, <1>6, RequestedFacts
  <1> HIDE DEF c, e, d
  <1>8. entries'[c.port] = e /\ \A q \in Ports \ {c.port} : entries'[q] = entries[q]
    BY <1>1, <1>4, Types
  <1>9. Follow(Move)
    BY <1>1, <1>2, <1>5, FollowTaken DEF Busy, c
  <1>10. Owned' /\ OneClaim'
    BY <1>1, FrameClaims DEF Claims, MayAsk, Holds
  <1>11. Awaited' /\ OneEach' /\ LastAsks'
    BY <1>1, <1>9, FrameMsgs
  <1>12. ASSUME NEW s \in Services, NEW q \in Ports, Firm(s, q)
         PROVE  Noted(q, held[s][q].spec, held[s][q].rc)'
    <2>1. q # c.port
      BY <1>1, <1>3, <1>12 DEF HandInv, FirmKnown, AsksFor
    <2> QED
      BY <1>1, <1>8, <1>12, <2>1, FirmNoted
  <1>13. FirmKnown'
    BY <1>1, <1>9, <1>12, FrameFirm DEF Firm
  <1>14. InHand'
    BY <1>2, <1>5, <1>7, <1>8 DEF InHand, Working, Noted
  <1> QED
    BY <1>10, <1>11, <1>13, <1>14 DEF HandInv

(* A lease is handed out: the request was the last for its port, and the    *)
(* entry is what it asked for.                                              *)
LEMMA HandLease ==
    ASSUME TypeOK, TypeOK', HandInv, Busy, Answer(TRUE), Asking(ctl.cmd), ctl' = Idle,
           UNCHANGED <<want, owner, rushed, queue>>,
           \A p \in Ports : /\ entries'[p].count = entries[p].count
                            /\ entries'[p].targets = entries[p].targets
    PROVE  HandInv'
  <1> DEFINE s == ctl.cmd.by
             p == ctl.cmd.port
  <1>1. /\ s \in Services \cup {None} /\ p \in Ports
        /\ ctl.cmd.spec # None /\ ctl.cmd.spec \in Forwards /\ ctl.cmd.rc \in Rcs
    BY Types, CommandFacts
  <1>2. Follow(Stay) /\ \A i \in Slots' : i \in Slots /\ i # 0 /\ Msg(i)' = Msg(i)
    BY FollowDone, MsgsDone
  <1>3. 0 \in Slots /\ Msg(0) = ctl.cmd
    BY HandIsSlot
  <1>4. InHand'
    BY IdleType DEF InHand, Busy
  <1>5. CASE s = None
    <2>1. UNCHANGED <<held, pass>>
      BY <1>5 DEF Answer
    <2>2. Owned' /\ OneClaim'
      BY <2>1, FrameClaims DEF Claims, MayAsk, Holds
    <2>3. Awaited' /\ OneEach' /\ LastAsks'
      BY <1>2, <2>1, FrameMsgs
    <2>4. FirmKnown'
      BY <1>2, <2>1, FrameFirm, FirmNoted DEF Firm
    <2> QED
      BY <1>4, <2>2, <2>3, <2>4 DEF HandInv
  <1>6. CASE s \in Services
    <2>0. s # None
      BY <1>6, NoneAssumption
    <2>1. /\ pass' = [pass EXCEPT ![s].at = "ports"]
          /\ held' = [held EXCEPT ![s][p] = [spec |-> ctl.cmd.spec, rc |-> ctl.cmd.rc]]
      BY <2>0 DEF Answer
    <2>2. pass[s].at = "reply" /\ pass[s].goal[p] = ctl.cmd.spec /\ held[s][p] = None
      BY <1>3, <1>6 DEF HandInv, Awaited
    <2> HIDE DEF s, p
    <2>3. /\ \A a \in Services, b \in Ports :
                held'[a][b] = IF a = s /\ b = p THEN [spec |-> ctl.cmd.spec, rc |-> ctl.cmd.rc]
                                                ELSE held[a][b]
          /\ \A a \in Services \ {s} : held'[a] = held[a]
      BY <1>1, <1>6, <2>1, Nested, Types DEF Holding
    <2>4. /\ pass'[s].at = "ports" /\ pass'[s].goal = pass[s].goal
          /\ \A a \in Services \ {s} : pass'[a] = pass[a]
      BY <1>6, <2>1 DEF TypeOK, Pass
    <2>5. Owned' /\ OneClaim'
      <3>1. \A a \in Services, b \in Ports : MayAsk(a, b)' => MayAsk(a, b)
        BY <2>2, <2>3, <2>4, <1>1 DEF MayAsk, Holds
      <3> QED
        BY <3>1, FrameClaims DEF Claims
    <2>6. \A i \in Slots' : Msg(i)'.by # s
      BY <1>2, <1>3, <1>6 DEF HandInv, OneEach, s
    <2>7. Awaited' /\ OneEach' /\ LastAsks'
      BY <1>2, <2>3, <2>4, <2>6, FrameMsgs
    <2>8. FirmKnown'
      <3> SUFFICES ASSUME NEW a \in Services, NEW b \in Ports, Firm(a, b)'
                   PROVE  /\ Noted(b, held[a][b].spec, held[a][b].rc)'
                          /\ \A i \in Slots' : ~(Asking(Msg(i)') /\ Msg(i)'.port = b)
        BY DEF FirmKnown, AsksFor, Asking
      <3>1. CASE a = s /\ b = p
        <4>1. held'[a][b].spec = ctl.cmd.spec /\ held'[a][b].rc = ctl.cmd.rc
          BY <2>3, <3>1
        <4>2. Noted(p, ctl.cmd.spec, ctl.cmd.rc)
          BY DEF HandInv, InHand, p
        <4>3. Noted(b, held[a][b].spec, held[a][b].rc)'
          BY <1>1, <3>1, <4>1, <4>2 DEF Noted
        <4>4. ASSUME NEW i \in Slots', Asking(Msg(i)'), Msg(i)'.port = b
              PROVE  FALSE
          <5>1. i \in Slots /\ i # 0 /\ AsksFor(i, p)
            BY <1>2, <3>1, <4>4 DEF AsksFor
          <5>2. i <= 0
            BY <1>3, <1>6, <5>1 DEF HandInv, LastAsks, Firm, s, p
          <5>3. i \in Nat
            BY <5>1, MsgType
          <5> QED
            BY <5>1, <5>2, <5>3
        <4> QED
          BY <4>3, <4>4
      <3>2. CASE ~(a = s /\ b = p)
        <4>1. held'[a][b] = held[a][b] /\ Firm(a, b)
          BY <2>3, <3>2 DEF Firm
        <4>2. Noted(b, held[a][b].spec, held[a][b].rc)'
          BY <4>1, FirmNoted
        <4>3. \A i \in Slots : ~AsksFor(i, b)
          BY <4>1 DEF HandInv, FirmKnown
        <4> QED
          BY <1>2, <4>2, <4>3 DEF AsksFor
      <3> QED
        BY <3>1, <3>2
    <2> QED
      BY <1>4, <2>5, <2>7, <2>8 DEF HandInv
  <1> QED
    BY <1>1, <1>5, <1>6

-----------------------------------------------------------------------------
(* What each step of an update does to the work, the entries and the        *)
(* mappings.                                                                *)

(* What passing over a row does. *)
LEMMA SkipRowFacts ==
    ASSUME TypeOK, SkipRow
    PROVE  /\ ctl.at = "rows" /\ ctl'.at = "rows" /\ ctl'.cmd = ctl.cmd /\ ctl'.port = ctl.port
           /\ ctl'.ports = ctl.ports /\ ctl'.keep = ctl.keep /\ ctl'.wanted = ctl.wanted
           /\ ctl'.rows = Tail(ctl.rows) /\ ctl.rows # <<>>
           /\ UNCHANGED <<want, owner, rushed, held, pass, queue, interfaces, entries, mappings, kernel,
                          upstream, up, failed, settled>>
  BY DEF SkipRow, Rows, TypeOK, Work, envVars, svcVars

(* An update of one reference of one entry. *)
LEMMA OneRef ==
    ASSUME TypeOK, NEW p \in Ports, NEW i \in Ips, NEW rc,
           entries' = [entries EXCEPT ![p].forwards[i] = rc]
    PROVE  \A q \in Ports :
              /\ entries'[q].count = entries[q].count /\ entries'[q].targets = entries[q].targets
              /\ entries'[q].mapped = entries[q].mapped
              /\ \A a \in Ips : entries'[q].forwards[a] =
                    IF q = p /\ a = i THEN rc ELSE entries[q].forwards[a]
  <1>1. entries[p] \in Entry /\ entries \in [Ports -> Entry]
    BY Types
  <1>2. /\ \A q \in Ports \ {p} : entries'[q] = entries[q]
        /\ entries'[p] = [entries[p] EXCEPT !.forwards[i] = rc]
    BY <1>1
  <1>3. /\ entries'[p].count = entries[p].count /\ entries'[p].targets = entries[p].targets
        /\ entries'[p].mapped = entries[p].mapped
        /\ \A a \in Ips : entries'[p].forwards[a] =
              IF a = i THEN rc ELSE entries[p].forwards[a]
    BY <1>1, <1>2 DEF Entry
  <1> QED
    BY <1>2, <1>3

(* The work left when a row is served. *)
LEMMA KeptFacts ==
    ASSUME TypeOK, NEW row
    PROVE  /\ Kept(row).at = ctl.at /\ Kept(row).cmd = ctl.cmd /\ Kept(row).port = ctl.port
           /\ Kept(row).ports = ctl.ports /\ Kept(row).rows = Tail(ctl.rows)
           /\ Kept(row).keep = ctl.keep \cup {row.ip} /\ Kept(row).op = ctl.op
           /\ Kept(row).wanted = IF PublicOn(Lowest(Openers(row)), row.gw)
                                   THEN ctl.wanted \cup {row.ip} ELSE ctl.wanted
           /\ Kept(row).dead = ctl.dead
  BY DEF Kept, TypeOK, Work

(* What finding the very rule at a row does. *)
LEMMA ReuseRuleFacts ==
    ASSUME TypeOK, ReuseRule, NEW row, row = Head(ctl.rows)
    PROVE  /\ up /\ ctl.at = "rows" /\ ctl'.at = "rows" /\ ctl.rows # <<>>
           /\ ctl' = Kept(row) /\ row.ip \notin ctl.keep /\ Openers(row) # {}
           /\ mappings[At(row)] # None /\ mappings[At(row)].rule = Asked(row)
           /\ \E rc \in 1..3 :
                 /\ mappings'[At(row)] = [rule |-> Asked(row), rc |-> rc]
                 /\ entries' = [entries EXCEPT ![ctl.port].forwards[row.ip] = rc]
           /\ \A y \in Sources \ {At(row)} : mappings'[y] = mappings[y]
           /\ UNCHANGED <<want, owner, rushed, held, pass, queue, interfaces, kernel,
                          upstream, up, failed, settled>>
  <1> DEFINE x == At(row)
             m == mappings[x]
             rc == IF m.rc = entries[ctl.port].forwards[row.ip] THEN m.rc ELSE FreshRc(x)
  <1>1. /\ up /\ ctl.at = "rows" /\ ctl.rows # <<>> /\ ctl' = Kept(row)
        /\ row.ip \notin ctl.keep /\ Openers(row) # {}
        /\ m # None /\ m.rule = Asked(row)
        /\ mappings' = [mappings EXCEPT ![x].rc = rc]
        /\ entries' = [entries EXCEPT ![ctl.port].forwards[row.ip] = rc]
        /\ UNCHANGED <<want, owner, rushed, held, pass, queue, interfaces, kernel,
                          upstream, up, failed, settled>>
    BY DEF ReuseRule, Rows, Installed, Rearm, envVars, svcVars
  <1>2. x \in Sources /\ mappings \in [Sources -> Mapping \cup {None}]
    BY RowType DEF ReuseRule, TypeOK
  <1>3. m \in Mapping
    BY <1>1, <1>2
  <1>4. rc \in 1..3
    BY <1>2, <1>3, FreshIn DEF Mapping
  <1>5. ctl'.at = "rows"
    BY <1>1, KeptFacts
  <1> HIDE DEF x, rc
  <1>6. mappings'[x] = [mappings[x] EXCEPT !.rc = rc]
        /\ \A y \in Sources \ {x} : mappings'[y] = mappings[y]
    BY <1>1, <1>2
  <1>7. [mappings[x] EXCEPT !.rc = rc] = [rule |-> mappings[x].rule, rc |-> rc]
    BY <1>3 DEF Mapping
  <1> QED
    BY <1>1, <1>4, <1>5, <1>6, <1>7 DEF x

(* What finding another rule at a row, or none, does. *)
LEMMA ChangeRuleFacts ==
    ASSUME TypeOK, ChangeRule, NEW row, row = Head(ctl.rows)
    PROVE  /\ up /\ ctl.at = "rows" /\ ctl'.at \in {"unforward", "forward"} /\ ctl.rows # <<>>
           /\ row.ip \notin ctl.keep /\ Openers(row) # {}
           /\ ctl'.cmd = ctl.cmd /\ ctl'.port = ctl.port /\ ctl'.ports = ctl.ports
           /\ ctl'.rows = Tail(ctl.rows) /\ ctl'.keep = ctl.keep \cup {row.ip}
           /\ ctl'.wanted = Kept(row).wanted
           /\ ctl'.op.new = Asked(row)
           /\ mappings'[At(row)] = None
           /\ \A y \in Sources \ {At(row)} : mappings'[y] = mappings[y]
           /\ UNCHANGED <<want, owner, rushed, held, pass, queue, interfaces, entries, kernel,
                          upstream, up, failed, settled>>
  <1> DEFINE m == mappings[At(row)]
             op == [old |-> IF m = None THEN None ELSE m.rule, new |-> Asked(row)]
  <1>1. /\ up /\ ctl.at = "rows" /\ ctl.rows # <<>>
        /\ row.ip \notin ctl.keep /\ Openers(row) # {}
        /\ mappings' = [mappings EXCEPT ![At(row)] = None]
        /\ ctl' = [Kept(row) EXCEPT !.at = FirstOp(m), !.op = op]
        /\ UNCHANGED <<want, owner, rushed, held, pass, queue, interfaces, entries, kernel,
                          upstream, up, failed, settled>>
    BY DEF ChangeRule, Rows, envVars, svcVars
  <1>2. At(row) \in Sources /\ mappings \in [Sources -> Mapping \cup {None}]
    BY RowType DEF ChangeRule, TypeOK
  <1>3. Kept(row) \in Work
    BY KeptType DEF ChangeRule
  <1>4. FirstOp(m) \in {"unforward", "forward"}
    BY DEF FirstOp
  <1> HIDE DEF op
  <1>5. /\ ctl'.at = FirstOp(m) /\ ctl'.op = op
        /\ ctl'.cmd = Kept(row).cmd /\ ctl'.port = Kept(row).port /\ ctl'.ports = Kept(row).ports
        /\ ctl'.rows = Kept(row).rows /\ ctl'.keep = Kept(row).keep
        /\ ctl'.wanted = Kept(row).wanted
    BY <1>1, <1>3 DEF Work
  <1>6. op.new = Asked(row)
    BY DEF op
  <1>7. mappings'[At(row)] = None /\ \A y \in Sources \ {At(row)} : mappings'[y] = mappings[y]
    BY <1>1, <1>2
  <1> QED
    BY <1>1, <1>4, <1>5, <1>6, <1>7, KeptFacts, ZenonT(60)

(* What removing the old rule does. *)
LEMMA UnforwardFacts ==
    ASSUME TypeOK, Unforward
    PROVE  /\ ctl.at = "unforward" /\ ctl'.at = "forward" /\ ctl'.cmd = ctl.cmd
           /\ ctl'.port = ctl.port /\ ctl'.ports = ctl.ports /\ ctl'.keep = ctl.keep
           /\ ctl'.wanted = ctl.wanted /\ ctl'.rows = ctl.rows /\ ctl'.op = ctl.op
           /\ UNCHANGED <<want, owner, rushed, held, pass, queue, interfaces, entries, mappings,
                          upstream, up, settled>>
  BY DEF Unforward, TypeOK, Work, envVars, svcVars

(* What installing the new rule does. *)
LEMMA ForwardFacts ==
    ASSUME TypeOK, Forward, NEW x, x = ctl.op.new.source
    PROVE  /\ ctl.at = "forward" /\ ctl'.at = "rows" /\ ctl'.cmd = ctl.cmd
           /\ ctl'.port = ctl.port /\ ctl'.ports = ctl.ports /\ ctl'.keep = ctl.keep
           /\ ctl'.wanted = ctl.wanted /\ ctl'.rows = ctl.rows
           /\ x \in Sources /\ FreshRc(x) \in 1..3
           /\ mappings'[x] = [rule |-> ctl.op.new, rc |-> FreshRc(x)]
           /\ entries' = [entries EXCEPT ![x[2]].forwards[x[1]] = FreshRc(x)]
           /\ mappings'[x] # None
           /\ \A y \in Sources \ {x} : mappings'[y] = mappings[y]
           /\ UNCHANGED <<want, owner, rushed, held, pass, queue, interfaces, upstream, up, settled>>
  <1>1. ctl.at = "forward" /\ ctl.op \in Operation /\ mappings \in [Sources -> Mapping \cup {None}]
    BY DEF Forward, TypeOK, Work
  <1>2. ctl.op.new \in Rules
    BY <1>1 DEF Operation
  <1>3. x \in Sources
    BY <1>2 DEF Rules
  <1>4. /\ mappings' = [mappings EXCEPT ![x] = [rule |-> ctl.op.new, rc |-> FreshRc(x)]]
        /\ entries' = [entries EXCEPT ![x[2]].forwards[x[1]] = FreshRc(x)]
    BY DEF Forward
  <1>5. FreshRc(x) \in 1..3
    BY <1>3, FreshIn
  <1>6. /\ mappings'[x] = [rule |-> ctl.op.new, rc |-> FreshRc(x)]
        /\ \A y \in Sources \ {x} : mappings'[y] = mappings[y]
    BY <1>1, <1>3, <1>4
  <1>7. mappings'[x] # None
    BY <1>2, <1>5, <1>6, NoneAssumption DEF Mapping
  <1>8. /\ ctl'.at = "rows" /\ ctl'.cmd = ctl.cmd
        /\ ctl'.port = ctl.port /\ ctl'.ports = ctl.ports /\ ctl'.keep = ctl.keep
        /\ ctl'.wanted = ctl.wanted /\ ctl'.rows = ctl.rows
        /\ UNCHANGED <<want, owner, rushed, held, pass, queue, interfaces, upstream, up, settled>>
    BY DEF Forward, TypeOK, Work, envVars, svcVars
  <1> QED
    BY <1>1, <1>3, <1>4, <1>5, <1>6, <1>7, <1>8

(* The entries when an update is over. *)
Ended == [entries EXCEPT ![ctl.port] =
            [entries[ctl.port] EXCEPT !.forwards = Refs(entries[ctl.port]), !.mapped = ctl.wanted]]

(* What the end of an update does. *)
LEMMA EndRowsFacts ==
    ASSUME TypeOK, EndRows
    PROVE  /\ ctl.at = "rows" /\ ctl.rows = <<>> /\ ctl.port \in Ports
           /\ ctl.ports \in SUBSET Ports
           /\ Ended \in [Ports -> Entry]
           /\ \A q \in Ports : /\ Ended[q].count = entries[q].count
                               /\ Ended[q].targets = entries[q].targets
                               /\ q # ctl.port => Ended[q] = entries[q]
           /\ Ended[ctl.port].mapped = ctl.wanted
           /\ \A i \in Ips : Ended[ctl.port].forwards[i] =
                 IF i \in ctl.keep THEN entries[ctl.port].forwards[i] ELSE 0
           /\ \A x \in Sources : upstream'[x] =
                 IF x[2] # ctl.port THEN upstream[x]
                 ELSE IF x[1] \in ctl.wanted THEN entries[ctl.port].count
                 ELSE IF x[1] \in entries[ctl.port].mapped THEN 0 ELSE upstream[x]
           /\ Asking(ctl.cmd) => Answer(TRUE) /\ entries' = Ended /\ ctl' = Idle
           /\ ~Asking(ctl.cmd) => /\ UNCHANGED <<held, pass>>
                                  /\ SyncOn(ctl.cmd, ctl.ports, Ended, interfaces)
           /\ UNCHANGED <<want, owner, rushed, queue, interfaces, mappings, kernel, up, failed, settled>>
  <1> DEFINE p == ctl.port
             e == [entries[p] EXCEPT !.forwards = Refs(entries[p]), !.mapped = ctl.wanted]
  <1>1. /\ ctl.at = "rows" /\ p \in Ports /\ entries[p] \in Entry /\ ctl.wanted \in SUBSET Ips
        /\ ctl.ports \in SUBSET Ports /\ entries \in [Ports -> Entry]
    BY DEF TypeOK, EndRows, Work
  <1>2. Refs(entries[p]) \in [Ips -> 0..3]
    BY <1>1 DEF Refs, Entry
  <1>3. Ended = [entries EXCEPT ![p] = e]
    BY DEF Ended
  <1>4. /\ upstream' = [x \in Sources |->
             IF x[2] # p THEN upstream[x]
             ELSE IF x[1] \in ctl.wanted THEN e.count
             ELSE IF x[1] \in entries[p].mapped THEN 0 ELSE upstream[x]]
        /\ Asking(ctl.cmd) => Answer(TRUE) /\ entries' = Ended /\ ctl' = Idle
        /\ ~Asking(ctl.cmd) => /\ UNCHANGED <<held, pass>>
                               /\ SyncOn(ctl.cmd, ctl.ports, Ended, interfaces)
        /\ ctl.rows = <<>>
        /\ UNCHANGED <<want, owner, rushed, queue, interfaces, mappings, kernel, up, failed, settled>>
    BY DEF EndRows, Ended, envVars
  <1>5. e \in Entry /\ e.count = entries[p].count /\ e.targets = entries[p].targets
        /\ e.mapped = ctl.wanted /\ e.forwards = Refs(entries[p])
    <2> HIDE DEF p
    <2> QED
      BY <1>1, <1>2 DEF Entry
  <1>6. \A i \in Ips : e.forwards[i] = IF i \in ctl.keep THEN entries[p].forwards[i] ELSE 0
    BY <1>5 DEF Refs
  <1> HIDE DEF p, e
  <1>7. Ended[p] = e /\ Ended \in [Ports -> Entry]
        /\ \A q \in Ports \ {p} : Ended[q] = entries[q]
    BY <1>1, <1>3, <1>5
  <1>8. \A x \in Sources : upstream'[x] =
                 IF x[2] # p THEN upstream[x]
                 ELSE IF x[1] \in ctl.wanted THEN entries[p].count
                 ELSE IF x[1] \in entries[p].mapped THEN 0 ELSE upstream[x]
    BY <1>4, <1>5
  <1>9. \A q \in Ports : /\ Ended[q].count = entries[q].count
                         /\ Ended[q].targets = entries[q].targets
                         /\ q # p => Ended[q] = entries[q]
    BY <1>5, <1>7
  <1>10. p = ctl.port
    BY DEF p
  <1> QED
    BY <1>1, <1>4, <1>5, <1>6, <1>7, <1>8, <1>9, <1>10

(* The steps of the controller. *)
LEMMA HandController ==
    ASSUME TypeOK, TypeOK', HandInv, Controller
    PROVE  HandInv'
  <1> USE DEF envVars, svcVars, ctlVars
  <1>0. entries \in [Ports -> Entry] /\ Known(entries) \in SUBSET Ports
    BY Types DEF Known
  <1>1. CASE TakeSync
    <2>1. /\ ~Busy /\ queue # <<>> /\ Head(queue).kind = "sync" /\ queue' = Tail(queue)
          /\ UNCHANGED <<want, owner, rushed, held, pass>>
          /\ SyncOn(Head(queue), Known(entries), entries, interfaces)
      BY <1>1 DEF TakeSync
    <2>2. ctl'.cmd = Head(queue) /\ Busy' /\ ~Asking(Head(queue))
      BY <1>0, <2>1, SyncOnKeeps DEF Busy, Asking
    <2>3. Follow(Move)
      BY <2>1, <2>2, FollowTaken
    <2> QED
      BY <1>0, <2>1, <2>2, <2>3, HandSync
  <1>2. CASE TakeNet
    <2>1. /\ ~Busy /\ queue' = queue /\ UNCHANGED <<want, owner, rushed, held, pass>>
          /\ SyncOn(Sync(None), Known(entries), entries, Renewed)
      BY <1>2 DEF TakeNet
    <2>2. ctl'.cmd = Sync(None) /\ Busy' /\ ~Asking(Sync(None))
      BY <1>0, <2>1, SyncOnKeeps DEF Busy, Asking, Sync
    <2>3. Follow(Stay)
      BY <2>1, <2>2, FollowNet
    <2> QED
      BY <1>0, <2>1, <2>2, <2>3, HandSync
  <1>3. CASE SkipRow
    BY <1>3, SkipRowFacts, HandQuiet DEF Busy, Working
  <1>4. CASE ReuseRule
    <2> DEFINE row == Head(ctl.rows)
    <2>1. row.ip \in Ips /\ ctl.port \in Ports
      BY <1>4, RowType DEF ReuseRule, Row
    <2>2. /\ ctl.at = "rows" /\ ctl' = Kept(row) /\ UNCHANGED <<want, owner, rushed, held, pass, queue>>
          /\ \E rc \in 1..3 : entries' = [entries EXCEPT ![ctl.port].forwards[row.ip] = rc]
      BY <1>4, ReuseRuleFacts
    <2> HIDE DEF row
    <2>3. \A q \in Ports : /\ entries'[q].count = entries[q].count
                           /\ entries'[q].targets = entries[q].targets
      BY <2>1, <2>2, OneRef
    <2>4. ctl'.at = "rows" /\ ctl'.cmd = ctl.cmd /\ ctl'.port = ctl.port
      BY <2>2, KeptFacts
    <2> QED
      BY <2>2, <2>3, <2>4, HandQuiet DEF Busy, Working
  <1>5. CASE ChangeRule
    <2>1. /\ ctl.at = "rows" /\ ctl'.at \in {"unforward", "forward"}
          /\ ctl'.cmd = ctl.cmd /\ ctl'.port = ctl.port
          /\ UNCHANGED <<want, owner, rushed, held, pass, queue, entries>>
      BY <1>5, ChangeRuleFacts
    <2> QED
      BY <2>1, HandQuiet DEF Busy, Working
  <1>6. CASE Unforward
    BY <1>6, UnforwardFacts, HandQuiet DEF Busy, Working
  <1>7. CASE Forward
    <2>0. PICK x : x = ctl.op.new.source
      OBVIOUS
    <2>1. /\ ctl.at = "forward" /\ ctl'.at = "rows" /\ ctl'.cmd = ctl.cmd /\ ctl'.port = ctl.port
          /\ UNCHANGED <<want, owner, rushed, held, pass, queue>> /\ x \in Sources
          /\ entries' = [entries EXCEPT ![x[2]].forwards[x[1]] = FreshRc(x)]
      BY <1>7, <2>0, ForwardFacts
    <2>2. \A q \in Ports : /\ entries'[q].count = entries[q].count
                           /\ entries'[q].targets = entries[q].targets
      <3>1. x[1] \in Ips /\ x[2] \in Ports
        BY <2>1 DEF Sources
      <3> QED
        BY <2>1, <3>1, OneRef
    <2> QED
      BY <2>1, <2>2, HandQuiet DEF Busy, Working
  <1>8. CASE EndRows
    <2>1. Busy
      BY <1>8, EndRowsFacts DEF Busy
    <2>2. CASE Asking(ctl.cmd)
      BY <1>8, <2>1, <2>2, EndRowsFacts, HandLease
    <2>3. CASE ~Asking(ctl.cmd)
      <3>1. /\ SyncOn(ctl.cmd, ctl.ports, Ended, interfaces)
            /\ UNCHANGED <<want, owner, rushed, held, pass, queue>>
            /\ ctl.ports \in SUBSET Ports /\ Ended \in [Ports -> Entry]
            /\ \A q \in Ports : /\ Ended[q].count = entries[q].count
                                /\ Ended[q].targets = entries[q].targets
        BY <1>8, <2>3, EndRowsFacts
      <3>2. ctl'.cmd = ctl.cmd /\ Busy'
        BY <3>1, SyncOnKeeps DEF Busy
      <3>3. Follow(Stay)
        BY <2>1, <3>1, <3>2, FollowSame
      <3> QED
        BY <2>3, <3>1, <3>3, HandSync
    <2> QED
      BY <2>2, <2>3
  <1>9. CASE GcRule
    <2>1. /\ ctl.at = "gc" /\ UNCHANGED <<want, owner, rushed, held, pass, queue, entries>>
          /\ ctl'.at = ctl.at /\ ctl'.cmd = ctl.cmd /\ ctl'.port = ctl.port
      BY <1>9 DEF GcRule, TypeOK, Work
    <2>2. ~Asking(ctl.cmd)
      BY <2>1 DEF HandInv, InHand, Busy, Working
    <2> QED
      BY <2>1, <2>2, HandQuiet DEF Busy
  <1>10. CASE EndSync
    <2>1. ctl.at = "gc" /\ ~Asking(ctl.cmd)
      BY <1>10 DEF EndSync, HandInv, InHand, Busy, Working
    <2> QED
      BY <1>10, <2>1, HandOver DEF EndSync, Busy
  <1>11. CASE RemoveStale
    BY <1>11, HandQuiet DEF RemoveStale, Busy, HandInv, InHand, Working
  <1> QED
    BY <1>1, <1>2, <1>3, <1>4, <1>5, <1>6, <1>7, <1>8, <1>9, <1>10, <1>11, HandForward
       DEF Controller

(* Spec => []HandInv: a request that is awaited is the one its service      *)
(* waits for and the one in hand has been entered; until a port changes     *)
(* hands too early, requests are answered in the order of their claims, and *)
(* the lease of a port's owner is in its entry, whoever goes away, binds    *)
(* again or fails in between.                                               *)
THEOREM LeasesInHand == Spec => []HandInv
  <1>1. Init => HandInv
    <2> SUFFICES ASSUME Init PROVE HandInv
      OBVIOUS
    <2>1. ~Busy /\ Slots = {}
      BY IdleType DEF Init, Slots, Busy
    <2>2. \A s \in Services, p \in Ports : ~Claims(s, p) /\ held[s][p] = None
      BY NoneAssumption DEF Init, Claims, MayAsk, NoPass
    <2>3. Owned
      BY DEF Init, Owned
    <2> QED
      BY <2>1, <2>2, <2>3 DEF HandInv, OneClaim, Awaited, OneEach, LastAsks, FirmKnown, InHand, Firm
  <1>2. TypeOK /\ TypeOK' /\ HandInv /\ [Next]_vars => HandInv'
    <2> SUFFICES ASSUME TypeOK, TypeOK', HandInv, [Next]_vars PROVE HandInv'
      OBVIOUS
    <2>1. CASE UNCHANGED vars
      BY <2>1, HandQuiet DEF vars, envVars, svcVars, ctlVars, Busy, HandInv, InHand, Working
    <2> QED
      BY <2>1, HandEnvironment, HandController, HandTask DEF Next
  <1> QED
    BY <1>1, <1>2, ForwardsTypeCorrect, PTL DEF Spec

(* Until a port changes hands too early, update_request and a changed       *)
(* count, which replace targets and empty entries, never lose the lease of  *)
(* the service that has use for the port (LeaseKnown).                      *)
THEOREM LeasesStayKnown == Spec => [](~rushed => LeaseKnown)
  <1>1. TypeOK /\ HandInv => (~rushed => LeaseKnown)
    <2> SUFFICES ASSUME TypeOK, HandInv, ~rushed, NEW l \in Leases, Current(l)
                 PROVE  entries[l[2]].targets[Lease(l).spec.reqs] =
                           [target |-> Lease(l).spec.target, rc |-> Lease(l).rc]
      BY DEF LeaseKnown
    <2>1. l[1] \in Services /\ l[2] \in Ports /\ held[l[1]][l[2]] # None
      BY DEF Leases
    <2>2. held[l[1]][l[2]] \in [spec : Forwards, rc : Rcs]
      BY <2>1, Types DEF Holding
    <2>3. want[l[1]][l[2]] # None
      BY <2>2, NoneAssumption DEF Current, Lease
    <2> QED
      BY <2>1, <2>3 DEF HandInv, Owned, FirmKnown, Firm, Noted, Lease
  <1> QED
    BY <1>1, LeasesInHand, ForwardsTypeCorrect, PTL

-----------------------------------------------------------------------------
(* Somebody holds a reference to the rule at x. *)
Alive(x) == mappings[x] # None /\ mappings[x].rc = entries[x[2]].forwards[x[1]]
(* How many rows of the interfaces the update has gone through. *)
Seen == Len(interfaces) - Len(ctl.rows)
(* The rows left to do are the last ones of the interfaces. *)
RowsLeft ==
    Working => /\ Len(ctl.rows) <= Len(interfaces)
               /\ \A j \in 1..Len(ctl.rows) : ctl.rows[j] = interfaces[Seen + j]
(* The rules at the addresses kept are alive, but for the one in hand. *)
KeepAlive ==
    Working =>
       /\ \A ip \in ctl.keep : \/ Alive(<<ip, ctl.port>>)
                               \/ ctl.at # "rows" /\ ctl.op.new.source = <<ip, ctl.port>>
       /\ ctl.at # "rows" =>
             ctl.op.new.source[1] \in ctl.keep /\ ctl.op.new.source[2] = ctl.port
(* The rules at the addresses that the lease of s on p opens are alive. *)
Served(s, p) ==
    \A i \in 1..Len(interfaces) :
        Opens(held[s][p].spec.reqs, interfaces[i]) => Alive(<<interfaces[i].ip, p>>)
(* What a sync has gone through, it has served: the firm leases on the      *)
(* ports done with, and on the port worked on at the rows it has seen.      *)
Progress ==
    Busy /\ ~Asking(ctl.cmd) =>
      \A s \in Services, p \in Ports : Firm(s, p) =>
        /\ (Working /\ p \notin ctl.ports \cup {ctl.port}) \/ ctl.at = "gc" => Served(s, p)
        /\ Working /\ p = ctl.port =>
              \A i \in 1..Seen :
                  Opens(held[s][p].spec.reqs, interfaces[i]) => interfaces[i].ip \in ctl.keep
(* What gc will remove is what is dead, nothing that has come alive since. *)
DeadSet == ctl.at = "gc" => ctl.dead = Dead(entries)
(* The inductive invariant of a sync under way. *)
SyncInv == RowsLeft /\ KeepAlive /\ Progress /\ DeadSet

(* No step of the environment or of a service makes a lease firm. *)
Softer == /\ ~rushed' => ~rushed
          /\ \A s \in Services, p \in Ports :
                Firm(s, p)' => Firm(s, p) /\ held'[s][p] = held[s][p]

(* The steps of a service. *)
LEMMA TaskSoftens ==
    ASSUME TypeOK, NEW s \in Services, Task(s)
    PROVE  Softer /\ UNCHANGED <<interfaces, entries, ctl, mappings, kernel, upstream, up, failed>>
  <1> USE DEF envVars, svcVars, ctlVars
  <1>1. CASE Begin(s)
    BY <1>1 DEF Begin, Softer, Firm
  <1>2. CASE Keep(s)
    BY <1>2 DEF Keep, Softer, Firm
  <1>3. CASE Collect(s)
    BY <1>3 DEF Collect, Softer, Firm
  <1>4. ASSUME Drop(s) \/ Ask(s)
        PROVE  Softer /\ UNCHANGED ctlVars
    <2> DEFINE p == Lowest(pass[s].todo)
    <2>1. p \in Ports
      <3>1. pass[s] \in Pass /\ pass[s].todo \in SUBSET Ports
        BY Types DEF Pass
      <3> QED
        BY <1>4, <3>1, LowestIn DEF Drop, Ask
    <2>2. held' = [held EXCEPT ![s][p] = None] /\ UNCHANGED ctlVars /\ UNCHANGED <<owner, rushed>>
      BY <1>4 DEF Drop, Ask
    <2> HIDE DEF p
    <2>3. \A a \in Services, b \in Ports :
             held'[a][b] = IF a = s /\ b = p THEN None ELSE held[a][b]
      BY <2>1, <2>2, Nested, Types DEF Holding
    <2> QED
      BY <2>2, <2>3 DEF Softer, Firm
  <1> QED
    BY <1>1, <1>2, <1>3, <1>4 DEF Task

(* A change of the bindings: the service that a port is given to has no     *)
(* lease of an earlier turn.                                                *)
LEMMA ChangeSoftens ==
    ASSUME TypeOK, NEW s \in Services, NEW p \in Ports, NEW v, Change(s, p, v)
    PROVE  Softer
  BY ChangeFacts DEF Softer, Firm

(* A step that leaves the controller's work and its entries alone. *)
LEMMA SyncQuiet ==
    ASSUME SyncInv, Softer, UNCHANGED <<interfaces, entries, mappings>>,
           ctl'.at = ctl.at, ctl'.port = ctl.port, ctl'.ports = ctl.ports,
           ctl'.rows = ctl.rows, ctl'.keep = ctl.keep, ctl'.op = ctl.op, ctl'.dead = ctl.dead,
           Asking(ctl'.cmd) <=> Asking(ctl.cmd)
    PROVE  SyncInv'
  <1>1. \A x : Alive(x)' <=> Alive(x)
    BY DEF Alive
  <1>2. RowsLeft' /\ KeepAlive' /\ DeadSet'
    BY <1>1 DEF SyncInv, RowsLeft, KeepAlive, DeadSet, Working, Seen, Dead
  <1>3. Progress'
    <2> SUFFICES ASSUME Busy', ~Asking(ctl'.cmd), NEW s \in Services, NEW p \in Ports, Firm(s, p)'
                 PROVE  /\ (Working' /\ p \notin ctl'.ports \cup {ctl'.port}) \/ ctl'.at = "gc"
                              => Served(s, p)'
                        /\ Working' /\ p = ctl'.port =>
                              \A i \in 1..Seen' :
                                 Opens(held'[s][p].spec.reqs, interfaces'[i])
                                    => interfaces'[i].ip \in ctl'.keep
      BY DEF Progress, Asking, Opens, AllowsGateway, PublicOn
    <2>1. Firm(s, p) /\ held'[s][p] = held[s][p] /\ Busy
      BY DEF Softer, Busy
    <2>2. Served(s, p) => Served(s, p)'
      BY <1>1, <2>1 DEF Served, Opens, AllowsGateway, PublicOn
    <2> QED
      BY <2>1, <2>2 DEF SyncInv, Progress, Working, Seen
  <1> QED
    BY <1>2, <1>3 DEF SyncInv

(* The controller is done. *)
LEMMA SyncIdle ==
    ASSUME ctl'.at = "idle"
    PROVE  SyncInv'
  BY DEF SyncInv, RowsLeft, KeepAlive, Progress, DeadSet, Working, Busy

(* An update begins, or the rules are to be collected. *)
LEMMA SyncNext ==
    ASSUME TypeOK, TypeOK', HandInv, NEW c, ~Asking(c), NEW ports \in SUBSET Ports,
           NEW es \in [Ports -> Entry], NEW ifs, ifs = interfaces',
           SyncOn(c, ports, es, ifs), mappings' = mappings,
           \A s \in Services, p \in Ports : Firm(s, p)' /\ p \notin ports =>
              \A i \in 1..Len(interfaces') :
                  Opens(held'[s][p].spec.reqs, interfaces'[i]) =>
                      /\ mappings[<<interfaces'[i].ip, p>>] # None
                      /\ mappings[<<interfaces'[i].ip, p>>].rc = es[p].forwards[interfaces'[i].ip]
    PROVE  SyncInv'
  <1>1. \A p \in Ports : entries'[p].forwards = es[p].forwards
    <2>1. ports \in SUBSET Ports /\ es \in [Ports -> Entry] /\ SyncOn(c, ports, es, ifs)
      OBVIOUS
    <2> QED
      BY ONLY <2>1, SyncOnKeeps, ZenonT(60)
  <1>2. ASSUME NEW s \in Services, NEW p \in Ports, Firm(s, p)', p \notin ports
        PROVE  Served(s, p)'
    <2>1. ASSUME NEW i \in 1..Len(interfaces'), Opens(held'[s][p].spec.reqs, interfaces'[i])
          PROVE  Alive(<<interfaces[i].ip, p>>)'
      <3>1. /\ mappings'[<<interfaces'[i].ip, p>>] # None
            /\ mappings'[<<interfaces'[i].ip, p>>].rc = entries'[p].forwards[interfaces'[i].ip]
        BY <1>1, <1>2, <2>1
      <3> QED
        BY <3>1 DEF Alive
    <2> QED
      BY <2>1 DEF Served, Opens, AllowsGateway, PublicOn
  <1>3. CASE ports # {}
    <2> DEFINE q == Lowest(ports)
    <2>1. q \in ports
      BY <1>3, LowestIn
    <2>2. ctl' = Update(c, q, ports \ {q}, ifs)
      BY <1>3 DEF SyncOn
    <2> HIDE DEF q
    <2>3. ctl'.at = "rows" /\ ctl'.port = q /\ ctl'.ports = ports \ {q} /\ ctl'.rows = interfaces'
          /\ ctl'.keep = {}
      BY <2>2 DEF Update, Idle
    <2>4. Seen' = 0 /\ Len(interfaces') \in Nat
      <3>1. interfaces' \in Seq(Row)
        BY NetsAssumption DEF TypeOK
      <3> QED
        BY <2>3, <3>1 DEF Seen
    <2>5. RowsLeft' /\ KeepAlive' /\ DeadSet'
      BY <2>3, <2>4 DEF RowsLeft, KeepAlive, DeadSet
    <2>6. Progress'
      BY <1>2, <2>1, <2>3, <2>4 DEF Progress
    <2> QED
      BY <2>5, <2>6 DEF SyncInv
  <1>4. CASE ports = {}
    <2>1. ctl' = [Idle EXCEPT !.at = "gc", !.cmd = c, !.dead = Dead(es)] /\ entries' = es
      BY <1>4 DEF SyncOn
    <2>2. ctl'.at = "gc" /\ ctl'.dead = Dead(es)
      BY <2>1 DEF Idle
    <2>3. RowsLeft' /\ KeepAlive' /\ DeadSet'
      BY <2>1, <2>2 DEF RowsLeft, KeepAlive, DeadSet, Working, Dead
    <2>4. Progress'
      BY <1>2, <1>4, <2>2 DEF Progress, Working
    <2> QED
      BY <2>3, <2>4 DEF SyncInv
  <1> QED
    BY <1>3, <1>4

(* The ports of firm leases are among those a sync goes through. *)
LEMMA FirmIsKnown ==
    ASSUME TypeOK, HandInv, NEW s \in Services, NEW p \in Ports, Firm(s, p)
    PROVE  p \in Known(entries)
  <1>1. held[s][p] \in [spec : Forwards, rc : Rcs]
    BY Types DEF Firm, Holding
  <1>2. held[s][p].spec.count \in Counts
    BY <1>1 DEF Forwards
  <1> QED
    BY <1>2, CountsAssumption DEF HandInv, FirmKnown, Noted, Known

(* The requirements of a firm lease on the port worked on are among the     *)
(* openers of a row that they open.                                         *)
LEMMA FirmOpens ==
    ASSUME TypeOK, HandInv, NEW s \in Services, Firm(s, ctl.port), ctl.port \in Ports, NEW row,
           Opens(held[s][ctl.port].spec.reqs, row)
    PROVE  held[s][ctl.port].spec.reqs \in Openers(row)
  <1> DEFINE l == held[s][ctl.port]
  <1>1. l \in [spec : Forwards, rc : Rcs] /\ l.rc \in Live
    BY HeldLive, Types DEF Firm, Holding
  <1>2. l.spec.reqs \in Reqs /\ l.spec.target \in Targets /\ l.rc \in Rcs
    BY <1>1 DEF Forwards
  <1>3. entries[ctl.port].targets[l.spec.reqs] = [target |-> l.spec.target, rc |-> l.rc]
    BY DEF HandInv, FirmKnown, Noted
  <1>4. [target |-> l.spec.target, rc |-> l.rc] # None
    BY <1>2, NoneAssumption
  <1> HIDE DEF l
  <1>5. entries[ctl.port].targets[l.spec.reqs] # None
        /\ entries[ctl.port].targets[l.spec.reqs].rc \in Live
    BY <1>1, <1>3, <1>4
  <1> QED
    BY <1>2, <1>5 DEF Openers, l

(* An update goes on to the next row. *)
LEMMA NextRow ==
    ASSUME TypeOK, RowsLeft, Working, ctl.rows # <<>>, ctl'.rows = Tail(ctl.rows),
           interfaces' = interfaces
    PROVE  /\ RowsLeft' /\ Seen' = Seen + 1 /\ Seen \in Nat
           /\ Head(ctl.rows) = interfaces[Seen + 1] /\ Seen + 1 <= Len(interfaces)
  <1>1. ctl.rows \in Seq(Row) /\ interfaces \in Seq(Row)
    BY Types DEF Work
  <1>2. /\ Len(ctl.rows) \in Nat \ {0} /\ Len(interfaces) \in Nat
        /\ Head(ctl.rows) = ctl.rows[1]
        /\ Len(ctl'.rows) = Len(ctl.rows) - 1
        /\ \A j \in 1..Len(ctl'.rows) : ctl'.rows[j] = ctl.rows[j + 1]
    BY <1>1
  <1>3. /\ Len(ctl.rows) <= Len(interfaces)
        /\ \A j \in 1..Len(ctl.rows) : ctl.rows[j] = interfaces[Seen + j]
    BY DEF RowsLeft
  <1>4. Seen \in Nat /\ Seen' = Seen + 1 /\ Seen + 1 <= Len(interfaces)
    <2>1. Seen' = Len(interfaces) - Len(ctl'.rows)
      BY DEF Seen
    <2>2. Seen = Len(interfaces) - Len(ctl.rows)
      BY DEF Seen
    <2> QED
      BY <1>2, <1>3, <2>1, <2>2
  <1>5. Head(ctl.rows) = interfaces[Seen + 1]
    BY <1>2, <1>3
  <1>6. ASSUME NEW j \in 1..Len(ctl'.rows)
        PROVE  ctl'.rows[j] = interfaces[Seen' + j]
    <2>1. j + 1 \in 1..Len(ctl.rows) /\ Seen' + j = Seen + (j + 1)
      BY <1>2, <1>4
    <2> QED
      BY <1>2, <1>3, <2>1
  <1>7. RowsLeft'
    BY <1>2, <1>3, <1>6 DEF RowsLeft
  <1> QED
    BY <1>4, <1>5, <1>7

(* The addresses of the interfaces. *)
LEMMA RowSource ==
    ASSUME TypeOK, NEW i \in 1..Len(interfaces)
    PROVE  /\ interfaces[i] \in Row /\ interfaces[i].ip \in Ips
           /\ \A p \in Ports : <<interfaces[i].ip, p>> \in Sources
  <1>1. interfaces \in Seq(Row)
    BY Types
  <1>2. interfaces[i] \in Row
    BY <1>1
  <1> QED
    BY <1>2 DEF Row, Sources

(* A step at a row: afterwards the address is kept, if a firm lease opens   *)
(* it, and the rules of the other ports are what they were.                 *)
LEMMA SyncRow ==
    ASSUME TypeOK, TypeOK', HandInv, SyncInv, ctl.at = "rows", ctl.rows # <<>>,
           Working', ctl'.cmd = ctl.cmd, ctl'.port = ctl.port, ctl'.ports = ctl.ports,
           ctl'.rows = Tail(ctl.rows), UNCHANGED <<want, owner, rushed, held, interfaces>>,
           ctl.keep \subseteq ctl'.keep,
           Openers(Head(ctl.rows)) # {} => Head(ctl.rows).ip \in ctl'.keep,
           \A x \in Sources : x[2] # ctl.port => (Alive(x) => Alive(x)'),
           KeepAlive'
    PROVE  SyncInv'
  <1>1. Working /\ Busy /\ ctl'.at # "gc" /\ ctl.port \in Ports
    BY DEF Working, Busy, TypeOK
  <1>2. /\ RowsLeft' /\ Seen' = Seen + 1 /\ Seen \in Nat
        /\ Head(ctl.rows) = interfaces[Seen + 1]
    BY <1>1, NextRow DEF SyncInv
  <1>3. DeadSet'
    BY <1>1 DEF DeadSet
  <1>4. Progress'
    <2> SUFFICES ASSUME ~Asking(ctl.cmd), NEW s \in Services, NEW p \in Ports, Firm(s, p)
                 PROVE  /\ p \notin ctl.ports \cup {ctl.port} => Served(s, p)'
                        /\ p = ctl.port =>
                              \A i \in 1..Seen' :
                                 Opens(held[s][p].spec.reqs, interfaces[i])
                                    => interfaces[i].ip \in ctl'.keep
      BY <1>1 DEF Progress, Asking, Opens, AllowsGateway, PublicOn, Firm
    <2>1. ASSUME p \notin ctl.ports \cup {ctl.port}
          PROVE  Served(s, p)'
      <3>1. Served(s, p)
        BY <1>1, <2>1 DEF SyncInv, Progress
      <3>2. \A i \in 1..Len(interfaces) : <<interfaces[i].ip, p>> \in Sources
        BY RowSource
      <3>3. \A i \in 1..Len(interfaces) :
               Alive(<<interfaces[i].ip, p>>) => Alive(<<interfaces[i].ip, p>>)'
        BY <2>1, <3>2
      <3> QED
        BY <3>1, <3>3 DEF Served, Opens, AllowsGateway, PublicOn
    <2>2. ASSUME p = ctl.port, NEW i \in 1..Seen', Opens(held[s][p].spec.reqs, interfaces[i])
          PROVE  interfaces[i].ip \in ctl'.keep
      <3>1. CASE i = Seen + 1
        <4>1. held[s][p].spec.reqs \in Openers(Head(ctl.rows))
          BY <1>1, <1>2, <2>2, <3>1, FirmOpens
        <4> QED
          BY <1>2, <3>1, <4>1
      <3>2. CASE i # Seen + 1
        <4>1. i \in 1..Seen
          BY <1>2, <3>2
        <4> QED
          BY <1>1, <2>2, <4>1 DEF SyncInv, Progress
      <3> QED
        BY <3>1, <3>2
    <2> QED
      BY <2>1, <2>2
  <1> QED
    BY <1>2, <1>3, <1>4 DEF SyncInv

(* A reference is renewed at x together with its mapping. *)
LEMMA RefAlive ==
    ASSUME TypeOK, NEW x \in Sources, NEW rc, mappings'[x] # None, mappings'[x].rc = rc,
           \A y \in Sources \ {x} : mappings'[y] = mappings[y],
           entries' = [entries EXCEPT ![x[2]].forwards[x[1]] = rc]
    PROVE  /\ Alive(x)'
           /\ \A y \in Sources : Alive(y) => Alive(y)'
  <1>1. x[1] \in Ips /\ x[2] \in Ports /\ x = <<x[1], x[2]>>
    BY DEF Sources
  <1>2. \A q \in Ports, a \in Ips : entries'[q].forwards[a] =
                    IF q = x[2] /\ a = x[1] THEN rc ELSE entries[q].forwards[a]
    <2>1. PICK q, a : q = x[2] /\ a = x[1]
      OBVIOUS
    <2>2. q \in Ports /\ a \in Ips /\ entries' = [entries EXCEPT ![q].forwards[a] = rc]
      BY <1>1, <2>1
    <2>3. /\ \A r \in Ports \ {q} : entries'[r] = entries[r]
          /\ entries'[q] = [entries[q] EXCEPT !.forwards[a] = rc] /\ entries[q] \in Entry
      BY <2>2, Types
    <2>4. \A b \in Ips : entries'[q].forwards[b] = IF b = a THEN rc ELSE entries[q].forwards[b]
      BY <2>2, <2>3 DEF Entry
    <2> QED
      BY <2>1, <2>3, <2>4
  <1>3. Alive(x)'
    BY <1>1, <1>2 DEF Alive
  <1>4. ASSUME NEW y \in Sources, Alive(y), y # x
        PROVE  Alive(y)'
    <2>1. y[1] \in Ips /\ y[2] \in Ports /\ y = <<y[1], y[2]>>
      BY DEF Sources
    <2>2. ~(y[2] = x[2] /\ y[1] = x[1])
      BY <1>1, <1>4, <2>1
    <2> QED
      BY <1>2, <1>4, <2>1, <2>2 DEF Alive
  <1> QED
    BY <1>3, <1>4

(* The controller's steps keep what a sync has achieved. *)
LEMMA SyncController ==
    ASSUME TypeOK, TypeOK', HandInv, HandInv', SyncInv, Controller
    PROVE  SyncInv'
  <1> USE DEF envVars, svcVars, ctlVars
  <1>0. entries \in [Ports -> Entry] /\ Known(entries) \in SUBSET Ports
    BY Types DEF Known
  <1>1. CASE TakeSync
    <2>1. /\ Head(queue).kind = "sync" /\ UNCHANGED <<want, owner, rushed, held, mappings, interfaces>>
          /\ SyncOn(Head(queue), Known(entries), entries, interfaces)
      BY <1>1 DEF TakeSync
    <2>2. ~Asking(Head(queue))
      BY <2>1 DEF Asking
    <2>3. \A s \in Services, p \in Ports : Firm(s, p)' => p \in Known(entries)
      BY <2>1, FirmIsKnown DEF Firm
    <2>4. PICK ifs : ifs = interfaces
      OBVIOUS
    <2> QED
      BY <1>0, <2>1, <2>2, <2>3, <2>4, SyncNext
  <1>2. CASE TakeNet
    <2>1. /\ UNCHANGED <<want, owner, rushed, held, mappings>> /\ interfaces' = net
          /\ SyncOn(Sync(None), Known(entries), entries, net)
      BY <1>2 DEF TakeNet, Renewed
    <2>2. ~Asking(Sync(None))
      BY DEF Asking, Sync
    <2>3. \A s \in Services, p \in Ports : Firm(s, p)' => p \in Known(entries)
      BY <2>1, FirmIsKnown DEF Firm
    <2> QED
      BY <1>0, <2>1, <2>2, <2>3, SyncNext
  <1>3. CASE TakeForward
    <2>1. /\ ctl'.at = "rows" /\ ctl'.rows = interfaces /\ ctl'.keep = {}
          /\ Asking(ctl'.cmd) /\ interfaces' = interfaces
      <3>1. /\ Asking(Head(queue)) /\ queue # <<>> /\ interfaces' = interfaces
            /\ ctl' = Update([Head(queue) EXCEPT !.rc =
                  Requested(entries[Head(queue).port], Head(queue)).targets[Head(queue).spec.reqs].rc],
                  Head(queue).port, {}, interfaces)
        BY <1>3 DEF TakeForward
      <3>2. Head(queue) \in Command
        BY <3>1, Types
      <3>3. Head(queue) \in [kind : {"forward"}, by : Services \cup {None}, port : Ports,
                             spec : Forwards, rc : Rcs]
        BY <3>1, <3>2 DEF Command, Asking
      <3> QED
        BY <3>1, <3>3 DEF Update, Idle, Asking
    <2>2. Seen' = 0 /\ Len(interfaces) \in Nat
      BY <2>1, Types DEF Seen
    <2> QED
      BY <2>1, <2>2 DEF SyncInv, RowsLeft, KeepAlive, Progress, DeadSet
  <1>4. CASE SkipRow
    <2>1. /\ ctl.at = "rows" /\ ctl'.at = "rows" /\ ctl'.port = ctl.port /\ ctl'.keep = ctl.keep
          /\ UNCHANGED <<entries, mappings>> /\ ctl.rows # <<>>
      BY <1>4, SkipRowFacts
    <2>2. Openers(Head(ctl.rows)) # {} => Head(ctl.rows).ip \in ctl'.keep
      BY <1>4, <2>1 DEF SkipRow
    <2>3. \A x : Alive(x)' <=> Alive(x)
      BY <2>1 DEF Alive
    <2>4. KeepAlive'
      BY <2>1, <2>3 DEF SyncInv, KeepAlive, Working
    <2> QED
      BY <1>4, <2>1, <2>2, <2>3, <2>4, SkipRowFacts, SyncRow DEF Working
  <1>5. CASE ReuseRule
    <2>0. PICK row : row = Head(ctl.rows)
      OBVIOUS
    <2>1. /\ ctl.at = "rows" /\ ctl'.at = "rows" /\ ctl.rows # <<>> /\ ctl' = Kept(row)
          /\ \A y \in Sources \ {At(row)} : mappings'[y] = mappings[y]
          /\ UNCHANGED <<want, owner, rushed, held, interfaces>>
      BY <1>5, <2>0, ReuseRuleFacts
    <2>2. PICK rc \in 1..3 :
                 /\ mappings'[At(row)] = [rule |-> Asked(row), rc |-> rc]
                 /\ entries' = [entries EXCEPT ![ctl.port].forwards[row.ip] = rc]
      BY <1>5, <2>0, ReuseRuleFacts, ZenonT(60)
    <2>3. row \in Row /\ row.ip \in Ips /\ ctl.port \in Ports /\ At(row) \in Sources
          /\ Asked(row) \in Rules
      BY <1>5, <2>0, RowType, AskedType DEF ReuseRule, Row
    <2>4. At(row) = <<row.ip, ctl.port>> /\ At(row)[1] = row.ip /\ At(row)[2] = ctl.port
      BY DEF At
    <2>5. mappings'[At(row)] # None /\ mappings'[At(row)].rc = rc
      BY <2>2, <2>3, NoneAssumption DEF Mapping
    <2>6. entries' = [entries EXCEPT ![At(row)[2]].forwards[At(row)[1]] = rc]
      BY <2>2, <2>4
    <2>7. PICK x \in Sources : x = At(row)
      BY <2>3
    <2>8. Alive(x)' /\ \A y \in Sources : Alive(y) => Alive(y)'
      BY <2>1, <2>5, <2>6, <2>7, RefAlive
    <2>9. /\ ctl'.cmd = ctl.cmd /\ ctl'.port = ctl.port /\ ctl'.ports = ctl.ports
          /\ ctl'.rows = Tail(ctl.rows) /\ ctl'.keep = ctl.keep \cup {row.ip}
      BY <2>1, KeptFacts
    <2>10. KeepAlive'
      <3> SUFFICES ASSUME NEW ip \in ctl'.keep
                   PROVE  Alive(<<ip, ctl.port>>)'
        BY <2>1, <2>9 DEF KeepAlive
      <3>1. CASE ip = row.ip
        BY <2>4, <2>7, <2>8, <2>9, <3>1
      <3>2. CASE ip # row.ip
        <4>1. ip \in ctl.keep /\ ip \in Ips
          BY <2>9, <3>2 DEF TypeOK, Work
        <4>2. Alive(<<ip, ctl.port>>) /\ <<ip, ctl.port>> \in Sources
          BY <2>1, <2>3, <4>1 DEF SyncInv, KeepAlive, Working, Sources
        <4> QED
          BY <2>8, <2>9, <4>2
      <3> QED
        BY <3>1, <3>2
    <2> QED
      BY <2>0, <2>1, <2>8, <2>9, <2>10, SyncRow DEF Working
  <1>6. CASE ChangeRule
    <2>0. PICK row : row = Head(ctl.rows)
      OBVIOUS
    <2>1. /\ ctl.at = "rows" /\ ctl'.at \in {"unforward", "forward"} /\ ctl.rows # <<>>
          /\ row.ip \notin ctl.keep
          /\ ctl'.cmd = ctl.cmd /\ ctl'.port = ctl.port /\ ctl'.ports = ctl.ports
          /\ ctl'.rows = Tail(ctl.rows) /\ ctl'.keep = ctl.keep \cup {row.ip}
          /\ ctl'.op.new = Asked(row)
          /\ \A y \in Sources \ {At(row)} : mappings'[y] = mappings[y]
          /\ UNCHANGED <<want, owner, rushed, held, interfaces, entries>>
      BY <1>6, <2>0, ChangeRuleFacts
    <2>2. Asked(row).source = At(row) /\ ctl.port \in Ports
      BY <1>6, <2>0, RowType, AskedType DEF ChangeRule
    <2>3. At(row) = <<row.ip, ctl.port>> /\ At(row)[1] = row.ip /\ At(row)[2] = ctl.port
      BY DEF At
    <2>4. \A y \in Sources : y # At(row) => (Alive(y) => Alive(y)')
      BY <2>1 DEF Alive
    <2>5. KeepAlive'
      <3> SUFFICES ASSUME NEW ip \in ctl'.keep
                   PROVE  Alive(<<ip, ctl.port>>)' \/ ctl'.op.new.source = <<ip, ctl.port>>
        BY <2>1, <2>2, <2>3 DEF KeepAlive
      <3>1. CASE ip = row.ip
        BY <2>1, <2>2, <2>3, <3>1
      <3>2. CASE ip # row.ip
        <4>1. ip \in ctl.keep /\ ip \in Ips
          BY <2>1, <3>2 DEF TypeOK, Work
        <4>2. Alive(<<ip, ctl.port>>) /\ <<ip, ctl.port>> \in Sources
          BY <2>1, <2>2, <4>1 DEF SyncInv, KeepAlive, Working, Sources
        <4>3. <<ip, ctl.port>> # At(row)
          BY <2>3, <3>2
        <4> QED
          BY <2>1, <2>4, <4>2, <4>3
      <3> QED
        BY <3>1, <3>2
    <2>6. \A y \in Sources : y[2] # ctl.port => (Alive(y) => Alive(y)')
      BY <2>3, <2>4
    <2> QED
      BY <2>0, <2>1, <2>5, <2>6, SyncRow DEF Working
  <1>7. CASE Unforward
    <2>1. /\ ctl.at = "unforward" /\ ctl'.at = "forward" /\ ctl'.cmd = ctl.cmd
          /\ ctl'.port = ctl.port /\ ctl'.ports = ctl.ports /\ ctl'.keep = ctl.keep
          /\ ctl'.wanted = ctl.wanted /\ ctl'.rows = ctl.rows /\ ctl'.op = ctl.op
          /\ UNCHANGED <<want, owner, rushed, held, interfaces, entries, mappings>>
      BY <1>7, UnforwardFacts
    <2>2. (\A x : Alive(x)' <=> Alive(x)) /\ Seen' = Seen
      BY <2>1 DEF Alive, Seen
    <2>3. RowsLeft' /\ KeepAlive' /\ DeadSet'
      BY <2>1, <2>2 DEF SyncInv, RowsLeft, KeepAlive, DeadSet, Working
    <2>4. \A s \in Services, p \in Ports : Served(s, p) <=> Served(s, p)'
      BY <2>1, <2>2 DEF Served, Opens, AllowsGateway, PublicOn
    <2>5. Progress'
      BY <2>1, <2>2, <2>4 DEF SyncInv, Progress, Working, Busy, Firm, Asking, Opens,
                              AllowsGateway, PublicOn
    <2> QED
      BY <2>3, <2>5 DEF SyncInv
  <1>8. CASE Forward
    <2>0. PICK x : x = ctl.op.new.source
      OBVIOUS
    <2>1. /\ ctl.at = "forward" /\ ctl'.at = "rows" /\ ctl'.cmd = ctl.cmd
          /\ ctl'.port = ctl.port /\ ctl'.ports = ctl.ports /\ ctl'.keep = ctl.keep
          /\ ctl'.rows = ctl.rows /\ x \in Sources
          /\ mappings'[x] = [rule |-> ctl.op.new, rc |-> FreshRc(x)] /\ mappings'[x] # None
          /\ entries' = [entries EXCEPT ![x[2]].forwards[x[1]] = FreshRc(x)]
          /\ \A y \in Sources \ {x} : mappings'[y] = mappings[y]
          /\ UNCHANGED <<want, owner, rushed, held, interfaces>>
      BY <1>8, <2>0, ForwardFacts
    <2>2. Alive(x)' /\ \A y \in Sources : Alive(y) => Alive(y)'
      <3>1. mappings'[x].rc = FreshRc(x)
        BY <2>1
      <3> QED
        BY <2>1, <3>1, RefAlive
    <2>3. ctl.port \in Ports /\ ctl.keep \in SUBSET Ips
      BY <2>1 DEF TypeOK, Work
    <2>4. KeepAlive'
      <3> SUFFICES ASSUME NEW ip \in ctl.keep
                   PROVE  Alive(<<ip, ctl.port>>)'
        BY <2>1 DEF KeepAlive
      <3>1. <<ip, ctl.port>> \in Sources
        BY <2>3 DEF Sources
      <3>2. Alive(<<ip, ctl.port>>) \/ x = <<ip, ctl.port>>
        BY <2>0, <2>1 DEF SyncInv, KeepAlive, Working
      <3> QED
        BY <2>1, <2>2, <3>1, <3>2
    <2>5. RowsLeft' /\ DeadSet' /\ Seen' = Seen
      BY <2>1 DEF SyncInv, RowsLeft, DeadSet, Working, Seen
    <2>6. ASSUME NEW s \in Services, NEW p \in Ports, Served(s, p)
          PROVE  Served(s, p)'
      <3>1. \A i \in 1..Len(interfaces) : <<interfaces[i].ip, p>> \in Sources
        BY RowSource
      <3> QED
        BY <2>1, <2>2, <2>6, <3>1 DEF Served, Opens, AllowsGateway, PublicOn
    <2>7. Progress'
      BY <2>1, <2>5, <2>6 DEF SyncInv, Progress, Working, Busy, Firm, Asking, Opens,
                              AllowsGateway, PublicOn
    <2> QED
      BY <2>4, <2>5, <2>7 DEF SyncInv
  <1>9. CASE EndRows
    <2>1. CASE Asking(ctl.cmd)
      BY <1>9, <2>1, EndRowsFacts, IdleType, SyncIdle
    <2>2. CASE ~Asking(ctl.cmd)
      <3>1. /\ SyncOn(ctl.cmd, ctl.ports, Ended, interfaces)
            /\ UNCHANGED <<want, owner, rushed, held, interfaces, mappings>>
            /\ ctl.at = "rows" /\ ctl.port \in Ports /\ ctl.rows = <<>>
            /\ ctl.ports \in SUBSET Ports /\ Ended \in [Ports -> Entry]
            /\ \A q \in Ports : q # ctl.port => Ended[q] = entries[q]
            /\ \A i \in Ips : Ended[ctl.port].forwards[i] =
                 IF i \in ctl.keep THEN entries[ctl.port].forwards[i] ELSE 0
        BY <1>9, <2>2, EndRowsFacts
      <3>2. ASSUME NEW s \in Services, NEW p \in Ports, Firm(s, p), p \notin ctl.ports,
                   NEW i \in 1..Len(interfaces), Opens(held[s][p].spec.reqs, interfaces[i])
            PROVE  /\ mappings[<<interfaces[i].ip, p>>] # None
                   /\ mappings[<<interfaces[i].ip, p>>].rc = Ended[p].forwards[interfaces[i].ip]
        <4>1. interfaces[i].ip \in Ips
          BY RowSource
        <4>2. CASE p # ctl.port
          <5>1. Served(s, p)
            BY <2>2, <3>1, <3>2, <4>2 DEF SyncInv, Progress, Working, Busy
          <5>2. Alive(<<interfaces[i].ip, p>>)
            BY <3>2, <5>1 DEF Served
          <5> QED
            BY <3>1, <4>2, <5>2 DEF Alive
        <4>3. CASE p = ctl.port
          <5>1. Seen = Len(interfaces)
            BY <3>1, Types DEF Seen
          <5>2. interfaces[i].ip \in ctl.keep
            BY <2>2, <3>1, <3>2, <4>3, <5>1 DEF SyncInv, Progress, Working, Busy
          <5>3. Alive(<<interfaces[i].ip, p>>)
            BY <3>1, <4>3, <5>2 DEF SyncInv, KeepAlive, Working
          <5> QED
            BY <3>1, <4>1, <4>3, <5>2, <5>3 DEF Alive
        <4> QED
          BY <4>2, <4>3
      <3>3. PICK ifs : ifs = interfaces
        OBVIOUS
      <3>4. \A s \in Services, p \in Ports : Firm(s, p)' => Firm(s, p)
        BY <3>1 DEF Firm
      <3> QED
        <4>1. \A s \in Services, p \in Ports : Firm(s, p)' /\ p \notin ctl.ports =>
              \A i \in 1..Len(interfaces') :
                  Opens(held'[s][p].spec.reqs, interfaces'[i]) =>
                      /\ mappings[<<interfaces'[i].ip, p>>] # None
                      /\ mappings[<<interfaces'[i].ip, p>>].rc = Ended[p].forwards[interfaces'[i].ip]
          BY <3>1, <3>2, <3>4
        <4>2. ifs = interfaces' /\ SyncOn(ctl.cmd, ctl.ports, Ended, ifs) /\ mappings' = mappings
          BY <3>1, <3>3
        <4> QED
          BY ONLY TypeOK, TypeOK', HandInv, <2>2, <3>1, <4>1, <4>2, SyncNext, ZenonT(60)
    <2> QED
      BY <2>1, <2>2
  <1>10. CASE GcRule
    <2>1. PICK x \in ctl.dead :
             /\ mappings' = [mappings EXCEPT ![x] = None]
             /\ ctl' = [ctl EXCEPT !.dead = ctl.dead \ {x}]
      BY <1>10 DEF GcRule
    <2>2. /\ ctl.at = "gc" /\ ctl'.at = "gc" /\ ctl'.dead = ctl.dead \ {x}
          /\ ctl'.cmd = ctl.cmd /\ UNCHANGED <<want, owner, rushed, held, interfaces, entries>>
      BY <1>10, <2>1 DEF GcRule, TypeOK, Work
    <2>3. x \in Sources /\ ctl.dead = Dead(entries)
      BY <2>1, <2>2 DEF TypeOK, Work, SyncInv, DeadSet
    <2>4. \A y \in Sources : mappings'[y] = IF y = x THEN None ELSE mappings[y]
      BY <2>1, <2>3 DEF TypeOK
    <2>5. DeadSet'
      <3>1. Dead(entries)' = Dead(entries) \ {x}
        BY <2>2, <2>4 DEF Dead
      <3> QED
        BY <2>2, <2>3, <3>1 DEF DeadSet
    <2>6. \A y \in Sources : Alive(y) => Alive(y)'
      BY <2>1, <2>2, <2>3, <2>4 DEF Alive, Dead
    <2>7. ASSUME NEW s \in Services, NEW p \in Ports, Served(s, p)
          PROVE  Served(s, p)'
      <3>1. \A i \in 1..Len(interfaces) : <<interfaces[i].ip, p>> \in Sources
        BY RowSource
      <3> QED
        BY <2>2, <2>6, <2>7, <3>1 DEF Served, Opens, AllowsGateway, PublicOn
    <2>8. Progress'
      BY <2>2, <2>7 DEF SyncInv, Progress, Working, Busy, Firm, Asking
    <2> QED
      BY <2>2, <2>5, <2>8 DEF SyncInv, RowsLeft, KeepAlive, Working
  <1>11. CASE EndSync
    BY <1>11, IdleType, SyncIdle DEF EndSync
  <1>12. CASE RemoveStale
    BY <1>12, SyncQuiet DEF RemoveStale, Softer, Firm
  <1> QED
    BY <1>1, <1>2, <1>3, <1>4, <1>5, <1>6, <1>7, <1>8, <1>9, <1>10, <1>11, <1>12
       DEF Controller

(* The environment's steps do. *)
LEMMA SyncEnvironment ==
    ASSUME TypeOK, SyncInv, Environment
    PROVE  SyncInv'
  <1> USE DEF envVars, svcVars, ctlVars
  <1>1. ASSUME NEW s \in Services, NEW p \in Ports, NEW v, Change(s, p, v)
        PROVE  SyncInv'
    BY <1>1, ChangeSoftens, SyncQuiet DEF Change
  <1>2. ASSUME NEW n \in Nets, Rewire(n)
        PROVE  SyncInv'
    BY <1>2, SyncQuiet DEF Rewire, Softer, Firm
  <1>3. ASSUME NEW s \in Services, Remove(s)
        PROVE  SyncInv'
    <2>1. /\ UNCHANGED <<owner, rushed, held, entries, mappings, interfaces>>
          /\ want' = [want EXCEPT ![s] = NoPass.goal]
          /\ ctl' = [ctl EXCEPT !.cmd = Forsake(ctl.cmd, s)]
      BY <1>3 DEF Remove
    <2>2. Softer
      BY <2>1, Types DEF Softer, Firm, NoPass
    <2>3. ctl.cmd \in Command /\ ctl \in Work
      BY Types
    <2>4. Asking(Forsake(ctl.cmd, s)) <=> Asking(ctl.cmd)
      BY <2>3 DEF Command, Forsake, Asking
    <2>5. /\ ctl'.at = ctl.at /\ ctl'.port = ctl.port /\ ctl'.ports = ctl.ports
          /\ ctl'.rows = ctl.rows /\ ctl'.keep = ctl.keep /\ ctl'.op = ctl.op
          /\ ctl'.dead = ctl.dead /\ ctl'.cmd = Forsake(ctl.cmd, s)
      BY <2>1, <2>3 DEF Work
    <2> QED
      BY <2>1, <2>2, <2>4, <2>5, SyncQuiet
  <1>4. CASE Fail
    BY <1>4, IdleType, SyncIdle DEF Fail
  <1>5. CASE Restart
    BY <1>5, IdleType, SyncIdle DEF Restart
  <1> QED
    BY <1>1, <1>2, <1>3, <1>4, <1>5 DEF Environment

(* Spec => []SyncInv: between its awaits a sync, or an update for one       *)
(* request, may be overtaken by services and failures, and still what it    *)
(* has gone through is served.                                              *)
THEOREM SyncGoesThrough == Spec => []SyncInv
  <1>1. Init => SyncInv
    BY IdleType DEF Init, SyncInv, RowsLeft, KeepAlive, Progress, DeadSet, Working, Busy
  <1>2. TypeOK /\ TypeOK' /\ HandInv /\ HandInv' /\ SyncInv /\ [Next]_vars => SyncInv'
    <2> SUFFICES ASSUME TypeOK, TypeOK', HandInv, HandInv', SyncInv, [Next]_vars PROVE SyncInv'
      OBVIOUS
    <2>1. CASE UNCHANGED vars
      BY <2>1, SyncQuiet DEF vars, envVars, svcVars, ctlVars, Softer, Firm
    <2>2. ASSUME NEW s \in Services, Task(s)
          PROVE  SyncInv'
      BY <2>2, TaskSoftens, SyncQuiet
    <2> QED
      BY <2>1, <2>2, SyncEnvironment, SyncController DEF Next
  <1> QED
    BY <1>1, <1>2, ForwardsTypeCorrect, LeasesInHand, PTL DEF Spec

(* A lease that is current is firm. *)
LEMMA CurrentFirm ==
    ASSUME TypeOK, HandInv, ~rushed, NEW l \in Leases, Current(l)
    PROVE  l[1] \in Services /\ l[2] \in Ports /\ Firm(l[1], l[2]) /\ Lease(l) = held[l[1]][l[2]]
  <1>1. l[1] \in Services /\ l[2] \in Ports /\ held[l[1]][l[2]] # None
    BY DEF Leases
  <1>2. held[l[1]][l[2]] \in [spec : Forwards, rc : Rcs]
    BY <1>1, Types DEF Holding
  <1>3. want[l[1]][l[2]] # None
    BY <1>2, NoneAssumption DEF Current, Lease
  <1> QED
    BY <1>1, <1>3 DEF Firm, Lease, HandInv, Owned

(* Spec => []GcSpares: until a port changes hands too early,                *)
(* PortForwardState::gc, working on the list it made at its start, removes  *)
(* no rule that a current lease calls for.                                  *)
THEOREM CollectionSpares == Spec => []GcSpares
  <1>1. TypeOK /\ HandInv /\ SyncInv /\ Ledger => GcSpares
    <2> SUFFICES ASSUME TypeOK, HandInv, SyncInv, Ledger, ctl.at = "gc", ~rushed, NEW x \in ctl.dead,
                        NEW l \in Leases, Current(l),
                        mappings[x].rule \in RulesFor(Lease(l).spec, l[2], interfaces)
                 PROVE  FALSE
      BY DEF GcSpares
    <2>1. PICK s \in Services, p \in Ports : Firm(s, p) /\ Lease(l) = held[s][p] /\ p = l[2]
      BY CurrentFirm
    <2>2. x \in Sources /\ mappings[x] # None /\ mappings[x].rc # entries[x[2]].forwards[x[1]]
      BY DEF SyncInv, DeadSet, Dead
    <2>3. mappings[x].rule.source = x
      BY <2>2 DEF Ledger
    <2>4. PICK i \in DOMAIN interfaces :
             /\ Opens(held[s][p].spec.reqs, interfaces[i])
             /\ mappings[x].rule = Rule(<<interfaces[i].ip, p>>, held[s][p].spec.target,
                   held[s][p].spec.count, Filter(held[s][p].spec.reqs, interfaces[i]))
      BY <2>1 DEF RulesFor
    <2>5. x = <<interfaces[i].ip, p>>
      BY <2>3, <2>4 DEF Rule
    <2>6. DOMAIN interfaces = 1..Len(interfaces)
      BY Types
    <2>7. ~Asking(ctl.cmd) /\ Busy
      BY DEF HandInv, InHand, Working, Busy
    <2>8. Served(s, p)
      BY <2>1, <2>7 DEF SyncInv, Progress
    <2>9. Alive(x)
      BY <2>4, <2>5, <2>6, <2>8 DEF Served
    <2> QED
      BY <2>2, <2>9 DEF Alive
  <1> QED
    BY <1>1, LeasesInHand, SyncGoesThrough, LedgerKept, ForwardsTypeCorrect, PTL

-----------------------------------------------------------------------------
(* The target that the entry of port p has for requirements r. *)
Rec(p, r) == entries[p].targets[r]
(* A reference is in one entry, under one requirement. *)
RcTargets ==
    \A p, q \in Ports, r, t \in Reqs :
        Rec(p, r) # None /\ Rec(q, t) # None /\ Rec(p, r).rc = Rec(q, t).rc => p = q /\ r = t
(* The lease that a service holds is of the target that the entry has for   *)
(* its reference.                                                           *)
RcHeld ==
    \A p, q \in Ports, r \in Reqs, s \in Services :
        Rec(p, r) # None /\ held[s][q] # None /\ Rec(p, r).rc = held[s][q].rc =>
            /\ p = q
            /\ held[s][q].spec = [target |-> Rec(p, r).target, count |-> entries[p].count,
                                  reqs |-> r]
(* The reference of the request in hand is in the entry it asks for, if     *)
(* any.                                                                     *)
RcHand ==
    Busy /\ Asking(ctl.cmd) =>
        \A p \in Ports, r \in Reqs :
            Rec(p, r) # None /\ ctl.cmd.rc = Rec(p, r).rc =>
                p = ctl.cmd.port /\ r = ctl.cmd.spec.reqs
(* The reference of a request in the channel is new to everybody. *)
RcQueue ==
    \A i \in 1..Len(queue) : Asking(queue[i]) =>
        /\ \A p \in Ports, r \in Reqs : Rec(p, r) # None => Rec(p, r).rc # queue[i].rc
        /\ \A s \in Services, p \in Ports : held[s][p] # None => held[s][p].rc # queue[i].rc
        /\ \A k \in 1..Len(queue) : Asking(queue[k]) /\ queue[k].rc = queue[i].rc => k = i
        /\ Busy /\ Asking(ctl.cmd) => ctl.cmd.rc # queue[i].rc
(* The inductive invariant of references to leases. *)
RcInv == RcTargets /\ RcHeld /\ RcHand /\ RcQueue

(* The requests left in the channel were there before. *)
QFollow(j) ==
    /\ \A i \in 1..Len(queue') : Asking(queue'[i]) =>
          /\ j[i] \in 1..Len(queue) /\ Asking(queue[j[i]])
          /\ queue'[i].rc = queue[j[i]].rc
    /\ \A i, k \in 1..Len(queue') : j[i] = j[k] => i = k

(* Nothing is sent and nothing taken. *)
LEMMA QStay ==
    ASSUME TypeOK, queue' = queue
    PROVE  QFollow(Stay)
  <1>1. \A i \in 1..Len(queue) : Stay[i] = i
    BY DEF Stay
  <1> QED
    BY <1>1 DEF QFollow

(* The next request is taken. *)
LEMMA QTail ==
    ASSUME TypeOK, queue # <<>>, queue' = Tail(queue)
    PROVE  QFollow(Move) /\ \A i \in 1..Len(queue') : i + 1 \in 1..Len(queue) /\ queue'[i] = queue[i + 1]
  <1>1. queue \in Seq(Command) /\ Len(queue) \in Nat \ {0}
    BY Types
  <1>2. Len(queue') = Len(queue) - 1 /\ \A i \in 1..(Len(queue) - 1) : queue'[i] = queue[i + 1]
    BY <1>1
  <1>3. \A i \in 1..Len(queue') : Move[i] = i + 1 /\ i + 1 \in 1..Len(queue)
    BY <1>1, <1>2 DEF Move
  <1> QED
    BY <1>1, <1>2, <1>3 DEF QFollow

(* A sync is asked for. *)
LEMMA QSync ==
    ASSUME TypeOK, NEW s, queue' = Append(queue, Sync(s))
    PROVE  QFollow(Stay)
  <1>1. queue \in Seq(Command) /\ Len(queue) \in Nat
    BY Types
  <1>2. /\ Len(queue') = Len(queue) + 1 /\ queue'[Len(queue) + 1] = Sync(s)
        /\ \A i \in 1..Len(queue) : queue'[i] = queue[i]
    BY <1>1
  <1>3. ~Asking(Sync(s))
    BY DEF Sync, Asking
  <1>4. \A i \in 1..(Len(queue) + 1) : Stay[i] = i /\ (i = Len(queue) + 1 \/ i \in 1..Len(queue))
    BY <1>1 DEF Stay
  <1> QED
    BY <1>1, <1>2, <1>3, <1>4 DEF QFollow

(* What is left of a command whose caller went away. *)
LEMMA ForsakeFacts ==
    ASSUME NEW c \in Command, NEW s
    PROVE  /\ Asking(Forsake(c, s)) <=> Asking(c)
           /\ Asking(c) => /\ Forsake(c, s).port = c.port /\ Forsake(c, s).spec = c.spec
                           /\ Forsake(c, s).rc = c.rc
  <1>1. CASE c \in [kind : {"sync"}, by : Services \cup {None}]
    BY <1>1 DEF Forsake, Asking
  <1>2. CASE c \in [kind : {"forward"}, by : Services \cup {None}, port : Ports,
                    spec : Forwards, rc : Rcs]
    BY <1>2 DEF Forsake, Asking
  <1> QED
    BY <1>1, <1>2 DEF Command

(* A service goes away. *)
LEMMA QForsaken ==
    ASSUME TypeOK, NEW s, queue' = [i \in DOMAIN queue |-> Forsake(queue[i], s)]
    PROVE  QFollow(Stay)
  <1>1. queue \in Seq(Command) /\ Len(queue) \in Nat
    BY Types
  <1>2. DOMAIN queue = 1..Len(queue) /\ Len(queue') = Len(queue)
    <2>1. \A i \in DOMAIN queue : Forsake(queue[i], s) \in Command
      BY <1>1, ForsakeType
    <2>2. queue' \in Seq(Command) /\ DOMAIN queue' = 1..Len(queue)
      BY <1>1, <2>1
    <2> QED
      BY <1>1, <2>2
  <1>3. \A i \in 1..Len(queue) : queue[i] \in Command /\ queue'[i] = Forsake(queue[i], s)
    BY <1>1, <1>2
  <1>4. \A i \in 1..Len(queue) : Stay[i] = i
    BY DEF Stay
  <1>5. ASSUME NEW i \in 1..Len(queue), Asking(queue'[i])
        PROVE  Asking(queue[i]) /\ queue'[i].rc = queue[i].rc
    <2>1. PICK c \in Command : c = queue[i]
      BY <1>3
    <2>2. queue'[i] = Forsake(c, s)
      BY <1>3, <2>1
    <2>3. /\ Asking(Forsake(c, s)) <=> Asking(c)
          /\ Asking(c) => Forsake(c, s).rc = c.rc
      BY ForsakeFacts
    <2> QED
      BY <1>5, <2>1, <2>2, <2>3
  <1> QED
    BY <1>2, <1>4, <1>5 DEF QFollow

(* A step that forgets leases and targets, but adds none. *)
LEMMA RcFrame ==
    ASSUME RcInv, NEW j, QFollow(j),
           \A p \in Ports, r \in Reqs : Rec(p, r)' # None =>
              Rec(p, r)' = Rec(p, r) /\ entries'[p].count = entries[p].count,
           \A s \in Services, p \in Ports : held'[s][p] # None => held'[s][p] = held[s][p],
           Busy' /\ Asking(ctl'.cmd) =>
              /\ Busy /\ Asking(ctl.cmd) /\ ctl'.cmd.rc = ctl.cmd.rc
              /\ ctl'.cmd.port = ctl.cmd.port /\ ctl'.cmd.spec = ctl.cmd.spec
    PROVE  RcInv'
  <1>1. RcTargets'
    BY DEF RcInv, RcTargets
  <1>2. RcHeld'
    BY DEF RcInv, RcHeld
  <1>3. RcHand'
    BY DEF RcInv, RcHand, Asking
  <1>4. RcQueue'
    <2> SUFFICES ASSUME NEW i \in 1..Len(queue'), Asking(queue'[i])
                 PROVE  /\ \A p \in Ports, r \in Reqs : Rec(p, r)' # None => Rec(p, r)'.rc # queue'[i].rc
                        /\ \A s \in Services, p \in Ports :
                              held'[s][p] # None => held'[s][p].rc # queue'[i].rc
                        /\ \A k \in 1..Len(queue') :
                              Asking(queue'[k]) /\ queue'[k].rc = queue'[i].rc => k = i
                        /\ Busy' /\ Asking(ctl'.cmd) => ctl'.cmd.rc # queue'[i].rc
      BY DEF RcQueue, Asking
    <2>1. j[i] \in 1..Len(queue) /\ Asking(queue[j[i]]) /\ queue'[i].rc = queue[j[i]].rc
      BY DEF QFollow
    <2>2. /\ \A p \in Ports, r \in Reqs : Rec(p, r) # None => Rec(p, r).rc # queue[j[i]].rc
          /\ \A s \in Services, p \in Ports : held[s][p] # None => held[s][p].rc # queue[j[i]].rc
          /\ \A k \in 1..Len(queue) : Asking(queue[k]) /\ queue[k].rc = queue[j[i]].rc => k = j[i]
          /\ Busy /\ Asking(ctl.cmd) => ctl.cmd.rc # queue[j[i]].rc
      BY <2>1 DEF RcInv, RcQueue
    <2>3. \A k \in 1..Len(queue') : Asking(queue'[k]) /\ queue'[k].rc = queue'[i].rc => k = i
      <3> SUFFICES ASSUME NEW k \in 1..Len(queue'), Asking(queue'[k]), queue'[k].rc = queue'[i].rc
                   PROVE  k = i
        OBVIOUS
      <3>1. j[k] \in 1..Len(queue) /\ Asking(queue[j[k]]) /\ queue'[k].rc = queue[j[k]].rc
        BY DEF QFollow
      <3>2. j[k] = j[i]
        BY <2>1, <2>2, <3>1
      <3> QED
        BY <3>2 DEF QFollow
    <2> QED
      BY <2>1, <2>2, <2>3
  <1> QED
    BY <1>1, <1>2, <1>3, <1>4 DEF RcInv

(* A lease whose reference somebody holds: in a service, in the channel, or *)
(* in hand.                                                                 *)
LEMMA LiveIs ==
    ASSUME NEW rc
    PROVE  rc \in Live <=>
             \/ \E s \in Services, p \in Ports : held[s][p] # None /\ held[s][p].rc = rc
             \/ \E i \in DOMAIN queue : Asking(queue[i]) /\ queue[i].rc = rc
             \/ Busy /\ Asking(ctl.cmd) /\ ctl.cmd.rc = rc
  <1> DEFINE H == {held[x[1]][x[2]].rc : x \in {y \in Services \X Ports : held[y[1]][y[2]] # None}}
             Q == {queue[i].rc : i \in {j \in DOMAIN queue : Asking(queue[j])}}
             C == IF Busy /\ Asking(ctl.cmd) THEN {ctl.cmd.rc} ELSE {}
  <1>1. rc \in H => \E s \in Services, p \in Ports : held[s][p] # None /\ held[s][p].rc = rc
    <2> SUFFICES ASSUME rc \in H
                 PROVE  \E s \in Services, p \in Ports : held[s][p] # None /\ held[s][p].rc = rc
      OBVIOUS
    <2>1. PICK x \in Services \X Ports : held[x[1]][x[2]] # None /\ held[x[1]][x[2]].rc = rc
      OBVIOUS
    <2>2. x[1] \in Services /\ x[2] \in Ports
      OBVIOUS
    <2> QED
      BY <2>1, <2>2
  <1>2. ASSUME NEW s \in Services, NEW p \in Ports, held[s][p] # None, held[s][p].rc = rc
        PROVE  rc \in Live
    BY <1>2, HeldLive
  <1>3. rc \in Q <=> \E i \in DOMAIN queue : Asking(queue[i]) /\ queue[i].rc = rc
    OBVIOUS
  <1>4. rc \in C <=> Busy /\ Asking(ctl.cmd) /\ ctl.cmd.rc = rc
    OBVIOUS
  <1>5. Live = H \cup Q \cup C
    BY DEF Live
  <1> HIDE DEF H, Q, C
  <1> QED
    BY <1>1, <1>2, <1>3, <1>4, <1>5

(* The references that the entries have. *)
LEMMA WeakHas ==
    ASSUME NEW p \in Ports, NEW r \in Reqs, Rec(p, r) # None
    PROVE  Rec(p, r).rc \in Weak
  <1>1. <<p, r>> \in {y \in Ports \X Reqs : entries[y[1]].targets[y[2]] # None}
    BY DEF Rec
  <1>2. entries[<<p, r>>[1]].targets[<<p, r>>[2]].rc = Rec(p, r).rc
    BY DEF Rec
  <1> QED
    BY <1>1, <1>2 DEF Weak

(* A new lease is nobody else's. *)
LEMMA RcAsk ==
    ASSUME TypeOK, RcInv, NEW s \in Services, Ask(s)
    PROVE  RcInv'
  <1> USE DEF envVars, svcVars, ctlVars
  <1> DEFINE p == Lowest(pass[s].todo)
             spec == pass[s].goal[p]
  <1>1. p \in Ports
    <2>1. pass[s] \in Pass /\ pass[s].todo \in SUBSET Ports
      BY Types DEF Pass
    <2> QED
      BY <2>1, LowestIn DEF Ask
  <1>2. PICK rc \in Rcs \ (Live \cup Weak) : queue' =
           Append(queue, [kind |-> "forward", by |-> s, port |-> p, spec |-> spec, rc |-> rc])
    BY DEF Ask, Send
  <1>3. UNCHANGED <<want, owner, rushed, entries, ctl>> /\ held' = [held EXCEPT ![s][p] = None]
    BY DEF Ask
  <1> HIDE DEF p, spec
  <1>4. \A a \in Services, b \in Ports :
              held'[a][b] = IF a = s /\ b = p THEN None ELSE held[a][b]
    BY <1>1, <1>3, Nested, Types DEF Holding
  <1>5. queue \in Seq(Command) /\ Len(queue) \in Nat
    BY Types
  <1> DEFINE c == [kind |-> "forward", by |-> s, port |-> p, spec |-> spec, rc |-> rc]
  <1>6. /\ Len(queue') = Len(queue) + 1 /\ queue'[Len(queue) + 1] = c
        /\ \A i \in 1..Len(queue) : queue'[i] = queue[i]
        /\ DOMAIN queue = 1..Len(queue)
    BY <1>2, <1>5
  <1>7. c.rc = rc
    OBVIOUS
  <1> HIDE DEF c
  <1>8. /\ \A a \in Services, b \in Ports : held[a][b] # None => held[a][b].rc # rc
        /\ \A i \in 1..Len(queue) : Asking(queue[i]) => queue[i].rc # rc
        /\ Busy /\ Asking(ctl.cmd) => ctl.cmd.rc # rc
    BY <1>2, <1>6, LiveIs
  <1>9. \A b \in Ports, r \in Reqs : Rec(b, r) # None => Rec(b, r).rc # rc
    BY <1>2, WeakHas
  <1>10. RcTargets'
    BY <1>3 DEF RcInv, RcTargets, Rec
  <1>11. RcHeld'
    BY <1>3, <1>4 DEF RcInv, RcHeld, Rec
  <1>12. RcHand'
    BY <1>3 DEF RcInv, RcHand, Rec, Busy
  <1>13. RcQueue'
    <2> SUFFICES ASSUME NEW i \in 1..Len(queue'), Asking(queue'[i])
                 PROVE  /\ \A b \in Ports, r \in Reqs : Rec(b, r) # None => Rec(b, r).rc # queue'[i].rc
                        /\ \A a \in Services, b \in Ports :
                              held'[a][b] # None => held'[a][b].rc # queue'[i].rc
                        /\ \A k \in 1..Len(queue') :
                              Asking(queue'[k]) /\ queue'[k].rc = queue'[i].rc => k = i
                        /\ Busy /\ Asking(ctl.cmd) => ctl.cmd.rc # queue'[i].rc
      BY <1>3 DEF RcQueue, Rec, Busy, Asking
    <2>1. CASE i = Len(queue) + 1
      <3>1. queue'[i].rc = rc
        BY <1>6, <1>7, <2>1
      <3>2. ASSUME NEW k \in 1..Len(queue'), Asking(queue'[k]), queue'[k].rc = rc
            PROVE  k = i
        <4>1. k \notin 1..Len(queue)
          BY <1>6, <1>8, <3>2
        <4> QED
          BY <1>5, <1>6, <2>1, <4>1
      <3> QED
        BY <1>4, <1>8, <1>9, <3>1, <3>2
    <2>2. CASE i # Len(queue) + 1
      <3>1. i \in 1..Len(queue) /\ queue'[i] = queue[i]
        BY <1>5, <1>6, <2>2
      <3>2. ASSUME NEW k \in 1..Len(queue'), Asking(queue'[k]), queue'[k].rc = queue'[i].rc
            PROVE  k = i
        <4>1. k # Len(queue) + 1
          BY <1>6, <1>7, <1>8, <3>1, <3>2
        <4>2. k \in 1..Len(queue) /\ queue'[k] = queue[k]
          BY <1>5, <1>6, <4>1
        <4> QED
          BY <3>1, <3>2, <4>2 DEF RcInv, RcQueue
      <3> QED
        BY <1>4, <3>1, <3>2 DEF RcInv, RcQueue
    <2> QED
      BY <2>1, <2>2
  <1> QED
    BY <1>10, <1>11, <1>12, <1>13 DEF RcInv

(* The entry when a request is taken: its target is the request's, or the   *)
(* one that was there and is alive; the others are there as before, or none *)
(* is left.                                                                 *)
LEMMA RequestedRecs ==
    ASSUME NEW e \in Entry, NEW c \in Command, Asking(c)
    PROVE  LET n == Requested(e, c) IN
           /\ \A r \in Reqs \ {c.spec.reqs} : n.targets[r] # None =>
                 n.targets[r] = e.targets[r] /\ n.count = e.count
           /\ \/ n.targets[c.spec.reqs].rc = c.rc
              \/ n.targets[c.spec.reqs] = e.targets[c.spec.reqs] /\ n.count = e.count
                 /\ e.targets[c.spec.reqs] # None
           /\ n.mapped = e.mapped
  <1> DEFINE e1 == IF e.count = c.spec.count THEN e ELSE [NoEntry EXCEPT
                  !.count = c.spec.count, !.mapped = e.mapped]
             old == e1.targets[c.spec.reqs]
             rc == IF old # None /\ old.target = c.spec.target /\ old.rc \in Live
                     THEN old.rc ELSE c.rc
  <1>1. c.spec \in Forwards
    BY CommandFacts
  <1>2. c.spec.count \in Counts /\ c.spec.reqs \in Reqs
    BY <1>1 DEF Forwards
  <1>3. /\ e1 \in Entry /\ e1.mapped = e.mapped
        /\ e.count = c.spec.count => e1 = e
        /\ e.count # c.spec.count => \A r \in Reqs : e1.targets[r] = None
    <2>1. CASE e.count = c.spec.count
      BY <2>1
    <2>2. CASE e.count # c.spec.count
      <3>1. e1 = [count |-> c.spec.count, targets |-> [r \in Reqs |-> None],
                  forwards |-> [i \in Ips |-> 0], mapped |-> e.mapped]
        BY <2>2 DEF NoEntry
      <3>2. e.mapped \in SUBSET Ips /\ [r \in Reqs |-> None] \in
              [Reqs -> [target : Targets, rc : Rcs] \cup {None}]
        BY DEF Entry
      <3> HIDE DEF e1
      <3> QED
        BY <1>2, <2>2, <3>1, <3>2 DEF Entry
    <2> QED
      BY <2>1, <2>2
  <1>4. Requested(e, c) = [e1 EXCEPT !.targets[c.spec.reqs] = [target |-> c.spec.target, rc |-> rc]]
    BY DEF Requested
  <1> HIDE DEF e1, rc
  <1>5. /\ Requested(e, c).count = e1.count /\ Requested(e, c).mapped = e1.mapped
        /\ Requested(e, c).targets[c.spec.reqs] = [target |-> c.spec.target, rc |-> rc]
        /\ \A r \in Reqs \ {c.spec.reqs} : Requested(e, c).targets[r] = e1.targets[r]
    BY <1>2, <1>3, <1>4 DEF Entry
  <1>6. CASE old # None /\ old.target = c.spec.target /\ old.rc \in Live
    <2>1. rc = old.rc
      BY <1>6 DEF rc
    <2>2. e1 = e
      BY <1>2, <1>3, <1>6
    <2>3. old \in [target : Targets, rc : Rcs]
      BY <1>2, <1>3, <1>6 DEF Entry
    <2>4. old = [target |-> c.spec.target, rc |-> rc]
      BY <1>6, <2>1, <2>3
    <2> QED
      BY <1>3, <1>5, <1>6, <2>2, <2>4
  <1>7. CASE ~(old # None /\ old.target = c.spec.target /\ old.rc \in Live)
    <2>1. rc = c.rc
      BY <1>7 DEF rc
    <2>2. \A r \in Reqs \ {c.spec.reqs} : Requested(e, c).targets[r] # None =>
                 Requested(e, c).targets[r] = e.targets[r] /\ Requested(e, c).count = e.count
      BY <1>3, <1>5
    <2> QED
      BY <1>3, <1>5, <2>1, <2>2
  <1> QED
    BY <1>6, <1>7

(* A request is taken: its lease is new, or the one that is shared. *)
LEMMA RcForward ==
    ASSUME TypeOK, RcInv, TakeForward
    PROVE  RcInv'
  <1> USE DEF envVars
  <1> DEFINE c == Head(queue)
             e == Requested(entries[c.port], c)
             d == [c EXCEPT !.rc = e.targets[c.spec.reqs].rc]
  <1>1. /\ ~Busy /\ queue # <<>> /\ Asking(c) /\ queue' = Tail(queue) /\ UNCHANGED held
        /\ entries' = [entries EXCEPT ![c.port] = e]
        /\ ctl' = Update(d, c.port, {}, interfaces)
    BY DEF TakeForward
  <1>2. ctl'.cmd = d
    BY <1>1 DEF Update, Idle
  <1>3. c \in Command /\ c = queue[1] /\ 1 \in 1..Len(queue)
    BY <1>1, Types
  <1>4. c \in [kind : {"forward"}, by : Services \cup {None}, port : Ports,
               spec : Forwards, rc : Rcs]
    BY <1>1, <1>3 DEF Command, Asking
  <1>5. d.port = c.port /\ d.spec = c.spec /\ d.rc = e.targets[c.spec.reqs].rc
    BY <1>4
  <1>6. c.port \in Ports /\ c.spec \in Forwards /\ entries[c.port] \in Entry
    BY <1>4, Types
  <1>7. c.spec.reqs \in Reqs /\ c.spec.target \in Targets
    BY <1>6 DEF Forwards
  <1>8. /\ \A r \in Reqs \ {c.spec.reqs} : e.targets[r] # None =>
              e.targets[r] = entries[c.port].targets[r] /\ e.count = entries[c.port].count
        /\ \/ e.targets[c.spec.reqs].rc = c.rc
           \/ /\ e.targets[c.spec.reqs] = entries[c.port].targets[c.spec.reqs]
              /\ e.count = entries[c.port].count
              /\ entries[c.port].targets[c.spec.reqs] # None
    BY <1>1, <1>3, <1>6, RequestedRecs
  <1> HIDE DEF c, e, d
  <1>9. entries'[c.port] = e /\ \A q \in Ports \ {c.port} : entries'[q] = entries[q]
    BY <1>1, <1>6, Types
  <1>10. /\ \A p \in Ports, r \in Reqs : Rec(p, r) # None => Rec(p, r).rc # c.rc
         /\ \A s \in Services, p \in Ports : held[s][p] # None => held[s][p].rc # c.rc
         /\ \A k \in 1..Len(queue) : Asking(queue[k]) /\ queue[k].rc = c.rc => k = 1
    BY <1>1, <1>3 DEF RcInv, RcQueue
  <1>11. ASSUME NEW p \in Ports, NEW r \in Reqs, Rec(p, r)' # None
         PROVE  \/ Rec(p, r)' = Rec(p, r) /\ entries'[p].count = entries[p].count
                \/ p = c.port /\ r = c.spec.reqs /\ Rec(p, r)'.rc = c.rc
    <2>1. CASE p # c.port
      BY <1>9, <2>1 DEF Rec
    <2>2. CASE p = c.port /\ r # c.spec.reqs
      BY <1>8, <1>9, <1>11, <2>2 DEF Rec
    <2>3. CASE p = c.port /\ r = c.spec.reqs
      BY <1>8, <1>9, <2>3 DEF Rec
    <2> QED
      BY <2>1, <2>2, <2>3
  <1>12. RcTargets'
    <2> SUFFICES ASSUME NEW p \in Ports, NEW q \in Ports, NEW r \in Reqs, NEW t \in Reqs,
                        Rec(p, r)' # None, Rec(q, t)' # None, Rec(p, r)'.rc = Rec(q, t)'.rc
                 PROVE  p = q /\ r = t
      BY DEF RcTargets
    <2> QED
      BY <1>10, <1>11 DEF RcInv, RcTargets
  <1>13. RcHeld'
    <2> SUFFICES ASSUME NEW p \in Ports, NEW q \in Ports, NEW r \in Reqs, NEW s \in Services,
                        Rec(p, r)' # None, held[s][q] # None, Rec(p, r)'.rc = held[s][q].rc
                 PROVE  /\ p = q
                        /\ held[s][q].spec = [target |-> Rec(p, r)'.target,
                                              count |-> entries'[p].count, reqs |-> r]
      BY <1>1 DEF RcHeld
    <2>1. Rec(p, r)' = Rec(p, r) /\ entries'[p].count = entries[p].count
      BY <1>10, <1>11
    <2> QED
      BY <2>1 DEF RcInv, RcHeld
  <1>14. Rec(c.port, c.spec.reqs) = entries[c.port].targets[c.spec.reqs]
         /\ e.targets[c.spec.reqs] # None
    <2>1. e.targets[c.spec.reqs] = [target |-> c.spec.target, rc |-> e.targets[c.spec.reqs].rc]
      BY <1>1, <1>3, <1>6, RequestedFacts DEF e
    <2>2. e \in Entry
      BY <1>4, <1>6, RequestedType DEF e
    <2>3. e.targets[c.spec.reqs] # None
      BY <1>4, <1>7, <1>8, <2>1, <2>2, NoneAssumption DEF Entry
    <2> QED
      BY <2>3 DEF Rec
  <1>15. RcHand'
    <2> SUFFICES ASSUME NEW p \in Ports, NEW r \in Reqs, Rec(p, r)' # None, d.rc = Rec(p, r)'.rc
                 PROVE  p = c.port /\ r = c.spec.reqs
      BY <1>2, <1>5 DEF RcHand
    <2>1. PICK q, t : q = c.port /\ t = c.spec.reqs
      OBVIOUS
    <2>2. q \in Ports /\ t \in Reqs /\ Rec(q, t)' = e.targets[t]
      BY <1>6, <1>7, <1>9, <2>1 DEF Rec
    <2>3. Rec(q, t)' # None /\ Rec(q, t)'.rc = d.rc
      BY <1>5, <1>14, <2>1, <2>2
    <2> QED
      BY <1>12, <2>1, <2>2, <2>3 DEF RcTargets
  <1>16. RcQueue'
    <2> SUFFICES ASSUME NEW i \in 1..Len(queue'), Asking(queue'[i])
                 PROVE  /\ \A p \in Ports, r \in Reqs : Rec(p, r)' # None => Rec(p, r)'.rc # queue'[i].rc
                        /\ \A s \in Services, p \in Ports :
                              held[s][p] # None => held[s][p].rc # queue'[i].rc
                        /\ \A k \in 1..Len(queue') :
                              Asking(queue'[k]) /\ queue'[k].rc = queue'[i].rc => k = i
                        /\ d.rc # queue'[i].rc
      BY <1>1, <1>2 DEF RcQueue, Asking
    <2>1. \A k \in 1..Len(queue') : k + 1 \in 1..Len(queue) /\ queue'[k] = queue[k + 1]
      BY <1>1, QTail
    <2>2. i + 1 # 1 /\ i \in Nat
      <3>1. Len(queue') \in Nat
        BY <1>1, Types
      <3> QED
        BY <3>1
    <2>3. queue'[i].rc # c.rc
      BY <1>10, <2>1, <2>2
    <2>4. /\ \A p \in Ports, r \in Reqs : Rec(p, r) # None => Rec(p, r).rc # queue'[i].rc
          /\ \A s \in Services, p \in Ports : held[s][p] # None => held[s][p].rc # queue'[i].rc
          /\ \A k \in 1..Len(queue) : Asking(queue[k]) /\ queue[k].rc = queue'[i].rc => k = i + 1
      BY <2>1 DEF RcInv, RcQueue
    <2>5. \A p \in Ports, r \in Reqs : Rec(p, r)' # None => Rec(p, r)'.rc # queue'[i].rc
      BY <1>11, <2>3, <2>4
    <2>6. ASSUME NEW k \in 1..Len(queue'), Asking(queue'[k]), queue'[k].rc = queue'[i].rc
          PROVE  k = i
      <3>1. k + 1 = i + 1
        BY <2>1, <2>4, <2>6
      <3>2. k \in Nat
        BY <1>1, Types
      <3> QED
        BY <2>2, <3>1, <3>2
    <2>7. d.rc # queue'[i].rc
      BY <1>5, <1>6, <1>7, <1>8, <1>14, <2>3, <2>4
    <2> QED
      BY <2>4, <2>5, <2>6, <2>7
  <1> QED
    BY <1>12, <1>13, <1>15, <1>16 DEF RcInv

(* A lease is handed out. *)
LEMMA RcLease ==
    ASSUME TypeOK, HandInv, RcInv, Busy, Answer(TRUE), Asking(ctl.cmd), ctl' = Idle,
           queue' = queue,
           \A p \in Ports : /\ entries'[p].count = entries[p].count
                            /\ entries'[p].targets = entries[p].targets
    PROVE  RcInv'
  <1> DEFINE s == ctl.cmd.by
             p == ctl.cmd.port
             l == [spec |-> ctl.cmd.spec, rc |-> ctl.cmd.rc]
  <1>1. s \in Services \cup {None} /\ p \in Ports /\ ctl.cmd.spec \in Forwards
    BY Types, CommandFacts
  <1>2. ~Busy'
    BY IdleType DEF Busy
  <1>3. \A q \in Ports, r \in Reqs : Rec(q, r)' = Rec(q, r)
    BY DEF Rec
  <1>4. ASSUME NEW a \in Services, NEW b \in Ports, held'[a][b] # None
        PROVE  held'[a][b] = held[a][b] \/ (b = p /\ held'[a][b] = l)
    <2>1. CASE s = None
      BY <2>1 DEF Answer
    <2>2. CASE s # None
      <3>1. s \in Services /\ held' = [held EXCEPT ![s][p] = l]
        BY <1>1, <2>2 DEF Answer
      <3> HIDE DEF s, p, l
      <3>2. held'[a][b] = IF a = s /\ b = p THEN l ELSE held[a][b]
        BY <1>1, <3>1, Nested, Types DEF Holding
      <3> QED
        BY <3>2
    <2> QED
      BY <2>1, <2>2
  <1>5. l.spec = ctl.cmd.spec /\ l.rc = ctl.cmd.rc
    OBVIOUS
  <1>6. /\ entries[p].count = ctl.cmd.spec.count
        /\ Rec(p, ctl.cmd.spec.reqs) = [target |-> ctl.cmd.spec.target, rc |-> ctl.cmd.rc]
    BY DEF HandInv, InHand, Noted, Rec
  <1>7. \A q \in Ports, r \in Reqs : Rec(q, r) # None /\ ctl.cmd.rc = Rec(q, r).rc =>
              q = p /\ r = ctl.cmd.spec.reqs
    BY DEF RcInv, RcHand
  <1>8. ctl.cmd.spec = [target |-> ctl.cmd.spec.target, count |-> ctl.cmd.spec.count,
                        reqs |-> ctl.cmd.spec.reqs]
    BY <1>1 DEF Forwards
  <1> HIDE DEF s, p, l
  <1>9. RcTargets'
    BY <1>3 DEF RcInv, RcTargets
  <1>10. RcHeld'
    <2> SUFFICES ASSUME NEW q \in Ports, NEW b \in Ports, NEW r \in Reqs, NEW a \in Services,
                        Rec(q, r) # None, held'[a][b] # None, Rec(q, r).rc = held'[a][b].rc
                 PROVE  /\ q = b
                        /\ held'[a][b].spec = [target |-> Rec(q, r).target,
                                               count |-> entries[q].count, reqs |-> r]
      BY <1>3 DEF RcHeld
    <2>1. CASE held'[a][b] = held[a][b]
      BY <2>1 DEF RcInv, RcHeld
    <2>2. CASE b = p /\ held'[a][b] = l
      <3>1. q = p /\ r = ctl.cmd.spec.reqs
        BY <1>5, <1>7, <2>2
      <3>2. Rec(q, r).target = ctl.cmd.spec.target /\ entries[q].count = ctl.cmd.spec.count
        BY <1>6, <3>1
      <3> QED
        BY <1>5, <1>8, <2>2, <3>1, <3>2
    <2> QED
      BY <1>4, <2>1, <2>2
  <1>11. RcHand'
    BY <1>2 DEF RcHand
  <1>12. RcQueue'
    <2> SUFFICES ASSUME NEW i \in 1..Len(queue), Asking(queue[i])
                 PROVE  /\ \A q \in Ports, r \in Reqs : Rec(q, r) # None => Rec(q, r).rc # queue[i].rc
                        /\ \A a \in Services, b \in Ports :
                              held'[a][b] # None => held'[a][b].rc # queue[i].rc
                        /\ \A k \in 1..Len(queue) :
                              Asking(queue[k]) /\ queue[k].rc = queue[i].rc => k = i
      BY <1>2, <1>3 DEF RcQueue, Asking
    <2> QED
      BY <1>4, <1>5 DEF RcInv, RcQueue
  <1> QED
    BY <1>9, <1>10, <1>11, <1>12 DEF RcInv

(* The controller's steps keep references apart. *)
LEMMA RcController ==
    ASSUME TypeOK, HandInv, RcInv, Controller
    PROVE  RcInv'
  <1> USE DEF envVars, svcVars, ctlVars
  <1>0. entries \in [Ports -> Entry] /\ Known(entries) \in SUBSET Ports
    BY Types DEF Known
  <1>1. ASSUME NEW c, ~Asking(c), NEW ports \in SUBSET Ports, NEW es \in [Ports -> Entry], NEW ifs,
               SyncOn(c, ports, es, ifs), NEW j, QFollow(j), held' = held,
               \A p \in Ports : es[p].count = entries[p].count /\ es[p].targets = entries[p].targets
        PROVE  RcInv'
    <2>1. /\ ctl'.cmd = c
          /\ \A p \in Ports :
                /\ entries'[p].count = es[p].count
                /\ \A r \in Reqs : \/ entries'[p].targets[r] = es[p].targets[r]
                                   \/ entries'[p].targets[r] = None
      <3>1. SyncOn(c, ports, es, ifs) /\ ports \in SUBSET Ports /\ es \in [Ports -> Entry]
        BY <1>1
      <3> QED
        BY ONLY <3>1, SyncOnKeeps, ZenonT(60)
    <2>2. \A p \in Ports, r \in Reqs : Rec(p, r)' # None =>
              Rec(p, r)' = Rec(p, r) /\ entries'[p].count = entries[p].count
      BY <1>1, <2>1 DEF Rec
    <2>3. ~Asking(ctl'.cmd)
      BY <1>1, <2>1
    <2> QED
      BY <1>1, <2>2, <2>3, RcFrame
  <1>2. ASSUME UNCHANGED <<held, queue>>,
               \A p \in Ports : /\ entries'[p].count = entries[p].count
                                /\ entries'[p].targets = entries[p].targets,
               Busy' => Busy /\ ctl'.cmd = ctl.cmd
        PROVE  RcInv'
    BY <1>2, QStay, RcFrame DEF Rec
  <1>3. CASE TakeSync
    <2>1. /\ queue # <<>> /\ Head(queue).kind = "sync" /\ queue' = Tail(queue)
          /\ UNCHANGED held /\ SyncOn(Head(queue), Known(entries), entries, interfaces)
      BY <1>3 DEF TakeSync
    <2>2. ~Asking(Head(queue))
      BY <2>1 DEF Asking
    <2>3. QFollow(Move)
      BY <2>1, QTail
    <2> QED
      BY <1>0, <1>1, <2>1, <2>2, <2>3
  <1>4. CASE TakeNet
    <2>1. UNCHANGED <<held, queue>> /\ SyncOn(Sync(None), Known(entries), entries, Renewed)
      BY <1>4 DEF TakeNet
    <2>2. ~Asking(Sync(None))
      BY DEF Asking, Sync
    <2>3. QFollow(Stay)
      BY <2>1, QStay
    <2> QED
      BY <1>0, <1>1, <2>1, <2>2, <2>3
  <1>5. CASE SkipRow
    BY <1>2, <1>5, SkipRowFacts DEF Busy
  <1>6. CASE ReuseRule
    <2>0. PICK row : row = Head(ctl.rows)
      OBVIOUS
    <2>1. row.ip \in Ips /\ ctl.port \in Ports
      BY <1>6, <2>0, RowType DEF ReuseRule, Row
    <2>2. /\ ctl.at = "rows" /\ ctl' = Kept(row) /\ UNCHANGED <<held, queue>>
      BY <1>6, <2>0, ReuseRuleFacts
    <2>3. PICK rc \in 1..3 : entries' = [entries EXCEPT ![ctl.port].forwards[row.ip] = rc]
      BY <1>6, <2>0, ReuseRuleFacts, ZenonT(60)
    <2>4. \A q \in Ports : /\ entries'[q].count = entries[q].count
                           /\ entries'[q].targets = entries[q].targets
      BY <2>1, <2>3, OneRef
    <2> QED
      BY <1>2, <2>2, <2>4, KeptFacts DEF Busy
  <1>7. CASE ChangeRule
    <2>0. PICK row : row = Head(ctl.rows)
      OBVIOUS
    <2> QED
      BY <1>2, <1>7, <2>0, ChangeRuleFacts DEF Busy
  <1>8. CASE Unforward
    BY <1>2, <1>8, UnforwardFacts DEF Busy
  <1>9. CASE Forward
    <2>0. PICK x : x = ctl.op.new.source
      OBVIOUS
    <2>1. /\ ctl.at = "forward" /\ ctl'.cmd = ctl.cmd /\ UNCHANGED <<held, queue>> /\ x \in Sources
          /\ entries' = [entries EXCEPT ![x[2]].forwards[x[1]] = FreshRc(x)]
      BY <1>9, <2>0, ForwardFacts
    <2>2. \A q \in Ports : /\ entries'[q].count = entries[q].count
                           /\ entries'[q].targets = entries[q].targets
      <3>1. x[1] \in Ips /\ x[2] \in Ports
        BY <2>1 DEF Sources
      <3> QED
        BY <2>1, <3>1, OneRef
    <2> QED
      BY <1>2, <2>1, <2>2 DEF Busy
  <1>10. CASE EndRows
    <2>1. CASE Asking(ctl.cmd)
      <3>1. /\ Answer(TRUE) /\ ctl' = Idle /\ queue' = queue /\ Busy
            /\ \A p \in Ports : /\ entries'[p].count = entries[p].count
                                /\ entries'[p].targets = entries[p].targets
        BY <1>10, <2>1, EndRowsFacts DEF Busy
      <3> QED
        BY <2>1, <3>1, RcLease
    <2>2. CASE ~Asking(ctl.cmd)
      <3>1. /\ SyncOn(ctl.cmd, ctl.ports, Ended, interfaces) /\ UNCHANGED <<held, queue>>
            /\ ctl.ports \in SUBSET Ports /\ Ended \in [Ports -> Entry]
            /\ \A q \in Ports : /\ Ended[q].count = entries[q].count
                                /\ Ended[q].targets = entries[q].targets
        BY <1>10, <2>2, EndRowsFacts
      <3>2. QFollow(Stay)
        BY <3>1, QStay
      <3> QED
        BY <1>1, <2>2, <3>1, <3>2
    <2> QED
      BY <2>1, <2>2
  <1>11. CASE GcRule
    <2>1. ctl.at = "gc" /\ ctl'.cmd = ctl.cmd /\ UNCHANGED <<held, queue, entries>>
      BY <1>11 DEF GcRule, TypeOK, Work
    <2> QED
      BY <1>2, <2>1 DEF Busy
  <1>12. CASE EndSync
    <2>1. ~Asking(ctl.cmd)
      BY <1>12 DEF EndSync, HandInv, InHand, Working, Busy
    <2>2. UNCHANGED <<held, queue, entries>> /\ ~Busy'
      BY <1>12, <2>1, IdleType DEF EndSync, Answer, Busy
    <2> QED
      BY <1>2, <2>2
  <1>13. CASE RemoveStale
    BY <1>2, <1>13 DEF RemoveStale, Busy
  <1> QED
    BY <1>3, <1>4, <1>5, <1>6, <1>7, <1>8, <1>9, <1>10, <1>11, <1>12, <1>13, RcForward
       DEF Controller

(* The environment's steps do. *)
LEMMA RcEnvironment ==
    ASSUME TypeOK, RcInv, Environment
    PROVE  RcInv'
  <1> USE DEF envVars, svcVars, ctlVars
  <1>1. ASSUME NEW s \in Services, NEW p \in Ports, NEW v, Change(s, p, v)
        PROVE  RcInv'
    BY <1>1, QStay, RcFrame DEF Change, Rec, Busy
  <1>2. ASSUME NEW n \in Nets, Rewire(n)
        PROVE  RcInv'
    BY <1>2, QStay, RcFrame DEF Rewire, Rec, Busy
  <1>3. ASSUME NEW s \in Services, Remove(s)
        PROVE  RcInv'
    <2>1. /\ UNCHANGED <<held, entries>>
          /\ queue' = [i \in DOMAIN queue |-> Forsake(queue[i], s)]
          /\ ctl' = [ctl EXCEPT !.cmd = Forsake(ctl.cmd, s)]
      BY <1>3 DEF Remove
    <2>2. QFollow(Stay)
      BY <2>1, QForsaken
    <2>3. ctl.cmd \in Command /\ ctl \in Work
      BY Types
    <2>4. ctl'.at = ctl.at /\ ctl'.cmd = Forsake(ctl.cmd, s)
      BY <2>1, <2>3 DEF Work
    <2>5. /\ Asking(ctl'.cmd) <=> Asking(ctl.cmd)
          /\ Asking(ctl.cmd) => /\ ctl'.cmd.rc = ctl.cmd.rc /\ ctl'.cmd.port = ctl.cmd.port
                                /\ ctl'.cmd.spec = ctl.cmd.spec
      BY <2>3, <2>4, ForsakeFacts
    <2> QED
      BY <2>1, <2>2, <2>4, <2>5, RcFrame DEF Rec, Busy
  <1>4. CASE Fail
    <2>1. held' = held
      BY <1>4 DEF Fail, Answer
    <2>2. UNCHANGED <<queue, entries>> /\ ~Busy'
      BY <1>4, IdleType DEF Fail, Busy
    <2> QED
      BY <2>1, <2>2, QStay, RcFrame DEF Rec
  <1>5. CASE Restart
    <2>1. queue' = <<>> /\ ~Busy' /\ \A p \in Ports, r \in Reqs : Rec(p, r)' = None
      BY <1>5, IdleType DEF Restart, Busy, Rec, NoEntry
    <2> QED
      BY <2>1 DEF RcInv, RcTargets, RcHeld, RcHand, RcQueue
  <1> QED
    BY <1>1, <1>2, <1>3, <1>4, <1>5 DEF Environment

(* The steps of a service do. *)
LEMMA RcTask ==
    ASSUME TypeOK, RcInv, NEW s \in Services, Task(s)
    PROVE  RcInv'
  <1> USE DEF envVars, svcVars, ctlVars
  <1>1. CASE Begin(s)
    BY <1>1, QStay, RcFrame DEF Begin, Rec, Busy
  <1>2. CASE Keep(s)
    BY <1>2, QStay, RcFrame DEF Keep, Rec, Busy
  <1>3. CASE Drop(s)
    <2> DEFINE p == Lowest(pass[s].todo)
    <2>1. p \in Ports
      <3>1. pass[s] \in Pass /\ pass[s].todo \in SUBSET Ports
        BY Types DEF Pass
      <3> QED
        BY <1>3, <3>1, LowestIn DEF Drop
    <2>2. held' = [held EXCEPT ![s][p] = None] /\ UNCHANGED <<queue, entries, ctl>>
      BY <1>3 DEF Drop
    <2> HIDE DEF p
    <2>3. \A a \in Services, b \in Ports :
             held'[a][b] = IF a = s /\ b = p THEN None ELSE held[a][b]
      BY <2>1, <2>2, Nested, Types DEF Holding
    <2> QED
      BY <2>2, <2>3, QStay, RcFrame DEF Rec, Busy
  <1>4. CASE Collect(s)
    <2>1. queue' = Append(queue, Sync(s)) /\ UNCHANGED <<held, entries, ctl>>
      BY <1>4 DEF Collect, Send
    <2> QED
      BY <2>1, QSync, RcFrame DEF Rec, Busy
  <1> QED
    BY <1>1, <1>2, <1>3, <1>4, RcAsk DEF Task

(* Spec => []RcInv: an Arc tells one lease. An entry whose weak reference   *)
(* is alive describes the very lease that is held, although targets are     *)
(* replaced and shared.                                                     *)
THEOREM LeasesAreTold == Spec => []RcInv
  <1>1. Init => RcInv
    <2> SUFFICES ASSUME Init PROVE RcInv
      OBVIOUS
    <2>1. queue = <<>> /\ ~Busy /\ \A p \in Ports, r \in Reqs : Rec(p, r) = None
      BY IdleType DEF Init, Busy, Rec, NoEntry
    <2> QED
      BY <2>1 DEF RcInv, RcTargets, RcHeld, RcHand, RcQueue
  <1>2. TypeOK /\ HandInv /\ RcInv /\ [Next]_vars => RcInv'
    <2> SUFFICES ASSUME TypeOK, HandInv, RcInv, [Next]_vars PROVE RcInv'
      OBVIOUS
    <2>1. CASE UNCHANGED vars
      BY <2>1, QStay, RcFrame DEF vars, envVars, svcVars, ctlVars, Rec, Busy
    <2> QED
      BY <2>1, RcEnvironment, RcController, RcTask DEF Next
  <1> QED
    BY <1>1, <1>2, ForwardsTypeCorrect, LeasesInHand, PTL DEF Spec

-----------------------------------------------------------------------------
(* The ports that an update or a sync goes through are known. *)
PortsKnown ==
    Working => /\ entries[ctl.port].count # 0
               /\ \A p \in ctl.ports : entries[p].count # 0
(* An entry that is not known is empty. *)
Unknown == \A p \in Ports : entries[p].count = 0 => entries[p] = NoEntry
(* What the gateways map, the entry has noted. *)
Mapped == \A x \in Sources : upstream[x] # 0 => x[1] \in entries[x[2]].mapped
(* The inductive invariant of entries. *)
EntryInv == PortsKnown /\ Unknown /\ Mapped

(* A step that leaves the entries alone. *)
LEMMA EntryQuiet ==
    ASSUME EntryInv, UNCHANGED <<entries, upstream>>,
           Working' => Working /\ ctl'.port = ctl.port /\ ctl'.ports = ctl.ports
    PROVE  EntryInv'
  BY DEF EntryInv, PortsKnown, Unknown, Mapped

(* A sync goes on. *)
LEMMA EntrySync ==
    ASSUME NEW c, NEW ports \in SUBSET Ports, NEW es \in [Ports -> Entry], NEW ifs,
           SyncOn(c, ports, es, ifs), \A p \in ports : es[p].count # 0,
           \A p \in Ports : es[p].count = 0 => es[p] = NoEntry,
           \A x \in Sources : upstream'[x] # 0 => x[1] \in es[x[2]].mapped
    PROVE  EntryInv'
  <1>1. \A p \in Ports : entries'[p].count = es[p].count /\ entries'[p].mapped = es[p].mapped
    <2>1. SyncOn(c, ports, es, ifs) /\ ports \in SUBSET Ports /\ es \in [Ports -> Entry]
      OBVIOUS
    <2> QED
      BY ONLY <2>1, SyncOnKeeps, ZenonT(60)
  <1>2. Mapped'
    <2> SUFFICES ASSUME NEW x \in Sources, upstream'[x] # 0
                 PROVE  x[1] \in entries'[x[2]].mapped
      BY DEF Mapped
    <2>1. x[2] \in Ports
      BY DEF Sources
    <2> QED
      BY <1>1, <2>1
  <1>3. CASE ports # {}
    <2> DEFINE q == Lowest(ports)
    <2>1. q \in ports
      BY <1>3, LowestIn
    <2>2. entries' = [es EXCEPT ![q] = Retained(es[q])] /\ ctl' = Update(c, q, ports \ {q}, ifs)
      BY <1>3 DEF SyncOn
    <2> HIDE DEF q
    <2>3. ctl'.port = q /\ ctl'.ports = ports \ {q}
      BY <2>2 DEF Update, Idle
    <2>4. PortsKnown'
      BY <1>1, <2>1, <2>3 DEF PortsKnown
    <2>5. Unknown'
      <3> SUFFICES ASSUME NEW p \in Ports, entries'[p].count = 0
                   PROVE  entries'[p] = NoEntry
        BY DEF Unknown
      <3>1. p # q /\ es[p] = NoEntry
        BY <1>1, <2>1
      <3> QED
        BY <2>2, <3>1
    <2> QED
      BY <1>2, <2>4, <2>5 DEF EntryInv
  <1>4. CASE ports = {}
    <2>1. entries' = es /\ ctl'.at = "gc"
      BY <1>4 DEF SyncOn, Idle
    <2> QED
      BY <1>2, <2>1 DEF EntryInv, PortsKnown, Unknown, Working
  <1> QED
    BY <1>3, <1>4

(* The controller's steps keep entries in order. *)
LEMMA EntryController ==
    ASSUME TypeOK, SyncInv, EntryInv, Controller
    PROVE  EntryInv'
  <1> USE DEF envVars, svcVars, ctlVars
  <1>0. entries \in [Ports -> Entry] /\ Known(entries) \in SUBSET Ports
        /\ \A p \in Known(entries) : entries[p].count # 0
    BY Types DEF Known
  <1>1. CASE TakeSync
    <2>1. SyncOn(Head(queue), Known(entries), entries, interfaces) /\ upstream' = upstream
      BY <1>1 DEF TakeSync
    <2> QED
      BY <1>0, <2>1, EntrySync DEF EntryInv, Unknown, Mapped
  <1>2. CASE TakeNet
    <2>1. SyncOn(Sync(None), Known(entries), entries, Renewed) /\ upstream' = upstream
      BY <1>2 DEF TakeNet
    <2> QED
      BY <1>0, <2>1, EntrySync DEF EntryInv, Unknown, Mapped
  <1>3. CASE TakeForward
    <2> DEFINE c == Head(queue)
               e == Requested(entries[c.port], c)
    <2>1. /\ queue # <<>> /\ Asking(c) /\ upstream' = upstream
          /\ entries' = [entries EXCEPT ![c.port] = e]
          /\ ctl'.port = c.port /\ ctl'.ports = {}
      BY <1>3 DEF TakeForward, Update, Idle
    <2>2. c \in Command
      BY <2>1, Types
    <2>3. c.port \in Ports /\ c.spec \in Forwards /\ entries[c.port] \in Entry
      BY <2>1, <2>2, CommandFacts, Types
    <2>4. e.count = c.spec.count /\ e.mapped = entries[c.port].mapped
      BY <2>1, <2>2, <2>3, RequestedFacts, RequestedRecs
    <2> HIDE DEF c, e
    <2>5. e.count # 0
      BY <2>3, <2>4, CountsAssumption DEF Forwards
    <2>6. entries'[c.port] = e /\ \A q \in Ports \ {c.port} : entries'[q] = entries[q]
      BY <2>1, <2>3, Types
    <2>7. PortsKnown' /\ Unknown'
      BY <2>1, <2>5, <2>6 DEF EntryInv, PortsKnown, Unknown
    <2>8. Mapped'
      <3> SUFFICES ASSUME NEW x \in Sources, upstream[x] # 0
                   PROVE  x[1] \in entries'[x[2]].mapped
        BY <2>1 DEF Mapped
      <3>1. x[2] \in Ports /\ x[1] \in entries[x[2]].mapped
        BY DEF Sources, EntryInv, Mapped
      <3> QED
        BY <2>4, <2>6, <3>1
    <2> QED
      BY <2>7, <2>8 DEF EntryInv
  <1>4. CASE SkipRow
    BY <1>4, SkipRowFacts, EntryQuiet DEF Working
  <1>5. ASSUME Working, Working', ctl'.port = ctl.port, ctl'.ports = ctl.ports, upstream' = upstream,
               NEW i \in Ips, NEW rc, entries' = [entries EXCEPT ![ctl.port].forwards[i] = rc]
        PROVE  EntryInv'
    <2>1. ctl.port \in Ports /\ ctl.ports \in SUBSET Ports
      BY <1>5 DEF TypeOK, Working, Work
    <2>2. \A q \in Ports : entries'[q].count = entries[q].count /\ entries'[q].mapped = entries[q].mapped
      BY <1>5, <2>1, OneRef
    <2>3. \A q \in Ports \ {ctl.port} : entries'[q] = entries[q]
      BY <1>5, <2>1, Types
    <2>4. PortsKnown' /\ Unknown'
      BY <1>5, <2>1, <2>2, <2>3 DEF EntryInv, PortsKnown, Unknown
    <2>5. Mapped'
      <3> SUFFICES ASSUME NEW x \in Sources, upstream[x] # 0
                   PROVE  x[1] \in entries'[x[2]].mapped
        BY <1>5 DEF Mapped
      <3>1. x[2] \in Ports /\ x[1] \in entries[x[2]].mapped
        BY DEF Sources, EntryInv, Mapped
      <3> QED
        BY <2>2, <3>1
    <2> QED
      BY <2>4, <2>5 DEF EntryInv
  <1>6. CASE ReuseRule
    <2>0. PICK row : row = Head(ctl.rows)
      OBVIOUS
    <2>1. row.ip \in Ips
      BY <1>6, <2>0, RowType DEF ReuseRule, Row
    <2>2. /\ ctl.at = "rows" /\ ctl'.at = "rows" /\ ctl' = Kept(row) /\ upstream' = upstream
      BY <1>6, <2>0, ReuseRuleFacts
    <2>3. PICK rc \in 1..3 : entries' = [entries EXCEPT ![ctl.port].forwards[row.ip] = rc]
      BY <1>6, <2>0, ReuseRuleFacts, ZenonT(60)
    <2>4. ctl'.port = ctl.port /\ ctl'.ports = ctl.ports
      BY <2>2, KeptFacts
    <2> QED
      BY <1>5, <2>1, <2>2, <2>3, <2>4 DEF Working
  <1>7. CASE ChangeRule
    <2>0. PICK row : row = Head(ctl.rows)
      OBVIOUS
    <2> QED
      BY <1>7, <2>0, ChangeRuleFacts, EntryQuiet DEF Working
  <1>8. CASE Unforward
    BY <1>8, UnforwardFacts, EntryQuiet DEF Working
  <1>9. CASE Forward
    <2>0. PICK x : x = ctl.op.new.source
      OBVIOUS
    <2>1. /\ ctl.at = "forward" /\ ctl'.at = "rows" /\ ctl'.port = ctl.port
          /\ ctl'.ports = ctl.ports /\ upstream' = upstream /\ x \in Sources
          /\ entries' = [entries EXCEPT ![x[2]].forwards[x[1]] = FreshRc(x)]
      BY <1>9, <2>0, ForwardFacts
    <2>2. x[2] = ctl.port /\ x[1] \in Ips
      BY <2>0, <2>1 DEF SyncInv, KeepAlive, Working, Sources
    <2>3. entries' = [entries EXCEPT ![ctl.port].forwards[x[1]] = FreshRc(x)]
      BY <2>1, <2>2
    <2> QED
      BY <1>5, <2>1, <2>2, <2>3 DEF Working
  <1>10. CASE EndRows
    <2>1. /\ ctl.at = "rows" /\ ctl.port \in Ports /\ ctl.ports \in SUBSET Ports
          /\ Ended \in [Ports -> Entry]
          /\ \A q \in Ports : /\ Ended[q].count = entries[q].count
                              /\ q # ctl.port => Ended[q] = entries[q]
          /\ Ended[ctl.port].mapped = ctl.wanted
          /\ \A x \in Sources : upstream'[x] =
                 IF x[2] # ctl.port THEN upstream[x]
                 ELSE IF x[1] \in ctl.wanted THEN entries[ctl.port].count
                 ELSE IF x[1] \in entries[ctl.port].mapped THEN 0 ELSE upstream[x]
          /\ Asking(ctl.cmd) => entries' = Ended /\ ctl' = Idle
          /\ ~Asking(ctl.cmd) => SyncOn(ctl.cmd, ctl.ports, Ended, interfaces)
      BY <1>10, EndRowsFacts
    <2>2. entries[ctl.port].count # 0 /\ \A p \in ctl.ports : entries[p].count # 0
      BY <2>1 DEF EntryInv, PortsKnown, Working
    <2>3. \A p \in Ports : Ended[p].count = 0 => Ended[p] = NoEntry
      BY <2>1, <2>2 DEF EntryInv, Unknown
    <2>4. ASSUME NEW x \in Sources, upstream'[x] # 0
          PROVE  x[1] \in Ended[x[2]].mapped
      <3>1. x[2] \in Ports
        BY DEF Sources
      <3>2. CASE x[2] # ctl.port
        BY <2>1, <2>4, <3>1, <3>2 DEF EntryInv, Mapped
      <3>3. CASE x[2] = ctl.port
        <4>1. x[1] \in ctl.wanted
          BY <2>1, <2>4, <3>3 DEF EntryInv, Mapped
        <4> QED
          BY <2>1, <3>3, <4>1
      <3> QED
        BY <3>2, <3>3
    <2>5. CASE Asking(ctl.cmd)
      <3>1. entries' = Ended /\ ctl'.at = "idle"
        BY <2>1, <2>5, IdleType
      <3> QED
        BY <2>3, <2>4, <3>1 DEF EntryInv, PortsKnown, Unknown, Mapped, Working
    <2>6. CASE ~Asking(ctl.cmd)
      <3>1. \A p \in ctl.ports : Ended[p].count # 0
        BY <2>1, <2>2
      <3> QED
        BY <2>1, <2>3, <2>4, <2>6, <3>1, EntrySync
    <2> QED
      BY <2>5, <2>6
  <1>11. CASE GcRule
    <2>1. UNCHANGED <<entries, upstream>> /\ ctl'.at = "gc"
      BY <1>11 DEF GcRule, TypeOK, Work
    <2> QED
      BY <2>1, EntryQuiet DEF Working
  <1>12. CASE EndSync
    BY <1>12, IdleType, EntryQuiet DEF EndSync, Working
  <1>13. CASE RemoveStale
    BY <1>13, EntryQuiet DEF RemoveStale, Working
  <1> QED
    BY <1>1, <1>2, <1>3, <1>4, <1>6, <1>7, <1>8, <1>9, <1>10, <1>11, <1>12, <1>13
       DEF Controller

(* The environment's steps do. *)
LEMMA EntryEnvironment ==
    ASSUME TypeOK, EntryInv, Environment
    PROVE  EntryInv'
  <1> USE DEF envVars, svcVars, ctlVars
  <1>1. ASSUME NEW s \in Services, NEW p \in Ports, NEW v, Change(s, p, v)
        PROVE  EntryInv'
    BY <1>1, EntryQuiet DEF Change, Working
  <1>2. ASSUME NEW n \in Nets, Rewire(n)
        PROVE  EntryInv'
    BY <1>2, EntryQuiet DEF Rewire, Working
  <1>3. ASSUME NEW s \in Services, Remove(s)
        PROVE  EntryInv'
    <2>1. /\ UNCHANGED <<entries, upstream>>
          /\ ctl'.at = ctl.at /\ ctl'.port = ctl.port /\ ctl'.ports = ctl.ports
      BY <1>3 DEF Remove, TypeOK, Work
    <2> QED
      BY <2>1, EntryQuiet DEF Working
  <1>4. CASE Fail
    BY <1>4, IdleType, EntryQuiet DEF Fail, Working
  <1>5. CASE Restart
    <2>1. /\ \A p \in Ports : entries'[p] = NoEntry
          /\ \A x \in Sources : upstream'[x] = 0
          /\ ctl'.at = "idle"
      BY <1>5, IdleType DEF Restart
    <2> QED
      BY <2>1 DEF EntryInv, PortsKnown, Unknown, Mapped, Working
  <1> QED
    BY <1>1, <1>2, <1>3, <1>4, <1>5 DEF Environment

(* Spec => []EntryInv: a sync goes through every entry that is in use, and  *)
(* the gateways map nothing that no entry has noted.                        *)
THEOREM EntriesInOrder == Spec => []EntryInv
  <1>1. Init => EntryInv
    <2> SUFFICES ASSUME Init PROVE EntryInv
      OBVIOUS
    <2>1. /\ \A p \in Ports : entries[p] = NoEntry
          /\ \A x \in Sources : upstream[x] = 0
          /\ ctl.at = "idle"
      BY IdleType DEF Init
    <2> QED
      BY <2>1 DEF EntryInv, PortsKnown, Unknown, Mapped, Working
  <1>2. TypeOK /\ SyncInv /\ EntryInv /\ [Next]_vars => EntryInv'
    <2> SUFFICES ASSUME TypeOK, SyncInv, EntryInv, [Next]_vars PROVE EntryInv'
      OBVIOUS
    <2>1. CASE UNCHANGED vars
      BY <2>1, EntryQuiet DEF vars, envVars, svcVars, ctlVars, Working
    <2>2. ASSUME NEW s \in Services, Task(s)
          PROVE  EntryInv'
      BY <2>2, TaskSoftens, EntryQuiet DEF Working
    <2> QED
      BY <2>1, <2>2, EntryEnvironment, EntryController DEF Next
  <1> QED
    BY <1>1, <1>2, ForwardsTypeCorrect, SyncGoesThrough, PTL DEF Spec

-----------------------------------------------------------------------------
(* Every lease is that of its port's owner, and no port has changed hands   *)
(* too early.                                                               *)
AllFirm == ~rushed /\ \A s \in Services, p \in Ports : held[s][p] # None => owner[p] = s
(* The lease of s on p calls for a rule at row i of the interfaces. *)
Called(s, p, i) ==
    /\ held[s][p] # None
    /\ Opens(held[s][p].spec.reqs, interfaces[i])
    /\ \A k \in 1..(i - 1) : interfaces[k].ip = interfaces[i].ip =>
          ~Opens(held[s][p].spec.reqs, interfaces[k])
(* The rule it calls for. *)
CalledRule(s, p, i) ==
    Rule(<<interfaces[i].ip, p>>, held[s][p].spec.target, held[s][p].spec.count,
         Filter(held[s][p].spec.reqs, interfaces[i]))
(* The addresses kept and wanted are the ones called for in the first n     *)
(* rows, and the rules there are the ones called for.                       *)
Exact(p, n, keep, wanted) ==
    /\ \A s \in Services, i \in 1..n : Called(s, p, i) =>
          /\ interfaces[i].ip \in keep
          /\ Alive(<<interfaces[i].ip, p>>) =>
                mappings[<<interfaces[i].ip, p>>].rule = CalledRule(s, p, i)
          /\ interfaces[i].ip \in wanted <=> Filter(held[s][p].spec.reqs, interfaces[i]) = "any"
    /\ \A ip \in keep : \E s \in Services, i \in 1..n : Called(s, p, i) /\ interfaces[i].ip = ip
    /\ wanted \subseteq keep
(* The gateways are asked to map what the entry has noted. *)
Mirrored(p) ==
    \A ip \in Ips : upstream[<<ip, p>>] = IF ip \in entries[p].mapped THEN entries[p].count ELSE 0
(* The addresses whose rules the entry refers to. *)
Referred(p) == {ip \in Ips : entries[p].forwards[ip] # 0}
(* The sync is done with port p. *)
Finished(p) ==
    /\ Exact(p, Len(interfaces), Referred(p), entries[p].mapped)
    /\ \A ip \in Referred(p) : Alive(<<ip, p>>)
    /\ Mirrored(p)
(* The rule in hand is the one called for. *)
Planned ==
    \A s \in Services, i \in 1..Seen :
        Called(s, ctl.port, i) /\ <<interfaces[i].ip, ctl.port>> = ctl.op.new.source =>
            ctl.op.new = CalledRule(s, ctl.port, i)
(* After a sync has begun, and until a lease comes or goes or a script      *)
(* fails, the ports it is done with are in order, as is what it has seen    *)
(* of the one it works on.                                                  *)
SettledInv ==
    settled # "no" /\ AllFirm =>
        /\ \A p \in Ports : (~Working \/ p \notin ctl.ports \cup {ctl.port}) => Finished(p)
        /\ Working => Exact(ctl.port, Seen, ctl.keep, ctl.wanted)
        /\ Working /\ ctl.at # "rows" => Planned
(* Where the controller is meanwhile; at the end no rule is left that       *)
(* nobody refers to.                                                        *)
SettledAt ==
    /\ settled = "pass" => Busy /\ ~Asking(ctl.cmd)
    /\ settled = "yes" => ~Busy /\ up /\ \A x \in Sources : mappings[x] # None => Alive(x)
(* The inductive invariant of a sync that succeeds. *)
RestInv == SettledInv /\ SettledAt

(* There is no such sync. *)
LEMMA RestNo ==
    ASSUME settled' = "no"
    PROVE  RestInv'
  BY DEF RestInv, SettledInv, SettledAt

(* Nothing that a lease calls for changes as long as leases, interfaces and *)
(* rules stay.                                                              *)
LEMMA CalledSame ==
    ASSUME NEW p, \A s \in Services : held'[s][p] = held[s][p], interfaces' = interfaces
    PROVE  \A s \in Services : \A i :
              /\ Called(s, p, i)' <=> Called(s, p, i)
              /\ CalledRule(s, p, i)' = CalledRule(s, p, i)
  BY DEF Called, CalledRule, Opens, AllowsGateway, PublicOn, Rule, Filter

(* What the update of a port has gone through stays exact, when the rules   *)
(* that come alive are the ones called for.                                 *)
LEMMA ExactKeeps ==
    ASSUME NEW p, NEW n, NEW keep, NEW wanted, Exact(p, n, keep, wanted),
           \A s \in Services : held'[s][p] = held[s][p], interfaces' = interfaces,
           \A s \in Services, i \in 1..n :
              Called(s, p, i) /\ Alive(<<interfaces[i].ip, p>>)' =>
                 mappings'[<<interfaces[i].ip, p>>].rule = CalledRule(s, p, i)
    PROVE  Exact(p, n, keep, wanted)'
  <1>1. \A s \in Services : \A i :
              /\ Called(s, p, i)' <=> Called(s, p, i)
              /\ CalledRule(s, p, i)' = CalledRule(s, p, i)
    BY CalledSame
  <1>2. \A s \in Services, i \in 1..n : Called(s, p, i) =>
          /\ interfaces[i].ip \in keep
          /\ interfaces[i].ip \in wanted <=> Filter(held[s][p].spec.reqs, interfaces[i]) = "any"
    BY DEF Exact
  <1>3. \A ip \in keep : \E s \in Services, i \in 1..n : Called(s, p, i) /\ interfaces[i].ip = ip
    BY DEF Exact
  <1>4. \A s \in Services, i \in 1..n : Called(s, p, i)' =>
          /\ interfaces'[i].ip \in keep
          /\ Alive(<<interfaces[i].ip, p>>)' =>
                mappings'[<<interfaces'[i].ip, p>>].rule = CalledRule(s, p, i)'
          /\ interfaces'[i].ip \in wanted <=> Filter(held'[s][p].spec.reqs, interfaces'[i]) = "any"
    BY <1>1, <1>2
  <1>5. \A ip \in keep : \E s \in Services, i \in 1..n : Called(s, p, i)' /\ interfaces'[i].ip = ip
    BY <1>1, <1>3
  <1>6. wanted \subseteq keep
    BY DEF Exact
  <1> QED
    BY <1>4, <1>5, <1>6 DEF Exact, Filter, PublicOn

(* The same, when no rule kept comes alive. *)
LEMMA ExactSame ==
    ASSUME NEW p, NEW n, NEW keep, NEW wanted, Exact(p, n, keep, wanted),
           \A s \in Services : held'[s][p] = held[s][p], interfaces' = interfaces,
           \A i \in 1..n : LET x == <<interfaces[i].ip, p>> IN
              interfaces[i].ip \in keep /\ Alive(x)' =>
                  Alive(x) /\ mappings'[x].rule = mappings[x].rule
    PROVE  Exact(p, n, keep, wanted)'
  <1>1. \A s \in Services, i \in 1..n :
              Called(s, p, i) /\ Alive(<<interfaces[i].ip, p>>)' =>
                 mappings'[<<interfaces[i].ip, p>>].rule = CalledRule(s, p, i)
    BY DEF Exact
  <1> QED
    BY <1>1, ExactKeeps

(* A port that is done with stays so. *)
LEMMA FinishedSame ==
    ASSUME TypeOK, NEW p \in Ports, Finished(p),
           \A s \in Services : held'[s][p] = held[s][p], interfaces' = interfaces,
           entries'[p].count = entries[p].count, entries'[p].mapped = entries[p].mapped,
           \A ip \in Ips : entries'[p].forwards[ip] = entries[p].forwards[ip],
           \A ip \in Ips : upstream'[<<ip, p>>] = upstream[<<ip, p>>],
           \A ip \in Ips : /\ Alive(<<ip, p>>)' <=> Alive(<<ip, p>>)
                           /\ Alive(<<ip, p>>) => mappings'[<<ip, p>>].rule = mappings[<<ip, p>>].rule
    PROVE  Finished(p)'
  <1>1. Referred(p)' = Referred(p)
    BY DEF Referred
  <1>2. PICK n, keep, wanted : n = Len(interfaces) /\ keep = Referred(p) /\ wanted = entries[p].mapped
    OBVIOUS
  <1>3. Exact(p, n, keep, wanted)
    BY <1>2 DEF Finished
  <1>4. \A i \in 1..n : interfaces[i].ip \in Ips
    BY <1>2, RowSource
  <1>5. Exact(p, n, keep, wanted)'
    BY <1>3, <1>4, ExactSame
  <1>6. n = Len(interfaces') /\ keep = Referred(p)' /\ wanted = entries'[p].mapped
    BY <1>1, <1>2
  <1>7. Exact(p, Len(interfaces), Referred(p), entries[p].mapped)'
    BY <1>5, <1>6
  <1>8. Mirrored(p)'
    BY DEF Finished, Mirrored
  <1>9. \A ip \in Referred(p)' : Alive(<<ip, p>>)'
    BY <1>1 DEF Finished, Referred
  <1> QED
    BY <1>7, <1>8, <1>9 DEF Finished

(* A step that leaves leases, rules and the controller's work alone. *)
LEMMA RestQuiet ==
    ASSUME TypeOK, RestInv, Softer, held' = held, settled' = settled,
           UNCHANGED <<interfaces, entries, mappings, upstream>>, up => up',
           ctl'.at = ctl.at, ctl'.port = ctl.port, ctl'.ports = ctl.ports, ctl'.op = ctl.op,
           ctl'.rows = ctl.rows, ctl'.keep = ctl.keep, ctl'.wanted = ctl.wanted,
           Asking(ctl'.cmd) <=> Asking(ctl.cmd)
    PROVE  RestInv'
  <1>1. \A x : Alive(x)' <=> Alive(x)
    BY DEF Alive
  <1>2. SettledAt'
    BY <1>1 DEF RestInv, SettledAt, Busy, Asking
  <1>3. SettledInv'
    <2> SUFFICES ASSUME settled # "no", AllFirm'
                 PROVE  /\ \A p \in Ports : (~Working \/ p \notin ctl.ports \cup {ctl.port})
                              => Finished(p)'
                        /\ Working => Exact(ctl.port, Seen, ctl.keep, ctl.wanted)'
                        /\ Working /\ ctl.at # "rows" => Planned'
      BY DEF SettledInv, Working
    <2>1. AllFirm
      BY DEF AllFirm, Softer, Firm
    <2>2. /\ \A p \in Ports : (~Working \/ p \notin ctl.ports \cup {ctl.port}) => Finished(p)
          /\ Working => Exact(ctl.port, Seen, ctl.keep, ctl.wanted)
          /\ Working /\ ctl.at # "rows" => Planned
      BY <2>1 DEF RestInv, SettledInv
    <2>3. \A p \in Ports : Finished(p) => Finished(p)'
      BY <1>1, FinishedSame
    <2>4. PICK p, n, keep, wanted : p = ctl.port /\ n = Seen /\ keep = ctl.keep /\ wanted = ctl.wanted
      OBVIOUS
    <2>5. Exact(p, n, keep, wanted) => Exact(p, n, keep, wanted)'
      BY <1>1, ExactSame
    <2>6. p = ctl'.port /\ n = Seen' /\ keep = ctl'.keep /\ wanted = ctl'.wanted
      BY <2>4 DEF Seen
    <2>7. Exact(ctl.port, Seen, ctl.keep, ctl.wanted) => Exact(ctl.port, Seen, ctl.keep, ctl.wanted)'
      BY <2>4, <2>5, <2>6
    <2>8. \A s \in Services : \A i :
              /\ Called(s, p, i)' <=> Called(s, p, i)
              /\ CalledRule(s, p, i)' = CalledRule(s, p, i)
      BY CalledSame
    <2>9. Planned => Planned'
      BY <2>4, <2>6, <2>8 DEF Planned
    <2> QED
      BY <2>2, <2>3, <2>7, <2>9
  <1> QED
    BY <1>2, <1>3 DEF RestInv

(* When every lease is of use, whoever opens a row is the one service that  *)
(* holds a lease on the port.                                               *)
LEMMA OnlyHolder ==
    ASSUME HandInv, AllFirm, NEW p \in Ports, NEW s \in Services, NEW o \in Services,
           held[s][p] # None, held[o][p] # None
    PROVE  s = o
  BY DEF AllFirm, HandInv, OneClaim, Claims

(* The requirements that open the row are those of its lease, and the rule  *)
(* asked for is what it calls for.                                          *)
LEMMA OnlyOpener ==
    ASSUME TypeOK, HandInv, RcInv, AllFirm, ~Asking(ctl.cmd), NEW p \in Ports, p = ctl.port,
           NEW row, Openers(row) # {}
    PROVE  \E s \in Services :
              /\ held[s][p] # None /\ Opens(held[s][p].spec.reqs, row)
              /\ Lowest(Openers(row)) = held[s][p].spec.reqs
              /\ Asked(row) = Rule(<<row.ip, p>>, held[s][p].spec.target, held[s][p].spec.count,
                                   Filter(held[s][p].spec.reqs, row))
  <1>1. PICK r : r = Lowest(Openers(row))
    OBVIOUS
  <1>2. r \in Openers(row)
    <2>1. Openers(row) \in SUBSET Reqs
      BY DEF Openers
    <2> QED
      BY <1>1, <2>1, LowestIn
  <1>3. r \in Reqs /\ Rec(p, r) # None /\ Rec(p, r).rc \in Live /\ Opens(r, row)
    BY <1>2 DEF Openers, Rec
  <1>4. ASSUME NEW i \in DOMAIN queue, Asking(queue[i]), queue[i].rc = Rec(p, r).rc
        PROVE  FALSE
    <2>1. i \in 1..Len(queue)
      BY <1>4, Types
    <2> QED
      BY <1>3, <1>4, <2>1 DEF RcInv, RcQueue
  <1>5. PICK s \in Services, q \in Ports : held[s][q] # None /\ held[s][q].rc = Rec(p, r).rc
    BY <1>3, <1>4, LiveIs
  <1>6. p = q /\ held[s][q].spec = [target |-> Rec(p, r).target, count |-> entries[p].count,
                                  reqs |-> r]
    BY <1>3, <1>5 DEF RcInv, RcHeld
  <1>7. /\ held[s][p].spec.reqs = r /\ held[s][p].spec.target = entries[p].targets[r].target
        /\ held[s][p].spec.count = entries[p].count
    BY <1>6 DEF Rec
  <1>8. Asked(row) = Rule(<<row.ip, p>>, entries[p].targets[r].target, entries[p].count,
                          Filter(r, row))
    BY <1>1 DEF Asked, At
  <1>9. Asked(row) = Rule(<<row.ip, p>>, held[s][p].spec.target, held[s][p].spec.count,
                                   Filter(held[s][p].spec.reqs, row))
    BY <1>7, <1>8
  <1> QED
    BY <1>1, <1>3, <1>5, <1>6, <1>7, <1>9

(* The update goes on past a row that no lease calls for. *)
LEMMA ExactSkip ==
    ASSUME NEW p, NEW n \in Nat, NEW keep, NEW wanted, Exact(p, n, keep, wanted)',
           \A s \in Services : ~Called(s, p, n + 1)'
    PROVE  Exact(p, n + 1, keep, wanted)'
  <1>1. \A i \in 1..(n + 1) : i \in 1..n \/ i = n + 1
    OBVIOUS
  <1>2. \A i \in 1..n : i \in 1..(n + 1)
    OBVIOUS
  <1>3. \A s \in Services, i \in 1..(n + 1) : Called(s, p, i)' =>
          /\ interfaces'[i].ip \in keep
          /\ Alive(<<interfaces[i].ip, p>>)' =>
                mappings'[<<interfaces'[i].ip, p>>].rule = CalledRule(s, p, i)'
          /\ interfaces'[i].ip \in wanted
                <=> Filter(held[s][p].spec.reqs, interfaces[i])' = "any"
    BY <1>1 DEF Exact
  <1>4. \A ip \in keep : \E s \in Services, i \in 1..(n + 1) :
            Called(s, p, i)' /\ interfaces'[i].ip = ip
    BY <1>2 DEF Exact
  <1> QED
    BY <1>3, <1>4 DEF Exact

(* The update goes on past a row that the lease of s calls for. *)
LEMMA ExactAdd ==
    ASSUME NEW p, NEW n \in Nat, NEW keep, NEW wanted, Exact(p, n, keep, wanted)',
           NEW s \in Services, Called(s, p, n + 1)',
           \A o \in Services : Called(o, p, n + 1)' => o = s,
           NEW ip, ip = interfaces'[n + 1].ip, ip \notin keep,
           Alive(<<ip, p>>)' => mappings'[<<ip, p>>].rule = CalledRule(s, p, n + 1)',
           NEW keep2, keep2 = keep \cup {ip},
           NEW wanted2, wanted2 = IF Filter(held[s][p].spec.reqs, interfaces[n + 1])' = "any"
                                    THEN wanted \cup {ip} ELSE wanted
    PROVE  Exact(p, n + 1, keep2, wanted2)'
  <1>1. \A i \in 1..(n + 1) : i \in 1..n \/ i = n + 1
    OBVIOUS
  <1>2. n + 1 \in 1..(n + 1) /\ \A i \in 1..n : i \in 1..(n + 1)
    OBVIOUS
  <1>3. ASSUME NEW o \in Services, NEW i \in 1..n, Called(o, p, i)'
        PROVE  /\ interfaces'[i].ip \in keep2
               /\ Alive(<<interfaces[i].ip, p>>)' =>
                     mappings'[<<interfaces'[i].ip, p>>].rule = CalledRule(o, p, i)'
               /\ interfaces'[i].ip \in wanted2
                     <=> Filter(held[o][p].spec.reqs, interfaces[i])' = "any"
    <2>1. /\ interfaces'[i].ip \in keep
          /\ Alive(<<interfaces[i].ip, p>>)' =>
                     mappings'[<<interfaces'[i].ip, p>>].rule = CalledRule(o, p, i)'
          /\ interfaces'[i].ip \in wanted
                     <=> Filter(held[o][p].spec.reqs, interfaces[i])' = "any"
      BY <1>3 DEF Exact
    <2> QED
      BY <2>1
  <1>4. /\ interfaces'[n + 1].ip \in keep2
        /\ Alive(<<interfaces[n + 1].ip, p>>)' =>
              mappings'[<<interfaces'[n + 1].ip, p>>].rule = CalledRule(s, p, n + 1)'
    BY DEF Alive
  <1>5. interfaces'[n + 1].ip \in wanted2
            <=> Filter(held[s][p].spec.reqs, interfaces[n + 1])' = "any"
    <2>1. ip \notin wanted
      BY DEF Exact
    <2> QED
      BY <2>1
  <1>6. \A o \in Services, i \in 1..(n + 1) : Called(o, p, i)' =>
               /\ interfaces'[i].ip \in keep2
               /\ Alive(<<interfaces[i].ip, p>>)' =>
                     mappings'[<<interfaces'[i].ip, p>>].rule = CalledRule(o, p, i)'
               /\ interfaces'[i].ip \in wanted2
                     <=> Filter(held[o][p].spec.reqs, interfaces[i])' = "any"
    BY <1>1, <1>3, <1>4, <1>5
  <1>7. \A a \in keep2 : \E o \in Services, i \in 1..(n + 1) :
            Called(o, p, i)' /\ interfaces'[i].ip = a
    <2> SUFFICES ASSUME NEW a \in keep2
                 PROVE  \E o \in Services, i \in 1..(n + 1) : Called(o, p, i)' /\ interfaces'[i].ip = a
      OBVIOUS
    <2>1. CASE a = ip
      BY <1>2, <2>1
    <2>2. CASE a # ip
      <3>1. \E o \in Services, i \in 1..n : Called(o, p, i)' /\ interfaces'[i].ip = a
        BY <2>2 DEF Exact
      <3> QED
        BY <1>2, <3>1
    <2> QED
      BY <2>1, <2>2
  <1>8. wanted2 \subseteq keep2
    BY DEF Exact
  <1> QED
    BY <1>6, <1>7, <1>8 DEF Exact

(* What the steps of an update have in common: the port changes, the others *)
(* stay as they are.                                                        *)
LEMMA RestWork ==
    ASSUME TypeOK, RestInv, Working, Working', ctl'.cmd = ctl.cmd,
           ctl'.port = ctl.port, ctl'.ports = ctl.ports,
           UNCHANGED <<want, owner, rushed, held, interfaces, upstream, settled>>,
           \A q \in Ports \ {ctl.port} : entries'[q] = entries[q],
           \A x \in Sources : x[2] # ctl.port => mappings'[x] = mappings[x],
           settled = "pass" /\ AllFirm /\ ~Asking(ctl.cmd) =>
               /\ Exact(ctl.port, Seen, ctl.keep, ctl.wanted)'
               /\ ctl'.at # "rows" => Planned'
    PROVE  RestInv'
  <1>1. Busy /\ Busy' /\ settled # "yes"
    BY DEF Working, Busy, RestInv, SettledAt
  <1>2. SettledAt'
    BY <1>1 DEF RestInv, SettledAt, Asking
  <1>3. SettledInv'
    <2> SUFFICES ASSUME settled # "no", AllFirm'
                 PROVE  /\ \A p \in Ports : p \notin ctl.ports \cup {ctl.port} => Finished(p)'
                        /\ Exact(ctl.port, Seen, ctl.keep, ctl.wanted)'
                        /\ ctl'.at # "rows" => Planned'
      BY DEF SettledInv
    <2>1. AllFirm /\ settled = "pass" /\ ~Asking(ctl.cmd)
      BY <1>1 DEF AllFirm, TypeOK, RestInv, SettledAt
    <2>2. ASSUME NEW p \in Ports, p \notin ctl.ports \cup {ctl.port}
          PROVE  Finished(p)'
      <3>1. Finished(p)
        BY <2>1, <2>2 DEF RestInv, SettledInv
      <3>2. \A ip \in Ips : <<ip, p>> \in Sources /\ <<ip, p>>[2] = p
        BY DEF Sources
      <3>3. \A ip \in Ips : mappings'[<<ip, p>>] = mappings[<<ip, p>>]
        BY <2>2, <3>2
      <3>4. entries'[p] = entries[p]
        BY <2>2
      <3>5. \A ip \in Ips : Alive(<<ip, p>>)' <=> Alive(<<ip, p>>)
        BY <3>3, <3>4 DEF Alive
      <3> QED
        BY <3>1, <3>3, <3>4, <3>5, FinishedSame
    <2> QED
      BY <2>1, <2>2
  <1> QED
    BY <1>2, <1>3 DEF RestInv

(* The update passes over a row: its address is served, and not for this    *)
(* row, or no lease opens it.                                               *)
LEMMA RestSkip ==
    ASSUME TypeOK, HandInv, SyncInv, RestInv, SkipRow
    PROVE  RestInv'
  <1>1. /\ ctl.at = "rows" /\ ctl'.at = "rows" /\ ctl'.cmd = ctl.cmd /\ ctl'.port = ctl.port
        /\ ctl'.ports = ctl.ports /\ ctl'.keep = ctl.keep /\ ctl'.wanted = ctl.wanted
        /\ ctl'.rows = Tail(ctl.rows) /\ ctl.rows # <<>>
        /\ UNCHANGED <<want, owner, rushed, held, interfaces, entries, mappings, upstream, settled>>
    BY SkipRowFacts
  <1>2. Working /\ Working' /\ ctl.port \in Ports
    BY <1>1 DEF Working, TypeOK
  <1>3. PICK p, n, keep, wanted :
           p \in Ports /\ p = ctl.port /\ n = Seen /\ keep = ctl.keep /\ wanted = ctl.wanted
    BY <1>2
  <1>4. Seen' = n + 1 /\ n \in Nat /\ Head(ctl.rows) = interfaces[n + 1]
    BY <1>1, <1>2, <1>3, NextRow DEF SyncInv
  <1>5. ASSUME settled = "pass", AllFirm, ~Asking(ctl.cmd)
        PROVE  Exact(ctl.port, Seen, ctl.keep, ctl.wanted)'
    <2>1. Exact(p, n, keep, wanted)
      BY <1>2, <1>3, <1>5 DEF RestInv, SettledInv
    <2>2. \A x : Alive(x)' <=> Alive(x)
      BY <1>1 DEF Alive
    <2>3. Exact(p, n, keep, wanted)'
      BY <1>1, <2>1, <2>2, ExactSame
    <2>4. ASSUME NEW s \in Services, Called(s, p, n + 1)
          PROVE  FALSE
      <3>1. Firm(s, p) /\ Opens(held[s][p].spec.reqs, interfaces[n + 1])
        BY <1>3, <1>5, <2>4 DEF Called, AllFirm, Firm
      <3>2. Openers(Head(ctl.rows)) # {}
        BY <1>3, <1>4, <3>1, FirmOpens
      <3>3. interfaces[n + 1].ip \in keep
        BY <1>3, <1>4, <3>2 DEF SkipRow
      <3>4. PICK o \in Services, i \in 1..n :
               Called(o, p, i) /\ interfaces[i].ip = interfaces[n + 1].ip
        BY <2>1, <3>3 DEF Exact
      <3>5. o = s
        BY <1>3, <1>5, <2>4, <3>4, OnlyHolder DEF Called
      <3>6. i \in 1..((n + 1) - 1)
        BY <1>4
      <3> QED
        BY <2>4, <3>4, <3>5, <3>6 DEF Called
    <2>5. \A s \in Services : ~Called(s, p, n + 1)'
      BY <1>1, <2>4, CalledSame
    <2>6. Exact(p, n + 1, keep, wanted)'
      BY <1>4, <2>3, <2>5, ExactSkip
    <2> QED
      BY <1>1, <1>3, <1>4, <2>6
  <1> QED
    BY <1>1, <1>2, <1>5, RestWork

(* At the row that the update has come to, the one holder of the port calls *)
(* for the rule that the update asks for.                                   *)
LEMMA RowCalled ==
    ASSUME TypeOK, HandInv, RcInv, SyncInv, RestInv, ctl.at = "rows", ctl.rows # <<>>,
           settled = "pass", AllFirm, ~Asking(ctl.cmd),
           NEW p \in Ports, p = ctl.port, NEW n \in Nat, n = Seen,
           NEW row, row = interfaces[n + 1], Openers(row) # {}, row.ip \notin ctl.keep
    PROVE  \E s \in Services :
              /\ Called(s, p, n + 1) /\ Asked(row) = CalledRule(s, p, n + 1)
              /\ Lowest(Openers(row)) = held[s][p].spec.reqs
              /\ \A o \in Services : held[o][p] # None => o = s
  <1>1. PICK s \in Services :
              /\ held[s][p] # None /\ Opens(held[s][p].spec.reqs, row)
              /\ Lowest(Openers(row)) = held[s][p].spec.reqs
              /\ Asked(row) = Rule(<<row.ip, p>>, held[s][p].spec.target, held[s][p].spec.count,
                                   Filter(held[s][p].spec.reqs, row))
    BY OnlyOpener
  <1>2. Firm(s, p) /\ Working /\ Busy
    BY <1>1 DEF AllFirm, Firm, Working, Busy
  <1>3. ASSUME NEW k \in 1..n, interfaces[k].ip = row.ip, Opens(held[s][p].spec.reqs, interfaces[k])
        PROVE  FALSE
    BY <1>2, <1>3 DEF SyncInv, Progress
  <1>4. Called(s, p, n + 1)
    <2>1. 1..((n + 1) - 1) = 1..n
      OBVIOUS
    <2> QED
      BY <1>1, <1>3, <2>1 DEF Called
  <1>5. Asked(row) = CalledRule(s, p, n + 1)
    BY <1>1 DEF CalledRule
  <1>6. \A o \in Services : held[o][p] # None => o = s
    BY <1>1, OnlyHolder
  <1> QED
    BY <1>1, <1>4, <1>5, <1>6

(* The addresses kept and wanted once the row is dealt with. *)
LEMMA RowKept ==
    ASSUME TypeOK, RcInv, HandInv, SyncInv, RestInv, ctl.at = "rows", ctl.rows # <<>>,
           settled = "pass", AllFirm, ~Asking(ctl.cmd),
           NEW p \in Ports, p = ctl.port, NEW n \in Nat, n = Seen,
           NEW row, row = interfaces[n + 1], Openers(row) # {}, row.ip \notin ctl.keep,
           UNCHANGED <<held, interfaces>>,
           Seen' = n + 1, ctl'.port = p, ctl'.keep = Kept(row).keep, ctl'.wanted = Kept(row).wanted,
           \A y \in Sources \ {At(row)} :
              Alive(y)' => Alive(y) /\ mappings'[y] = mappings[y],
           Alive(<<row.ip, p>>)' => mappings'[<<row.ip, p>>].rule = Asked(row)
    PROVE  Exact(ctl.port, Seen, ctl.keep, ctl.wanted)'
  <1>1. PICK keep, wanted : keep = ctl.keep /\ wanted = ctl.wanted
    OBVIOUS
  <1>2. Exact(p, n, keep, wanted)
    BY <1>1 DEF RestInv, SettledInv, Working
  <1>3. PICK s \in Services :
              /\ Called(s, p, n + 1) /\ Asked(row) = CalledRule(s, p, n + 1)
              /\ Lowest(Openers(row)) = held[s][p].spec.reqs
              /\ \A o \in Services : held[o][p] # None => o = s
    BY RowCalled
  <1>4. n \in 0..Len(interfaces)
    BY Types DEF Seen, SyncInv, RowsLeft, Working
  <1>5. Exact(p, n, keep, wanted)'
    <2>1. ASSUME NEW i \in 1..n, interfaces[i].ip \in keep, Alive(<<interfaces[i].ip, p>>)'
          PROVE  Alive(<<interfaces[i].ip, p>>)
                 /\ mappings'[<<interfaces[i].ip, p>>].rule = mappings[<<interfaces[i].ip, p>>].rule
      <3>1. i \in 1..Len(interfaces)
        BY <1>4
      <3>2. <<interfaces[i].ip, p>> \in Sources
        BY <3>1, RowSource
      <3>3. <<interfaces[i].ip, p>> # At(row)
        BY <1>1, <2>1 DEF At
      <3> QED
        BY <2>1, <3>2, <3>3
    <2> QED
      BY <1>2, <2>1, ExactSame
  <1>6. \A o \in Services : \A i :
              /\ Called(o, p, i)' <=> Called(o, p, i)
              /\ CalledRule(o, p, i)' = CalledRule(o, p, i)
    BY CalledSame
  <1>7. /\ ctl'.keep = keep \cup {row.ip}
        /\ ctl'.wanted = IF Filter(held[s][p].spec.reqs, interfaces[n + 1])' = "any"
                           THEN wanted \cup {row.ip} ELSE wanted
    BY <1>1, <1>3, KeptFacts, ZenonT(60) DEF Filter, PublicOn
  <1>8. PICK keep2, wanted2, ip : keep2 = ctl'.keep /\ wanted2 = ctl'.wanted /\ ip = row.ip
    OBVIOUS
  <1>9. Called(s, p, n + 1)' /\ \A o \in Services : Called(o, p, n + 1)' => o = s
    BY <1>3, <1>6 DEF Called
  <1>10. Alive(<<ip, p>>)' => mappings'[<<ip, p>>].rule = CalledRule(s, p, n + 1)'
    BY <1>3, <1>6, <1>8
  <1>11. Exact(p, n + 1, keep2, wanted2)'
    <2>1. ip = interfaces'[n + 1].ip /\ ip \notin keep /\ keep2 = keep \cup {ip}
      BY <1>1, <1>7, <1>8
    <2>2. wanted2 = IF Filter(held[s][p].spec.reqs, interfaces[n + 1])' = "any"
                           THEN wanted \cup {ip} ELSE wanted
      BY <1>7, <1>8
    <2>3. n \in Nat /\ s \in Services
      OBVIOUS
    <2> QED
      BY ONLY <1>5, <1>9, <1>10, <2>1, <2>2, <2>3, ExactAdd
  <1> QED
    BY <1>8, <1>11

(* A reference is renewed at x: the other rules are as alive as before. *)
LEMMA RefOthers ==
    ASSUME TypeOK, NEW x \in Sources, NEW rc,
           \A y \in Sources \ {x} : mappings'[y] = mappings[y],
           entries' = [entries EXCEPT ![x[2]].forwards[x[1]] = rc]
    PROVE  /\ \A y \in Sources \ {x} : Alive(y)' <=> Alive(y)
           /\ \A q \in Ports \ {x[2]} : entries'[q] = entries[q]
  <1>1. PICK q \in Ports, a \in Ips : q = x[2] /\ a = x[1] /\ x = <<a, q>>
    BY DEF Sources
  <1>2. entries' = [entries EXCEPT ![q].forwards[a] = rc]
    BY <1>1
  <1>3. \A r \in Ports \ {q} : entries'[r] = entries[r]
    BY <1>2, Types
  <1>4. \A r \in Ports : \A b \in Ips : entries'[r].forwards[b] =
                    IF r = q /\ b = a THEN rc ELSE entries[r].forwards[b]
    <2>1. entries'[q] = [entries[q] EXCEPT !.forwards[a] = rc] /\ entries[q] \in Entry
      BY <1>2, Types
    <2>2. \A b \in Ips : entries'[q].forwards[b] = IF b = a THEN rc ELSE entries[q].forwards[b]
      BY <2>1 DEF Entry
    <2>3. \A r \in Ports : r # q => \A b \in Ips : entries'[r].forwards[b] = entries[r].forwards[b]
      BY <1>3
    <2> QED
      BY ONLY <2>2, <2>3
  <1>5. ASSUME NEW y \in Sources \ {x}
        PROVE  Alive(y)' <=> Alive(y)
    <2>1. y[1] \in Ips /\ y[2] \in Ports /\ y = <<y[1], y[2]>>
      BY DEF Sources
    <2>2. ~(y[2] = q /\ y[1] = a)
      BY <1>1, <2>1
    <2>3. entries'[y[2]].forwards[y[1]] = entries[y[2]].forwards[y[1]]
      BY <1>4, <2>1, <2>2
    <2> QED
      BY <2>3 DEF Alive
  <1> QED
    BY <1>1, <1>3, <1>5

(* The update finds the very rule. *)
LEMMA RestReuse ==
    ASSUME TypeOK, HandInv, RcInv, SyncInv, RestInv, ReuseRule
    PROVE  RestInv'
  <1>0. PICK row : row = Head(ctl.rows)
    OBVIOUS
  <1>1. /\ ctl.at = "rows" /\ ctl'.at = "rows" /\ ctl.rows # <<>> /\ ctl' = Kept(row)
        /\ row.ip \notin ctl.keep /\ Openers(row) # {}
        /\ \A y \in Sources \ {At(row)} : mappings'[y] = mappings[y]
        /\ UNCHANGED <<want, owner, rushed, held, interfaces, upstream, settled>>
    BY <1>0, ReuseRuleFacts
  <1>2. PICK rc \in 1..3 :
               /\ mappings'[At(row)] = [rule |-> Asked(row), rc |-> rc]
               /\ entries' = [entries EXCEPT ![ctl.port].forwards[row.ip] = rc]
    BY <1>0, ReuseRuleFacts, ZenonT(60)
  <1>3. row \in Row /\ row.ip \in Ips /\ ctl.port \in Ports /\ At(row) \in Sources
    BY <1>0, RowType, AskedType DEF ReuseRule, Row
  <1>4. At(row) = <<row.ip, ctl.port>> /\ At(row)[1] = row.ip /\ At(row)[2] = ctl.port
    BY DEF At
  <1>5. /\ ctl'.cmd = ctl.cmd /\ ctl'.port = ctl.port /\ ctl'.ports = ctl.ports
        /\ ctl'.rows = Tail(ctl.rows) /\ ctl'.keep = Kept(row).keep
        /\ ctl'.wanted = Kept(row).wanted
    BY <1>1, KeptFacts
  <1>6. Working /\ Working'
    BY <1>1 DEF Working
  <1>7. PICK p, n : p \in Ports /\ p = ctl.port /\ n = Seen
    BY <1>3
  <1>8. Seen' = n + 1 /\ n \in Nat /\ row = interfaces[n + 1]
    BY <1>0, <1>1, <1>5, <1>6, <1>7, NextRow DEF SyncInv
  <1>9. /\ \A y \in Sources \ {At(row)} : Alive(y)' <=> Alive(y)
        /\ \A q \in Ports \ {ctl.port} : entries'[q] = entries[q]
    <2>1. PICK x \in Sources : x = At(row)
      BY <1>3
    <2>2. /\ entries' = [entries EXCEPT ![x[2]].forwards[x[1]] = rc]
          /\ \A y \in Sources \ {x} : mappings'[y] = mappings[y]
      BY <1>1, <1>2, <1>4, <2>1
    <2> QED
      BY <1>4, <2>1, <2>2, RefOthers
  <1>10. mappings'[<<row.ip, p>>].rule = Asked(row)
    BY <1>2, <1>4, <1>7
  <1>11. ASSUME settled = "pass", AllFirm, ~Asking(ctl.cmd)
         PROVE  Exact(ctl.port, Seen, ctl.keep, ctl.wanted)'
    BY <1>1, <1>5, <1>7, <1>8, <1>9, <1>10, <1>11, RowKept
  <1>12. \A x \in Sources : x[2] # ctl.port => mappings'[x] = mappings[x]
    BY <1>1, <1>4
  <1> QED
    BY <1>1, <1>5, <1>6, <1>9, <1>11, <1>12, RestWork

(* The update finds another rule, or none. *)
LEMMA RestChange ==
    ASSUME TypeOK, HandInv, RcInv, SyncInv, RestInv, ChangeRule
    PROVE  RestInv'
  <1>0. PICK row : row = Head(ctl.rows)
    OBVIOUS
  <1>1. /\ ctl.at = "rows" /\ ctl'.at \in {"unforward", "forward"} /\ ctl.rows # <<>>
        /\ row.ip \notin ctl.keep /\ Openers(row) # {}
        /\ ctl'.cmd = ctl.cmd /\ ctl'.port = ctl.port /\ ctl'.ports = ctl.ports
        /\ ctl'.rows = Tail(ctl.rows) /\ ctl'.keep = ctl.keep \cup {row.ip}
        /\ ctl'.wanted = Kept(row).wanted
        /\ ctl'.op.new = Asked(row)
        /\ mappings'[At(row)] = None
        /\ \A y \in Sources \ {At(row)} : mappings'[y] = mappings[y]
        /\ UNCHANGED <<want, owner, rushed, held, interfaces, entries, upstream, settled>>
    BY <1>0, ChangeRuleFacts
  <1>2. Asked(row).source = At(row) /\ ctl.port \in Ports
    BY <1>0, RowType, AskedType DEF ChangeRule
  <1>3. At(row) = <<row.ip, ctl.port>> /\ At(row)[1] = row.ip /\ At(row)[2] = ctl.port
    BY DEF At
  <1>4. Working /\ Working'
    BY <1>1 DEF Working
  <1>5. PICK p, n : p \in Ports /\ p = ctl.port /\ n = Seen
    BY <1>2
  <1>6. Seen' = n + 1 /\ n \in Nat /\ row = interfaces[n + 1]
    BY <1>0, <1>1, <1>4, <1>5, NextRow DEF SyncInv
  <1>7. \A y \in Sources \ {At(row)} : Alive(y)' <=> Alive(y)
    BY <1>1 DEF Alive
  <1>8. ~Alive(<<row.ip, p>>)'
    BY <1>1, <1>3, <1>5 DEF Alive
  <1>9. ctl'.keep = Kept(row).keep
    BY <1>1, KeptFacts
  <1>10. ASSUME settled = "pass", AllFirm, ~Asking(ctl.cmd)
         PROVE  Exact(ctl.port, Seen, ctl.keep, ctl.wanted)'
    BY <1>1, <1>5, <1>6, <1>7, <1>8, <1>9, <1>10, RowKept
  <1>11. ASSUME settled = "pass", AllFirm, ~Asking(ctl.cmd)
         PROVE  Planned'
    <2>1. PICK s \in Services :
              /\ Called(s, p, n + 1) /\ Asked(row) = CalledRule(s, p, n + 1)
              /\ \A o \in Services : held[o][p] # None => o = s
      BY <1>1, <1>5, <1>6, <1>11, RowCalled
    <2>2. \A o \in Services : \A i :
              /\ Called(o, p, i)' <=> Called(o, p, i)
              /\ CalledRule(o, p, i)' = CalledRule(o, p, i)
      BY <1>1, CalledSame
    <2> SUFFICES ASSUME NEW o \in Services, NEW i \in 1..(n + 1), Called(o, p, i),
                        <<interfaces[i].ip, p>> = At(row)
                 PROVE  Asked(row) = CalledRule(o, p, i)
      BY <1>1, <1>2, <1>5, <1>6, <2>2 DEF Planned
    <2>3. interfaces[i].ip = row.ip
      BY <1>3
    <2>4. ASSUME i \in 1..n PROVE FALSE
      <3>1. Exact(p, n, ctl.keep, ctl.wanted)
        BY <1>4, <1>5, <1>11 DEF RestInv, SettledInv
      <3>2. interfaces[i].ip \in ctl.keep
        BY <2>4, <3>1 DEF Exact
      <3> QED
        BY <1>1, <2>3, <3>2
    <2>5. i = n + 1
      BY <1>6, <2>4
    <2>6. o = s
      BY <2>1 DEF Called
    <2> QED
      BY <2>1, <2>5, <2>6
  <1>12. \A x \in Sources : x[2] # ctl.port => mappings'[x] = mappings[x]
    BY <1>1, <1>3
  <1> QED
    BY <1>1, <1>4, <1>10, <1>11, <1>12, RestWork

(* The old rule is removed. *)
LEMMA RestUnforward ==
    ASSUME TypeOK, RestInv, Unforward
    PROVE  RestInv'
  <1>1. /\ ctl.at = "unforward" /\ ctl'.at = "forward" /\ ctl'.cmd = ctl.cmd
        /\ ctl'.port = ctl.port /\ ctl'.ports = ctl.ports /\ ctl'.keep = ctl.keep
        /\ ctl'.wanted = ctl.wanted /\ ctl'.rows = ctl.rows /\ ctl'.op = ctl.op
        /\ UNCHANGED <<want, owner, rushed, held, interfaces, entries, mappings, upstream, settled>>
    BY UnforwardFacts
  <1>2. Working /\ Working'
    BY <1>1 DEF Working
  <1>3. PICK p, n, keep, wanted :
           p = ctl.port /\ n = Seen /\ keep = ctl.keep /\ wanted = ctl.wanted
    OBVIOUS
  <1>4. p = ctl'.port /\ n = Seen' /\ keep = ctl'.keep /\ wanted = ctl'.wanted
    BY <1>1, <1>3 DEF Seen
  <1>5. ASSUME settled = "pass", AllFirm, ~Asking(ctl.cmd)
        PROVE  Exact(ctl.port, Seen, ctl.keep, ctl.wanted)' /\ Planned'
    <2>1. Exact(p, n, keep, wanted) /\ Planned
      BY <1>1, <1>2, <1>3, <1>5 DEF RestInv, SettledInv
    <2>2. \A x : Alive(x)' <=> Alive(x)
      BY <1>1 DEF Alive
    <2>3. Exact(p, n, keep, wanted)'
      BY <1>1, <2>1, <2>2, ExactSame
    <2>4. \A s \in Services : \A i :
              /\ Called(s, p, i)' <=> Called(s, p, i)
              /\ CalledRule(s, p, i)' = CalledRule(s, p, i)
      BY <1>1, CalledSame
    <2>5. Planned'
      BY <1>1, <1>3, <1>4, <2>1, <2>4 DEF Planned
    <2> QED
      BY <1>4, <2>3, <2>5
  <1> QED
    BY <1>1, <1>2, <1>5, RestWork

(* The new rule is installed. *)
LEMMA RestForward ==
    ASSUME TypeOK, SyncInv, RestInv, Forward
    PROVE  RestInv'
  <1>0. PICK x : x = ctl.op.new.source
    OBVIOUS
  <1>1. /\ ctl.at = "forward" /\ ctl'.at = "rows" /\ ctl'.cmd = ctl.cmd
        /\ ctl'.port = ctl.port /\ ctl'.ports = ctl.ports /\ ctl'.keep = ctl.keep
        /\ ctl'.wanted = ctl.wanted /\ ctl'.rows = ctl.rows /\ x \in Sources
        /\ mappings'[x] = [rule |-> ctl.op.new, rc |-> FreshRc(x)]
        /\ entries' = [entries EXCEPT ![x[2]].forwards[x[1]] = FreshRc(x)]
        /\ \A y \in Sources \ {x} : mappings'[y] = mappings[y]
        /\ UNCHANGED <<want, owner, rushed, held, interfaces, upstream, settled>>
    BY <1>0, ForwardFacts
  <1>2. Working /\ Working' /\ x[2] = ctl.port
    BY <1>0, <1>1 DEF Working, SyncInv, KeepAlive
  <1>3. /\ \A y \in Sources \ {x} : Alive(y)' <=> Alive(y)
        /\ \A q \in Ports \ {ctl.port} : entries'[q] = entries[q]
    BY <1>1, <1>2, RefOthers
  <1>4. PICK p, n, keep, wanted :
           p \in Ports /\ p = ctl.port /\ n = Seen /\ keep = ctl.keep /\ wanted = ctl.wanted
    BY <1>1 DEF TypeOK
  <1>5. p = ctl'.port /\ n = Seen' /\ keep = ctl'.keep /\ wanted = ctl'.wanted
    BY <1>1, <1>4 DEF Seen
  <1>6. ASSUME settled = "pass", AllFirm, ~Asking(ctl.cmd)
        PROVE  Exact(ctl.port, Seen, ctl.keep, ctl.wanted)'
    <2>1. Exact(p, n, keep, wanted) /\ Planned
      BY <1>1, <1>2, <1>4, <1>6 DEF RestInv, SettledInv
    <2>2. ASSUME NEW s \in Services, NEW i \in 1..n, Called(s, p, i),
                 Alive(<<interfaces[i].ip, p>>)'
          PROVE  mappings'[<<interfaces[i].ip, p>>].rule = CalledRule(s, p, i)
      <3>1. CASE <<interfaces[i].ip, p>> = x
        BY <1>0, <1>1, <1>4, <2>1, <2>2, <3>1 DEF Planned
      <3>2. CASE <<interfaces[i].ip, p>> # x
        <4>1. n \in 0..Len(interfaces)
          BY <1>2, <1>4, Types DEF Seen, SyncInv, RowsLeft, Work
        <4>2. i \in 1..Len(interfaces)
          BY <4>1
        <4>3. <<interfaces[i].ip, p>> \in Sources \ {x}
          BY <1>4, <3>2, <4>2, RowSource
        <4>4. Alive(<<interfaces[i].ip, p>>)
              /\ mappings'[<<interfaces[i].ip, p>>] = mappings[<<interfaces[i].ip, p>>]
          BY <1>1, <1>3, <2>2, <4>3
        <4> QED
          BY <2>1, <2>2, <4>4 DEF Exact
      <3> QED
        BY <3>1, <3>2
    <2>3. Exact(p, n, keep, wanted)'
      BY <1>1, <2>1, <2>2, ExactKeeps
    <2> QED
      BY <1>5, <2>3
  <1>7. \A y \in Sources : y[2] # ctl.port => mappings'[y] = mappings[y]
    BY <1>1, <1>2
  <1> QED
    BY <1>1, <1>2, <1>3, <1>6, <1>7, RestWork

(* Nobody has a lease on the port, and nothing is forwarded there. *)
LEMMA EmptyFinished ==
    ASSUME NEW p \in Ports, \A s \in Services : held'[s][p] = None,
           entries'[p].mapped = {}, \A ip \in Ips : entries'[p].forwards[ip] = 0,
           \A ip \in Ips : upstream'[<<ip, p>>] = 0
    PROVE  Finished(p)'
  <1>1. Referred(p)' = {}
    BY DEF Referred
  <1>2. \A s \in Services : \A i : ~Called(s, p, i)'
    BY DEF Called
  <1>3. Exact(p, Len(interfaces), Referred(p), entries[p].mapped)'
    BY <1>1, <1>2 DEF Exact
  <1>4. Mirrored(p)'
    BY DEF Mirrored
  <1> QED
    BY <1>1, <1>3, <1>4 DEF Finished

(* The sync goes on to the next port, or to the rules. *)
LEMMA RestNext ==
    ASSUME TypeOK', NEW c, ~Asking(c), NEW ports \in SUBSET Ports,
           NEW es \in [Ports -> Entry], NEW ifs, ifs = interfaces', SyncOn(c, ports, es, ifs),
           settled' # "yes",
           settled' = "pass" /\ AllFirm' => \A p \in Ports \ ports : Finished(p)'
    PROVE  RestInv'
  <1>1. ctl'.cmd = c /\ ctl'.at \in {"rows", "gc"}
    <2>1. ports \in SUBSET Ports /\ es \in [Ports -> Entry] /\ SyncOn(c, ports, es, ifs)
      OBVIOUS
    <2> QED
      BY ONLY <2>1, SyncOnKeeps, ZenonT(60)
  <1>2. SettledAt'
    BY <1>1 DEF SettledAt, Busy, Asking
  <1>3. SettledInv'
    <2> SUFFICES ASSUME settled' = "pass", AllFirm'
                 PROVE  /\ \A p \in Ports : (~Working' \/ p \notin ctl'.ports \cup {ctl'.port})
                              => Finished(p)'
                        /\ Working' => Exact(ctl.port, Seen, ctl.keep, ctl.wanted)'
                        /\ Working' /\ ctl'.at # "rows" => Planned'
      BY DEF SettledInv, TypeOK
    <2>1. CASE ports # {}
      <3>1. PICK q \in ports : ctl' = Update(c, q, ports \ {q}, ifs)
        BY <2>1, LowestIn DEF SyncOn
      <3>2. ctl'.at = "rows" /\ ctl'.port = q /\ ctl'.ports = ports \ {q} /\ ctl'.rows = interfaces'
            /\ ctl'.keep = {} /\ ctl'.wanted = {}
        BY <3>1 DEF Update, Idle
      <3>3. Seen' = 0
        <4>1. interfaces' \in Seq(Row)
          BY NetsAssumption DEF TypeOK
        <4> QED
          BY <3>2, <4>1 DEF Seen
      <3>4. Exact(ctl.port, Seen, ctl.keep, ctl.wanted)'
        BY <3>2, <3>3 DEF Exact
      <3>5. \A p \in Ports : p \notin ctl'.ports \cup {ctl'.port} => p \in Ports \ ports
        BY <3>2
      <3>6. Working'
        BY <3>2 DEF Working
      <3> QED
        BY <3>2, <3>4, <3>5, <3>6
    <2>2. CASE ports = {}
      <3>1. ctl'.at = "gc"
        BY <2>2 DEF SyncOn, Idle
      <3> QED
        BY <2>2, <3>1 DEF Working
    <2> QED
      BY <2>1, <2>2
  <1> QED
    BY <1>2, <1>3 DEF RestInv

(* A sync begins: nothing is forwarded on the ports it does not go through. *)
LEMMA RestBegin ==
    ASSUME TypeOK, TypeOK', HandInv, EntryInv, NEW c, ~Asking(c), NEW ifs, ifs = interfaces',
           SyncOn(c, Known(entries), entries, ifs), UNCHANGED <<want, owner, rushed, held, upstream>>,
           settled' = "pass"
    PROVE  RestInv'
  <1>1. entries \in [Ports -> Entry] /\ Known(entries) \in SUBSET Ports
    BY Types DEF Known
  <1>2. \A p \in Ports : entries'[p].mapped = entries[p].mapped
                         /\ entries'[p].forwards = entries[p].forwards
    <2>1. SyncOn(c, Known(entries), entries, ifs)
      OBVIOUS
    <2> QED
      BY ONLY <1>1, <2>1, SyncOnKeeps, ZenonT(60)
  <1>3. ASSUME AllFirm', NEW p \in Ports \ Known(entries)
        PROVE  Finished(p)'
    <2>1. entries[p] = NoEntry
      BY <1>3 DEF Known, EntryInv, Unknown
    <2>2. entries'[p].mapped = {} /\ \A ip \in Ips : entries'[p].forwards[ip] = 0
      BY <1>2, <2>1 DEF NoEntry
    <2>3. ASSUME NEW ip \in Ips
          PROVE  upstream'[<<ip, p>>] = 0
      <3>1. <<ip, p>> \in Sources
        BY DEF Sources
      <3> QED
        BY <2>1, <3>1 DEF EntryInv, Mapped, NoEntry
    <2>4. ASSUME NEW s \in Services, held'[s][p] # None
          PROVE  FALSE
      <3>1. Firm(s, p)
        BY <1>3, <2>4 DEF AllFirm, Firm
      <3> QED
        BY <1>3, <3>1, FirmIsKnown
    <2> QED
      BY <2>2, <2>3, <2>4, EmptyFinished
  <1>4. PICK ports, es : ports = Known(entries) /\ es = entries
    OBVIOUS
  <1>5. /\ ports \in SUBSET Ports /\ es \in [Ports -> Entry] /\ SyncOn(c, ports, es, ifs)
        /\ AllFirm' => \A p \in Ports \ ports : Finished(p)'
    BY <1>1, <1>3, <1>4
  <1>6. TypeOK' /\ ~Asking(c) /\ ifs = interfaces' /\ settled' = "pass"
    OBVIOUS
  <1> QED
    BY ONLY <1>5, <1>6, RestNext

(* An update ends: the port is done with. *)
LEMMA RestEnd ==
    ASSUME TypeOK, TypeOK', HandInv, SyncInv, EntryInv, RestInv, EndRows
    PROVE  RestInv'
  <1>1. /\ ctl.at = "rows" /\ ctl.rows = <<>> /\ ctl.port \in Ports
        /\ ctl.ports \in SUBSET Ports /\ Ended \in [Ports -> Entry]
        /\ \A q \in Ports : /\ Ended[q].count = entries[q].count
                            /\ q # ctl.port => Ended[q] = entries[q]
        /\ Ended[ctl.port].mapped = ctl.wanted
        /\ \A i \in Ips : Ended[ctl.port].forwards[i] =
              IF i \in ctl.keep THEN entries[ctl.port].forwards[i] ELSE 0
        /\ \A x \in Sources : upstream'[x] =
              IF x[2] # ctl.port THEN upstream[x]
              ELSE IF x[1] \in ctl.wanted THEN entries[ctl.port].count
              ELSE IF x[1] \in entries[ctl.port].mapped THEN 0 ELSE upstream[x]
        /\ ~Asking(ctl.cmd) => held' = held /\ SyncOn(ctl.cmd, ctl.ports, Ended, interfaces)
        /\ UNCHANGED <<want, owner, rushed, interfaces, mappings, settled>>
    BY EndRowsFacts
  <1>2. Working /\ Busy /\ settled # "yes"
    BY <1>1 DEF Working, Busy, RestInv, SettledAt
  <1>3. CASE Asking(ctl.cmd)
    <2>1. settled' = "no"
      BY <1>1, <1>2, <1>3 DEF RestInv, SettledAt, TypeOK
    <2> QED
      BY <2>1, RestNo
  <1>4. CASE ~Asking(ctl.cmd)
    <2>1. PICK p, ports, keep, wanted, es :
             /\ p \in Ports /\ p = ctl.port /\ ports = ctl.ports /\ keep = ctl.keep /\ wanted = ctl.wanted
             /\ es = Ended
      BY <1>1
    <2>2. \A q \in Ports :
             /\ entries'[q].count = es[q].count /\ entries'[q].mapped = es[q].mapped
             /\ entries'[q].forwards = es[q].forwards
      <3>1. PICK c, ifs : c = ctl.cmd /\ ifs = interfaces
        OBVIOUS
      <3>2. SyncOn(c, ports, es, ifs) /\ ports \in SUBSET Ports /\ es \in [Ports -> Entry]
        BY <1>1, <1>4, <2>1, <3>1
      <3> QED
        BY ONLY <3>2, SyncOnKeeps, ZenonT(60)
    <2>3. \A ip \in Ips : <<ip, p>> \in Sources /\ <<ip, p>>[1] = ip /\ <<ip, p>>[2] = p
      BY <2>1 DEF Sources
    <2>4. ASSUME settled = "pass", AllFirm
          PROVE  Finished(p)'
      <3>1. PICK n : n = Len(interfaces)
        OBVIOUS
      <3>2. n = Seen
        BY <1>1, <3>1, Types DEF Seen
      <3>3. Exact(p, n, keep, wanted)
        BY <1>2, <2>1, <2>4, <3>2 DEF RestInv, SettledInv
      <3>4. \A ip \in keep : Alive(<<ip, p>>) /\ ip \in Ips
        BY <1>1, <1>2, <2>1 DEF SyncInv, KeepAlive, TypeOK, Work
      <3>5. \A ip \in Ips : entries'[p].forwards[ip] =
               IF ip \in keep THEN entries[p].forwards[ip] ELSE 0
        BY <1>1, <2>1, <2>2
      <3>6. \A ip \in keep : Alive(<<ip, p>>)'
        BY <1>1, <3>4, <3>5 DEF Alive
      <3>7. \A ip \in keep : entries[p].forwards[ip] # 0
        <4> SUFFICES ASSUME NEW ip \in keep PROVE entries[p].forwards[ip] # 0
          OBVIOUS
        <4>1. mappings[<<ip, p>>] \in Mapping /\ mappings[<<ip, p>>].rc = entries[p].forwards[ip]
          BY <2>3, <3>4 DEF Alive, TypeOK
        <4> QED
          BY <4>1 DEF Mapping
      <3>8. Referred(p)' = keep
        BY <3>4, <3>5, <3>7 DEF Referred
      <3>9. Exact(p, n, keep, wanted)'
        <4>1. \A s \in Services : held'[s][p] = held[s][p]
          BY <1>1, <1>4
        <4>2. \A i \in 1..n : interfaces[i].ip \in keep =>
                 /\ Alive(<<interfaces[i].ip, p>>)
                 /\ mappings'[<<interfaces[i].ip, p>>].rule = mappings[<<interfaces[i].ip, p>>].rule
          BY <1>1, <3>4
        <4>3. interfaces' = interfaces
          BY <1>1
        <4> QED
          BY ONLY <3>3, <4>1, <4>2, <4>3, ExactSame
      <3>10. Exact(p, Len(interfaces), Referred(p), entries[p].mapped)'
        <4>1. n = Len(interfaces') /\ wanted = entries'[p].mapped
          BY <1>1, <2>1, <2>2, <3>1
        <4> QED
          BY <3>8, <3>9, <4>1
      <3>11. Mirrored(p)'
        <4> SUFFICES ASSUME NEW ip \in Ips
                     PROVE  upstream'[<<ip, p>>] =
                               IF ip \in entries'[p].mapped THEN entries'[p].count ELSE 0
          BY DEF Mirrored
        <4>1. upstream'[<<ip, p>>] =
                 IF ip \in wanted THEN entries[p].count
                 ELSE IF ip \in entries[p].mapped THEN 0 ELSE upstream[<<ip, p>>]
          BY <1>1, <2>1, <2>3
        <4>2. ip \notin entries[p].mapped => upstream[<<ip, p>>] = 0
          BY <2>3 DEF EntryInv, Mapped
        <4>3. entries'[p].mapped = wanted /\ entries'[p].count = entries[p].count
          BY <1>1, <2>1, <2>2
        <4> QED
          BY <4>1, <4>2, <4>3
      <3> QED
        BY <3>6, <3>8, <3>10, <3>11 DEF Finished
    <2>5. ASSUME settled = "pass", AllFirm, NEW q \in Ports \ ports, q # p
          PROVE  Finished(q)'
      <3>1. Finished(q)
        BY <2>1, <2>5 DEF RestInv, SettledInv
      <3>2. /\ entries'[q].count = entries[q].count /\ entries'[q].mapped = entries[q].mapped
            /\ entries'[q].forwards = entries[q].forwards
        BY <1>1, <2>1, <2>2, <2>5
      <3>3. \A ip \in Ips : upstream'[<<ip, q>>] = upstream[<<ip, q>>]
        <4> SUFFICES ASSUME NEW ip \in Ips PROVE upstream'[<<ip, q>>] = upstream[<<ip, q>>]
          OBVIOUS
        <4>1. <<ip, q>> \in Sources /\ <<ip, q>>[2] # ctl.port
          BY <2>1, <2>5 DEF Sources
        <4> QED
          BY <1>1, <4>1
      <3>4. \A ip \in Ips : Alive(<<ip, q>>)' <=> Alive(<<ip, q>>)
        BY <1>1, <3>2 DEF Alive
      <3>5. held' = held /\ interfaces' = interfaces /\ mappings' = mappings
        BY <1>1, <1>4
      <3> QED
        BY <3>1, <3>2, <3>3, <3>4, <3>5, FinishedSame
    <2>6. AllFirm' => AllFirm
      BY <1>1, <1>4 DEF AllFirm
    <2>7. settled' = "pass" /\ AllFirm' => \A q \in Ports \ ports : Finished(q)'
      BY <1>1, <2>4, <2>5, <2>6
    <2>8. PICK c, ifs : c = ctl.cmd /\ ifs = interfaces
      OBVIOUS
    <2>9. /\ ~Asking(c) /\ ports \in SUBSET Ports /\ es \in [Ports -> Entry] /\ ifs = interfaces'
          /\ SyncOn(c, ports, es, ifs) /\ settled' # "yes"
      BY <1>1, <1>2, <1>4, <2>1, <2>8
    <2> QED
      BY ONLY TypeOK', <2>7, <2>9, RestNext
  <1> QED
    BY <1>3, <1>4

(* A dead rule is collected. *)
LEMMA RestGc ==
    ASSUME TypeOK, SyncInv, RestInv, GcRule
    PROVE  RestInv'
  <1> USE DEF envVars, svcVars
  <1>1. PICK x \in ctl.dead :
           /\ mappings' = [mappings EXCEPT ![x] = None]
           /\ ctl' = [ctl EXCEPT !.dead = ctl.dead \ {x}]
    BY DEF GcRule
  <1>2. /\ ctl.at = "gc" /\ ctl'.at = "gc" /\ ctl'.cmd = ctl.cmd
        /\ UNCHANGED <<want, owner, rushed, held, interfaces, entries, upstream, settled>>
    BY <1>1 DEF GcRule, TypeOK, Work
  <1>3. x \in Sources /\ x \in Dead(entries)
    BY <1>1, <1>2 DEF TypeOK, Work, SyncInv, DeadSet
  <1>4. \A y \in Sources : mappings'[y] = IF y = x THEN None ELSE mappings[y]
    BY <1>1, <1>3 DEF TypeOK
  <1>5. \A y \in Sources : /\ Alive(y)' <=> Alive(y)
                           /\ Alive(y) => mappings'[y] = mappings[y]
    BY <1>2, <1>3, <1>4 DEF Alive, Dead
  <1>6. SettledAt'
    BY <1>2 DEF RestInv, SettledAt, Busy, Asking
  <1>7. SettledInv'
    <2> SUFFICES ASSUME settled # "no", AllFirm, NEW p \in Ports
                 PROVE  Finished(p)'
      BY <1>2 DEF SettledInv, AllFirm, Working
    <2>1. Finished(p)
      BY <1>2 DEF RestInv, SettledInv, Working
    <2>2. \A ip \in Ips : <<ip, p>> \in Sources
      BY DEF Sources
    <2>3. \A ip \in Ips : /\ Alive(<<ip, p>>)' <=> Alive(<<ip, p>>)
                          /\ Alive(<<ip, p>>) => mappings'[<<ip, p>>] = mappings[<<ip, p>>]
      BY <1>5, <2>2
    <2> QED
      BY <1>2, <2>1, <2>3, FinishedSame
  <1> QED
    BY <1>6, <1>7 DEF RestInv

(* A sync ends: what is left is alive. *)
LEMMA RestDone ==
    ASSUME TypeOK, HandInv, SyncInv, RestInv, EndSync
    PROVE  RestInv'
  <1> USE DEF envVars
  <1>1. /\ up /\ ctl.at = "gc" /\ ctl.dead = {} /\ ctl' = Idle /\ Answer(TRUE)
        /\ settled' = IF settled = "pass" THEN "yes" ELSE settled
        /\ UNCHANGED <<want, owner, rushed, interfaces, entries, mappings, upstream, up>>
    BY DEF EndSync
  <1>2. ~Asking(ctl.cmd) /\ ~Working /\ Busy
    BY <1>1 DEF HandInv, InHand, Working, Busy
  <1>3. held' = held
    BY <1>1, <1>2 DEF Answer
  <1>4. \A x \in Sources : mappings[x] # None => Alive(x)
    BY <1>1 DEF SyncInv, DeadSet, Dead, Alive
  <1>5. \A x : Alive(x)' <=> Alive(x)
    BY <1>1 DEF Alive
  <1>6. ctl'.at = "idle" /\ ~Working'
    BY <1>1, IdleType DEF Working
  <1>7. SettledAt'
    BY <1>1, <1>2, <1>4, <1>5, <1>6 DEF SettledAt, RestInv, Busy
  <1>8. SettledInv'
    <2> SUFFICES ASSUME settled # "no", AllFirm, NEW p \in Ports
                 PROVE  Finished(p)'
      BY <1>1, <1>3, <1>6 DEF SettledInv, AllFirm
    <2>1. Finished(p)
      BY <1>2 DEF RestInv, SettledInv
    <2> QED
      BY <1>1, <1>3, <1>5, <2>1, FinishedSame
  <1> QED
    BY <1>7, <1>8 DEF RestInv

(* The controller's steps bring a sync to its end. *)
LEMMA RestController ==
    ASSUME TypeOK, TypeOK', HandInv, RcInv, SyncInv, EntryInv, RestInv, Controller
    PROVE  RestInv'
  <1> USE DEF envVars, svcVars
  <1>1. CASE TakeSync
    <2>1. PICK c, ifs : c = Head(queue) /\ ifs = interfaces
      OBVIOUS
    <2>2. /\ c.kind = "sync" /\ ifs = interfaces' /\ settled' = "pass"
          /\ SyncOn(c, Known(entries), entries, ifs) /\ UNCHANGED <<want, owner, rushed, held, upstream>>
      BY <1>1, <2>1 DEF TakeSync
    <2>3. ~Asking(c)
      BY <2>2 DEF Asking
    <2> QED
      BY ONLY TypeOK, TypeOK', HandInv, EntryInv, <2>2, <2>3, RestBegin
  <1>2. CASE TakeNet
    <2>1. PICK c, ifs : c = Sync(None) /\ ifs = net
      OBVIOUS
    <2>2. /\ ifs = interfaces' /\ settled' = "pass"
          /\ SyncOn(c, Known(entries), entries, ifs) /\ UNCHANGED <<want, owner, rushed, held, upstream>>
      BY <1>2, <2>1 DEF TakeNet, Renewed
    <2>3. ~Asking(c)
      BY <2>1 DEF Asking, Sync
    <2> QED
      BY ONLY TypeOK, TypeOK', HandInv, EntryInv, <2>2, <2>3, RestBegin
  <1>3. CASE TakeForward
    BY <1>3, RestNo DEF TakeForward
  <1>4. CASE RemoveStale
    BY <1>4, RestQuiet DEF RemoveStale, Softer, Firm
  <1> QED
    BY <1>1, <1>2, <1>3, <1>4, RestSkip, RestReuse, RestChange, RestUnforward, RestForward,
       RestEnd, RestGc, RestDone DEF Controller

(* The environment's steps leave it alone or call it off. *)
LEMMA RestEnvironment ==
    ASSUME TypeOK, RestInv, Environment
    PROVE  RestInv'
  <1> USE DEF envVars, svcVars, ctlVars
  <1>1. ASSUME NEW s \in Services, NEW p \in Ports, NEW v, Change(s, p, v)
        PROVE  RestInv'
    BY <1>1, ChangeSoftens, RestQuiet DEF Change
  <1>2. ASSUME NEW n \in Nets, Rewire(n)
        PROVE  RestInv'
    BY <1>2, RestQuiet DEF Rewire, Softer, Firm
  <1>3. ASSUME NEW s \in Services, Remove(s)
        PROVE  RestInv'
    <2>1. /\ UNCHANGED <<owner, rushed, held, entries, mappings, interfaces, upstream, up, settled>>
          /\ want' = [want EXCEPT ![s] = NoPass.goal]
          /\ ctl' = [ctl EXCEPT !.cmd = Forsake(ctl.cmd, s)]
      BY <1>3 DEF Remove
    <2>2. Softer
      BY <2>1, Types DEF Softer, Firm, NoPass
    <2>3. ctl.cmd \in Command /\ ctl \in Work
      BY Types
    <2>4. Asking(Forsake(ctl.cmd, s)) <=> Asking(ctl.cmd)
      BY <2>3, ForsakeFacts
    <2>5. /\ ctl'.at = ctl.at /\ ctl'.port = ctl.port /\ ctl'.ports = ctl.ports
          /\ ctl'.rows = ctl.rows /\ ctl'.keep = ctl.keep /\ ctl'.op = ctl.op
          /\ ctl'.wanted = ctl.wanted /\ ctl'.cmd = Forsake(ctl.cmd, s)
      BY <2>1, <2>3 DEF Work
    <2> QED
      BY <2>1, <2>2, <2>4, <2>5, RestQuiet
  <1>4. CASE Fail
    BY <1>4, RestNo DEF Fail
  <1>5. CASE Restart
    BY <1>5, RestNo DEF Restart
  <1> QED
    BY <1>1, <1>2, <1>3, <1>4, <1>5 DEF Environment

(* The steps of a service do. *)
LEMMA RestTask ==
    ASSUME TypeOK, RestInv, NEW s \in Services, Task(s)
    PROVE  RestInv'
  <1>1. Softer /\ UNCHANGED <<interfaces, entries, ctl, mappings, upstream, up>>
    BY TaskSoftens
  <1>2. CASE Drop(s) \/ Ask(s)
    BY <1>2, RestNo DEF Drop, Ask
  <1>3. CASE Begin(s) \/ Keep(s) \/ Collect(s)
    <2>1. held' = held /\ settled' = settled
      BY <1>3 DEF Begin, Keep, Collect
    <2> QED
      BY <1>1, <2>1, RestQuiet
  <1> QED
    BY <1>2, <1>3 DEF Task

(* Spec => []RestInv: a sync that nothing called off has put in order       *)
(* every port that it went through, those it has no entry for included.     *)
THEOREM SyncsComeToRest == Spec => []RestInv
  <1>1. Init => RestInv
    BY DEF Init, RestInv, SettledInv, SettledAt
  <1>2. TypeOK /\ TypeOK' /\ HandInv /\ RcInv /\ SyncInv /\ EntryInv /\ RestInv /\ [Next]_vars
           => RestInv'
    <2> SUFFICES ASSUME TypeOK, TypeOK', HandInv, RcInv, SyncInv, EntryInv, RestInv, [Next]_vars
                 PROVE  RestInv'
      OBVIOUS
    <2>1. CASE UNCHANGED vars
      BY <2>1, RestQuiet DEF vars, envVars, svcVars, ctlVars, Softer, Firm
    <2> QED
      BY <2>1, RestEnvironment, RestController, RestTask DEF Next
  <1> QED
    BY <1>1, <1>2, ForwardsTypeCorrect, LeasesInHand, LeasesAreTold, SyncGoesThrough,
       EntriesInOrder, PTL DEF Spec

(* What the leases call for, all services and ports together. *)
CalledRules ==
    UNION {RulesFor(Lease(l).spec, l[2], interfaces) : l \in Leases}

(* They are the rules called for at the rows. *)
LEMMA CalledRulesAre ==
    ASSUME TypeOK, NEW r
    PROVE  r \in CalledRules <=>
              \E s \in Services, p \in Ports, i \in 1..Len(interfaces) :
                  Called(s, p, i) /\ r = CalledRule(s, p, i)
  <1>1. DOMAIN interfaces = 1..Len(interfaces)
    BY Types
  <1>2. ASSUME r \in CalledRules
        PROVE  \E s \in Services, p \in Ports, i \in 1..Len(interfaces) :
                  Called(s, p, i) /\ r = CalledRule(s, p, i)
    <2>1. PICK l \in Leases : r \in RulesFor(Lease(l).spec, l[2], interfaces)
      BY <1>2 DEF CalledRules
    <2>2. PICK s \in Services, p \in Ports :
             l[1] = s /\ l[2] = p /\ held[s][p] # None /\ Lease(l) = held[s][p]
      BY DEF Leases, Lease
    <2>3. r \in RulesFor(held[s][p].spec, p, interfaces)
      BY <2>1, <2>2
    <2>4. PICK i \in DOMAIN interfaces :
             /\ Opens(held[s][p].spec.reqs, interfaces[i])
             /\ \A k \in 1..(i - 1) : interfaces[k].ip = interfaces[i].ip =>
                   ~Opens(held[s][p].spec.reqs, interfaces[k])
             /\ r = Rule(<<interfaces[i].ip, p>>, held[s][p].spec.target, held[s][p].spec.count,
                         Filter(held[s][p].spec.reqs, interfaces[i]))
      BY <2>3 DEF RulesFor
    <2> QED
      BY <1>1, <2>2, <2>4 DEF Called, CalledRule
  <1>3. ASSUME NEW s \in Services, NEW p \in Ports, NEW i \in 1..Len(interfaces),
               Called(s, p, i), r = CalledRule(s, p, i)
        PROVE  r \in CalledRules
    <2>1. PICK l \in Leases : l = <<s, p>>
      BY <1>3 DEF Called, Leases
    <2>2. Lease(l) = held[s][p] /\ l[2] = p
      BY <2>1 DEF Lease
    <2>3. r \in RulesFor(held[s][p].spec, p, interfaces)
      BY <1>1, <1>3 DEF RulesFor, Called, CalledRule
    <2> QED
      BY <2>2, <2>3 DEF CalledRules
  <1> QED
    BY <1>2, <1>3

(* When a sync has succeeded the kernel has the rules of the leases, and    *)
(* the gateways map the public ones.                                        *)
LEMMA AtRest ==
    ASSUME TypeOK, HandInv, Ledger, RestInv, settled = "yes", ~rushed, \A l \in Leases : Current(l)
    PROVE  /\ kernel \ failed = CalledRules \ failed
           /\ \A x \in Sources :
                 upstream[x] = IF \E r \in CalledRules : r.source = x /\ r.filter = "any"
                                 THEN (CHOOSE r \in CalledRules : r.source = x).count ELSE 0
  <1>1. AllFirm
    <2> SUFFICES ASSUME NEW s \in Services, NEW p \in Ports, held[s][p] # None
                 PROVE  owner[p] = s
      BY DEF AllFirm
    <2>1. PICK l \in Leases : l = <<s, p>>
      BY DEF Leases
    <2>2. Firm(l[1], l[2]) /\ l[1] = s /\ l[2] = p
      BY <2>1, CurrentFirm
    <2> QED
      BY <2>2 DEF Firm
  <1>2. ~Working /\ up /\ ctl.at = "idle" /\ \A x \in Sources : mappings[x] # None => Alive(x)
    BY DEF RestInv, SettledAt, Busy, Working
  <1>3. \A p \in Ports : Finished(p)
    BY <1>1, <1>2 DEF RestInv, SettledInv
  <1>4. ASSUME NEW s \in Services, NEW p \in Ports, NEW i \in 1..Len(interfaces), Called(s, p, i)
        PROVE  /\ interfaces[i].ip \in Referred(p)
               /\ CalledRule(s, p, i) \in kernel \cup failed
               /\ interfaces[i].ip \in entries[p].mapped
                     <=> Filter(held[s][p].spec.reqs, interfaces[i]) = "any"
               /\ CalledRule(s, p, i).source = <<interfaces[i].ip, p>>
               /\ CalledRule(s, p, i).filter = Filter(held[s][p].spec.reqs, interfaces[i])
               /\ CalledRule(s, p, i).count = entries[p].count
    <2>1. Exact(p, Len(interfaces), Referred(p), entries[p].mapped)
      BY <1>3 DEF Finished
    <2>2. /\ interfaces[i].ip \in Referred(p)
          /\ Alive(<<interfaces[i].ip, p>>) =>
                mappings[<<interfaces[i].ip, p>>].rule = CalledRule(s, p, i)
          /\ interfaces[i].ip \in entries[p].mapped
                <=> Filter(held[s][p].spec.reqs, interfaces[i]) = "any"
      BY <1>4, <2>1 DEF Exact
    <2>3. Alive(<<interfaces[i].ip, p>>) /\ <<interfaces[i].ip, p>> \in Sources
      BY <1>3, <2>2, RowSource DEF Finished
    <2>4. CalledRule(s, p, i) \in kernel \cup failed
      BY <1>2, <2>2, <2>3 DEF Ledger, Booked, Alive
    <2>5. held[s][p].spec.count = entries[p].count
      BY <1>1, <1>4 DEF Called, AllFirm, Firm, HandInv, FirmKnown, Noted
    <2> QED
      BY <2>2, <2>4, <2>5 DEF CalledRule, Rule
  <1>5. ASSUME NEW k \in kernel \ failed
        PROVE  k \in CalledRules
    <2>1. PICK x \in Sources : mappings[x] # None /\ mappings[x].rule = k
      BY <1>2, <1>5 DEF Ledger, Booked
    <2>2. PICK ip \in Ips, p \in Ports : x = <<ip, p>>
      BY DEF Sources
    <2>3. Alive(x) /\ mappings[x] \in Mapping /\ entries[p].forwards[ip] = mappings[x].rc
      BY <1>2, <2>1, <2>2 DEF Alive, TypeOK
    <2>4. ip \in Referred(p)
      BY <2>3 DEF Mapping, Referred
    <2>5. PICK s \in Services, i \in 1..Len(interfaces) : Called(s, p, i) /\ interfaces[i].ip = ip
      BY <1>3, <2>4 DEF Finished, Exact
    <2>6. mappings[x].rule = CalledRule(s, p, i)
      BY <1>3, <2>2, <2>3, <2>5 DEF Finished, Exact
    <2> QED
      BY <2>1, <2>5, <2>6, CalledRulesAre
  <1>6. kernel \ failed = CalledRules \ failed
    <2>1. \A r \in CalledRules : r \in kernel \cup failed
      BY <1>4, CalledRulesAre
    <2> QED
      BY <1>5, <2>1
  <1>7. ASSUME NEW x \in Sources
        PROVE  upstream[x] = IF \E r \in CalledRules : r.source = x /\ r.filter = "any"
                               THEN (CHOOSE r \in CalledRules : r.source = x).count ELSE 0
    <2>1. PICK ip \in Ips, p \in Ports : x = <<ip, p>>
      BY DEF Sources
    <2>2. upstream[x] = IF ip \in entries[p].mapped THEN entries[p].count ELSE 0
      BY <1>3, <2>1 DEF Finished, Mirrored
    <2>3. ASSUME NEW r \in CalledRules, r.source = x
          PROVE  /\ r.count = entries[p].count
                 /\ r.filter = "any" <=> ip \in entries[p].mapped
      <3>1. PICK s \in Services, q \in Ports, i \in 1..Len(interfaces) :
               Called(s, q, i) /\ r = CalledRule(s, q, i)
        BY CalledRulesAre
      <3>2. /\ interfaces[i].ip \in entries[q].mapped
                  <=> Filter(held[s][q].spec.reqs, interfaces[i]) = "any"
            /\ r.source = <<interfaces[i].ip, q>>
            /\ r.filter = Filter(held[s][q].spec.reqs, interfaces[i])
            /\ r.count = entries[q].count
        BY <1>4, <3>1
      <3>3. interfaces[i].ip = ip /\ q = p
        BY <2>1, <2>3, <3>2
      <3> QED
        BY <3>2, <3>3
    <2>4. ASSUME ip \in entries[p].mapped
          PROVE  \E r \in CalledRules : r.source = x
      <3>1. ip \in Referred(p)
        BY <1>3, <2>4 DEF Finished, Exact
      <3>2. PICK s \in Services, i \in 1..Len(interfaces) : Called(s, p, i) /\ interfaces[i].ip = ip
        BY <1>3, <3>1 DEF Finished, Exact
      <3>3. CalledRule(s, p, i) \in CalledRules /\ CalledRule(s, p, i).source = x
        BY <1>4, <2>1, <3>2, CalledRulesAre
      <3> QED
        BY <3>3
    <2>5. (\E r \in CalledRules : r.source = x /\ r.filter = "any") <=> ip \in entries[p].mapped
      BY <2>3, <2>4
    <2>6. ASSUME \E r \in CalledRules : r.source = x
          PROVE  (CHOOSE r \in CalledRules : r.source = x).count = entries[p].count
      <3>1. PICK c : c = CHOOSE r \in CalledRules : r.source = x
        OBVIOUS
      <3>2. c \in CalledRules /\ c.source = x
        BY <2>6, <3>1
      <3> QED
        BY <2>3, <3>1, <3>2
    <2> QED
      BY <2>2, <2>5, <2>6
  <1> QED
    BY <1>6, <1>7

(* Spec => []Settled: until a port changes hands too early, after a sync    *)
(* that reported success, for any services, networks and bindings and       *)
(* however the steps before it were interleaved, failed and were retried,   *)
(* the kernel has exactly the rules that the leases call for, up to those   *)
(* whose last installation or removal failed, and exactly the public ones   *)
(* are mapped upstream.                                                     *)
THEOREM SyncSettles == Spec => []Settled
  <1>1. TypeOK /\ HandInv /\ Ledger /\ RestInv => Settled
    BY AtRest DEF Settled, CalledRules
  <1> QED
    BY <1>1, ForwardsTypeCorrect, LeasesInHand, LedgerKept, SyncsComeToRest, PTL
=============================================================================
