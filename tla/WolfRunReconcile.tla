--------------------------- MODULE WolfRunReconcile ---------------------------
(***************************************************************************)
(* The reconciler of WolfRun (wolfrun/mod.rs): how one Docker service gets *)
(* the replicas its operator asked for.                                    *)
(*                                                                         *)
(* Every node keeps books: what is wanted and the instances that are there *)
(* to the best of its knowledge.  A pass copies the books, asks the nodes  *)
(* for their containers, writes down what it saw, and creates, releases,   *)
(* restarts or forgets instances; the leader then promotes and provides    *)
(* standbys and sends its books to the others.  A request of the operator  *)
(* is served by whichever node it arrives at, which sends its books too,   *)
(* and runs a pass of its own.                                             *)
(*                                                                         *)
(* Between two steps of a pass its node serves requests, its other task    *)
(* and its peers' books come in, containers stop or disappear and nodes    *)
(* are cut off.  What goes wrong is drawn from a budget, so that every     *)
(* behaviour has finitely many such events, at any place.  How books       *)
(* travel, and how a service is deleted, is the subject of WolfRunGossip;  *)
(* here they arrive at once or not at all.                                 *)
(*                                                                         *)
(* Time is counted in passes: an instance that two passes in a row have    *)
(* not seen has been lost for five minutes, and a restart that a pass      *)
(* looks at again is due again.                                            *)
(***************************************************************************)
EXTENDS Naturals, FiniteSets, FiniteSetsExt, Functions

CONSTANTS
  N,            \* nodes 1 .. N, in the order of their ids
  Names,        \* container names, numbers
  Replicas,     \* the counts an operator asks for
  Entry,        \* the nodes an operator uses
  PerPass,      \* MAX_CREATES_PER_TICK
  MaxAttempts,  \* MAX_RESTART_ATTEMPTS
  MaxEdits,     \* bound: requests of the operator
  MaxFaults     \* bound: things that go wrong

ASSUME ReconcileAssumption ==
  /\ N \in Nat \ {0} /\ PerPass \in Nat \ {0} /\ {MaxAttempts, MaxEdits, MaxFaults} \subseteq Nat
  /\ Names \subseteq Nat /\ IsFiniteSet(Names) /\ 1 .. N \subseteq Names /\ Replicas \subseteq Nat \ {0} /\ 1 \in Replicas
  /\ Entry \subseteq 1 .. N

Nodes == 1 .. N
Tasks == {"loop", "handler"}

VARIABLES
  books,    \* books[n]: the service in services.json of n
  world,    \* the containers there are: name -> [node, up]
  cut,      \* the nodes on the other side of a partition than node 1
  tries,    \* RESTART_BACKOFF of n: restarts since x was seen running
  task,     \* task[n][k]: the pass under way
  edits, faults

vars == <<books, world, cut, tries, task, edits, faults>>

None == [x \in {} |-> 0]
Idle == [at |-> "idle", want |-> 0, failover |-> FALSE, live |-> None, left |-> 0, new |-> 0, to |-> {}]
Put(f, x, v) == [y \in DOMAIN f \cup {x} |-> IF y = x THEN v ELSE f[y]]
Without(f, S) == Restrict(f, DOMAIN f \ S)

Instance(m, status, standby) == [node |-> m, status |-> status, standby |-> standby, missed |-> FALSE]

(* One replica that runs, away from the leader, and with failover a        *)
(* standby on every other node; container m is on node m.                  *)
Provided(f) ==
  [replicas |-> 1, failover |-> f,
   insts |-> [m \in IF f THEN Nodes ELSE {N} |->
                Instance(m, IF m = N THEN "running" ELSE "exited", m # N)]]

Init ==
  /\ \E f \in BOOLEAN :
       /\ books = [n \in Nodes |-> Provided(f)]
       /\ world = [m \in DOMAIN Provided(f).insts |-> [node |-> m, up |-> m = N]]
  /\ cut = {}
  /\ tries = [n \in Nodes |-> [x \in Names |-> 0]]
  /\ task = [n \in Nodes |-> [k \in Tasks |-> Idle]]
  /\ edits = 0 /\ faults = 0

(* A step that may go wrong: it goes well, or a fault is spent on it.      *)
Fares(well) ==
  \/ well /\ faults' = faults
  \/ ~well /\ faults < MaxFaults /\ faults' = faults + 1

Sees(n) == {m \in Nodes : (m \in cut) <=> (n \in cut)}

(* is_leader: the lowest id among the nodes one sees online.               *)
IsLeader(n) == n = Min(Sees(n))

(* The names nothing and nobody uses.                                      *)
Free ==
  {x \in Names \ DOMAIN world :
     \A n \in Nodes : /\ x \notin DOMAIN books[n].insts
                      /\ \A k \in Tasks : x \notin DOMAIN task[n][k].live \cup {task[n][k].new}}

(* The code draws one of them.                                             *)
Fresh == Min(Free)

Listed(n) == books[n].insts
Active(insts) == {x \in DOMAIN insts : ~insts[x].standby /\ insts[x].status # "lost"}

-----------------------------------------------------------------------------
(* reconcile, by the loop of the leader or by a handler.                   *)

Reconciles(n, k) ==
  task[n][k].at \in {"observe", "create", "register", "release", "restart", "forget"}

(* The lock is taken and the books are copied.  A task that finds it taken *)
(* goes without the pass.                                                  *)
Begin(n, k) ==
  IF \E j \in Tasks : Reconciles(n, j)
  THEN /\ task' = [task EXCEPT ![n][k] = [Idle EXCEPT !.at = IF k = "loop" THEN "failover" ELSE "idle"]]
       /\ UNCHANGED <<books, world, cut, tries, edits, faults>>
  ELSE /\ task' = [task EXCEPT ![n][k] =
                     [Idle EXCEPT !.at = "observe", !.want = books[n].replicas,
                                  !.failover = books[n].failover, !.live = Listed(n)]]
       /\ tries' = [tries EXCEPT ![n] = [x \in Names |-> IF x \in DOMAIN Listed(n) THEN @[x] ELSE 0]]
       /\ UNCHANGED <<books, world, cut, edits, faults>>

Loop(n) ==
  /\ task[n]["loop"] = Idle
  /\ IsLeader(n)
  /\ Begin(n, "loop")

Handle(n) ==
  /\ task[n]["handler"].at = "begin"
  /\ Begin(n, "handler")

(* What a pass makes of an instance x.  Docker is not asked on a node that is*)
(* offline; of a node that does not answer nothing is concluded; where     *)
(* Docker does not answer the list is empty.                               *)
Status(n, x, i, deaf, blind) ==
  IF i.node \notin Sees(n) \/ i.node \in deaf THEN "offline"
  ELSE IF i.node \in blind \/ x \notin DOMAIN world THEN "lost"
  ELSE IF world[x].up THEN "running" ELSE "exited"

Seen(n, x, i, deaf, blind) ==
  LET status == Status(n, x, i, deaf, blind)
  IN [i EXCEPT !.status = status, !.missed = {i.status, status} \subseteq {"offline", "lost"}]

(* Mutant: standbys count as replicas.                                     *)
ExistingWithStandby(insts) ==
  Cardinality({x \in DOMAIN insts : insts[x].status # "lost"})

Existing(insts) == Cardinality(Active(insts))

(* What was seen replaces what the books have become meanwhile.            *)
Observe(n, k, deaf, blind) ==
  /\ task[n][k].at = "observe"
  /\ Fares(deaf = {} /\ blind = {})
  /\ Cardinality(deaf \cup blind) <= 1 /\ deaf \cap blind = {}
  /\ LET t == task[n][k]
         live == [x \in DOMAIN t.live |-> Seen(n, x, t.live[x], deaf, blind)]
         e == Existing(live)
     IN /\ books' = [books EXCEPT ![n].insts = live]
        /\ task' = [task EXCEPT ![n][k] =
                       [@ EXCEPT !.live = live,
                                 !.left = IF e < t.want THEN Min({t.want - e, PerPass}) ELSE 0,
                                 !.at = IF e < t.want THEN "create"
                                        ELSE IF e > t.want THEN "release" ELSE "restart"]]
  /\ UNCHANGED <<world, cut, tries, edits>>

(* schedule: the nodes with the fewest running instances; their load       *)
(* decides between them.                                                   *)
Load(n, m) == Cardinality({x \in DOMAIN Listed(n) : Listed(n)[x].node = m /\ Listed(n)[x].status = "running"})
Schedule(n) == {m \in Sees(n) : \A o \in Sees(n) : Load(n, m) <= Load(n, o)}

(* Mutant: one replica too many is created.                                *)
CountedLate(t) == [t EXCEPT !.left = @ - 1, !.at = IF t.left = 0 THEN "restart" ELSE "create",
                            !.new = 0, !.to = {}]

(* The next replica of this pass, of which there are at most PerPass.      *)
Counted(t) == [t EXCEPT !.left = @ - 1, !.at = IF t.left = 1 THEN "restart" ELSE "create",
                        !.new = 0, !.to = {}]

(* deploy_docker: the container is created and started.  It may not be     *)
(* created, be created without the answer arriving, or not be started.     *)
Deploy(n, k, m, outcome) ==
  /\ task[n][k].at = "create"
  /\ m \in Schedule(n) /\ Free # {}
  /\ Fares(outcome = "running")
  /\ outcome = "unheard" => m # n
  /\ world' = IF outcome = "failed" THEN world
              ELSE Put(world, Fresh, [node |-> m, up |-> outcome = "running"])
  /\ task' = IF outcome \in {"failed", "unheard"}
             THEN [task EXCEPT ![n][k] = Counted(@)]
             ELSE [task EXCEPT ![n][k] = [@ EXCEPT !.at = "register", !.new = Fresh, !.to = {m}]]
  /\ UNCHANGED <<books, cut, tries, edits>>

(* add_instance.                                                           *)
Register(n, k) ==
  /\ task[n][k].at = "register"
  /\ \E m \in task[n][k].to :
       books' = [books EXCEPT ![n].insts = Put(@, task[n][k].new, Instance(m, "running", FALSE))]
  /\ task' = [task EXCEPT ![n][k] = Counted(@)]
  /\ UNCHANGED <<world, cut, tries, edits, faults>>

(* Scaling down: the excess is released, not stopped; first what does not  *)
(* run, then from the most crowded node.                                   *)
Release(n, k, S) ==
  /\ task[n][k].at = "release"
  /\ LET live == task[n][k].live
         Crowd(x) == Cardinality({y \in Active(live) : live[y].node = live[x].node})
         Before(x, y) == \/ live[x].status # "running" /\ live[y].status = "running"
                         \/ /\ (live[x].status = "running") <=> (live[y].status = "running")
                            /\ Crowd(x) >= Crowd(y)
     IN /\ S \subseteq Active(live)
        /\ Cardinality(S) = Existing(live) - task[n][k].want
        /\ \A x \in S, y \in Active(live) \ S : Before(x, y)
  /\ books' = [books EXCEPT ![n].insts = Without(@, S)]
  /\ task' = [task EXCEPT ![n][k].at = "restart"]
  /\ UNCHANGED <<world, cut, tries, edits, faults>>

(* The restart policy: what does not run is started again, and not more    *)
(* than MaxAttempts times.                                                 *)
Restart(n, k, well) ==
  /\ task[n][k].at = "restart"
  /\ Fares(well)
  /\ LET live == task[n][k].live
         due == {x \in Active(live) : live[x].status = "exited" /\ tries[n][x] < MaxAttempts}
         started == {x \in due \cap DOMAIN world : world[x].node \in Sees(n) /\ well}
     IN /\ well \/ due # {}
        /\ world' = [x \in DOMAIN world |-> [world[x] EXCEPT !.up = @ \/ x \in started]]
        /\ tries' = [tries EXCEPT ![n] =
                       [x \in Names |-> IF x \in due THEN @[x] + 1
                                        ELSE IF x \in Active(live) /\ live[x].status = "running" THEN 0
                                        ELSE @[x]]]
  /\ task' = [task EXCEPT ![n][k].at = "forget"]
  /\ UNCHANGED <<books, cut, edits>>

(* What has been lost for five minutes is forgotten, and without failover  *)
(* the standbys are destroyed.                                             *)
Forget(n, k) ==
  /\ task[n][k].at = "forget"
  /\ LET live == task[n][k].live
         old == {x \in DOMAIN live : live[x].status = "lost" /\ live[x].missed}
         spare == {x \in DOMAIN live : live[x].standby /\ ~task[n][k].failover}
     IN /\ books' = [books EXCEPT ![n].insts = Without(@, old \cup spare)]
        /\ world' = Without(world, {x \in spare \cap DOMAIN world : world[x].node \in Sees(n)})
  /\ task' = [task EXCEPT ![n][k] = [Idle EXCEPT !.at = IF k = "loop" THEN "failover" ELSE "idle"]]
  /\ UNCHANGED <<cut, tries, edits, faults>>

-----------------------------------------------------------------------------
(* check_failover and manage_standby, by the loop.                         *)

Failed(n) ==
  {x \in DOMAIN Listed(n) : /\ books[n].failover
                            /\ ~Listed(n)[x].standby
                            /\ Listed(n)[x].status \in {"offline", "lost"}
                            /\ Listed(n)[x].node \notin Sees(n)}

(* Instances on nodes that are offline are to be replaced.                 *)
CheckFailover(n) ==
  /\ task[n]["loop"].at = "failover"
  /\ Failed(n) # {}
  /\ task' = [task EXCEPT ![n]["loop"] =
                [Idle EXCEPT !.at = "promote", !.live = Listed(n), !.to = Failed(n)]]
  /\ UNCHANGED <<books, world, cut, tries, edits, faults>>

Ready(n) ==
  LET live == task[n]["loop"].live
  IN {x \in DOMAIN live : live[x].standby /\ live[x].status # "lost" /\ live[x].node \in Sees(n)}

(* Mutant: the standby is entered on the node of the instance it replaces. *)
PromoteInPlace(n, f, s, outcome) ==
  /\ task[n]["loop"].at = "promote"
  /\ f \in task[n]["loop"].to /\ s \in Ready(n)
  /\ Fares(outcome = "started")
  /\ outcome = "unheard" => task[n]["loop"].live[s].node # n /\ s \in DOMAIN world
  /\ LET runs == outcome # "failed" /\ s \in DOMAIN world
     IN /\ world' = IF runs THEN [world EXCEPT ![s].up = TRUE] ELSE world
        /\ books' = IF ~runs \/ outcome = "unheard" THEN books
                    ELSE [books EXCEPT ![n].insts =
                            [x \in DOMAIN @ \ {f} |->
                               IF x = s THEN Instance(@[f].node, "running", FALSE) ELSE @[x]]]
  /\ LET t == task[n]["loop"]
     IN task' = [task EXCEPT ![n]["loop"] = [t EXCEPT !.to = t.to \ {f}, !.live = Without(t.live, {s})]]
  /\ UNCHANGED <<cut, tries, edits>>

(* A standby is started in the place of an instance and entered for it; it *)
(* may start without the answer arriving.                                  *)
Promote(n, f, s, outcome) ==
  /\ task[n]["loop"].at = "promote"
  /\ f \in task[n]["loop"].to /\ s \in Ready(n)
  /\ Fares(outcome = "started")
  /\ outcome = "unheard" => task[n]["loop"].live[s].node # n /\ s \in DOMAIN world
  /\ LET runs == outcome # "failed" /\ s \in DOMAIN world
     IN /\ world' = IF runs THEN [world EXCEPT ![s].up = TRUE] ELSE world
        /\ books' = IF ~runs \/ outcome = "unheard" THEN books
                    ELSE [books EXCEPT ![n].insts =
                            [x \in DOMAIN @ \ {f} |->
                               IF x = s THEN Instance(@[x].node, "running", FALSE) ELSE @[x]]]
  /\ LET t == task[n]["loop"]
     IN task' = [task EXCEPT ![n]["loop"] = [t EXCEPT !.to = t.to \ {f}, !.live = Without(t.live, {s})]]
  /\ UNCHANGED <<cut, tries, edits>>

Promoted(n) ==
  /\ task[n]["loop"].at = "promote"
  /\ task[n]["loop"].to = {} \/ Ready(n) = {}
  /\ task' = [task EXCEPT ![n]["loop"] = [Idle EXCEPT !.at = "standby"]]
  /\ UNCHANGED <<books, world, cut, tries, edits, faults>>

(* The nodes to get a standby: those without an instance, if there is one  *)
(* to copy.                                                                *)
Bare(n) ==
  LET here == {x \in DOMAIN Listed(n) : Listed(n)[x].status # "lost"}
  IN {m \in Sees(n) : /\ books[n].failover
                      /\ \E x \in here : Listed(n)[x].status = "running"
                      /\ \A x \in here : Listed(n)[x].node # m}

FailoverDone(n) ==
  \/ task[n]["loop"].at = "standby"
  \/ task[n]["loop"].at = "failover" /\ Failed(n) = {}

ManageStandby(n) ==
  /\ FailoverDone(n)
  /\ Bare(n) # {}
  /\ task' = [task EXCEPT ![n]["loop"] = [Idle EXCEPT !.at = "enlist", !.to = Bare(n)]]
  /\ UNCHANGED <<books, world, cut, tries, edits, faults>>

(* It is entered in the books before it is created.                        *)
Enlist(n, m) ==
  /\ task[n]["loop"].at = "enlist" /\ m \in task[n]["loop"].to /\ Free # {}
  /\ books' = [books EXCEPT ![n].insts = Put(@, Fresh, Instance(m, "standby", TRUE))]
  /\ task' = [task EXCEPT ![n]["loop"] = [@ EXCEPT !.at = "provide", !.new = Fresh, !.left = m]]
  /\ UNCHANGED <<world, cut, tries, edits, faults>>

Provide(n, outcome) ==
  /\ task[n]["loop"].at = "provide"
  /\ Fares(outcome = "created" \/ task[n]["loop"].left \notin Sees(n))
  /\ LET x == task[n]["loop"].new
         m == task[n]["loop"].left
     IN /\ m \notin Sees(n) => outcome = "failed"
        /\ outcome = "unheard" => m # n
        /\ world' = IF outcome = "failed" THEN world ELSE Put(world, x, [node |-> m, up |-> FALSE])
        /\ books' = IF outcome = "created" THEN books ELSE [books EXCEPT ![n].insts = Without(@, {x})]
        /\ task' = [task EXCEPT ![n]["loop"] = [Idle EXCEPT !.at = "enlist", !.to = task[n]["loop"].to \ {m}]]
  /\ UNCHANGED <<cut, tries, edits>>

(* broadcast_to_cluster.                                                   *)
Told(n, b) == [m \in Nodes |-> IF m \in Sees(n) THEN b ELSE books[m]]

Broadcast(n, well) ==
  /\ \/ FailoverDone(n) /\ Bare(n) = {}
     \/ task[n]["loop"].at = "enlist" /\ task[n]["loop"].to = {}
  /\ Fares(well)
  /\ books' = IF well THEN Told(n, books[n]) ELSE books
  /\ task' = [task EXCEPT ![n]["loop"] = Idle]
  /\ UNCHANGED <<world, cut, tries, edits>>

-----------------------------------------------------------------------------
(* The operator, at a node of Entry: the books there change and are sent,  *)
(* and, unless it is the image that changes, a pass begins there (for a    *)
(* change of scale the code repeats it twice; here it runs once).          *)

Edit(n, b, next, well) ==
  /\ edits < MaxEdits
  /\ edits' = edits + 1
  /\ task[n]["handler"] = Idle
  /\ Fares(well)
  /\ books' = IF well THEN Told(n, b) ELSE [books EXCEPT ![n] = b]
  /\ task' = [task EXCEPT ![n]["handler"].at = next]
  /\ UNCHANGED <<world, cut, tries>>

Scale(n, r, well) == Edit(n, [books[n] EXCEPT !.replicas = r], "begin", well)

Settings(n, well) == Edit(n, [books[n] EXCEPT !.failover = ~@], "begin", well)

(* wolfrun_update: the instances are struck off, for new ones to come.     *)
UpdateImage(n, well) == Edit(n, [books[n] EXCEPT !.insts = None], "idle", well)

-----------------------------------------------------------------------------
(* What goes wrong.                                                        *)

Exit(x) ==
  /\ Fares(FALSE)
  /\ world[x].up
  /\ world' = [world EXCEPT ![x].up = FALSE]
  /\ UNCHANGED <<books, cut, tries, task, edits>>

Vanish(x) ==
  /\ Fares(FALSE)
  /\ world' = Without(world, {x})
  /\ UNCHANGED <<books, cut, tries, task, edits>>

CutOff(side) ==
  /\ Fares(FALSE)
  /\ cut = {} /\ side # {}
  /\ cut' = side
  /\ UNCHANGED <<books, world, tries, task, edits>>

(* WolfStack stops in a pass and starts again; the containers go on.       *)
Crash(n) ==
  /\ Fares(FALSE)
  /\ \E k \in Tasks : task[n][k] # Idle
  /\ task' = [task EXCEPT ![n] = [k \in Tasks |-> Idle]]
  /\ tries' = [tries EXCEPT ![n] = [x \in Names |-> 0]]
  /\ UNCHANGED <<books, world, cut, edits>>

Heal ==
  /\ cut # {}
  /\ cut' = {}
  /\ UNCHANGED <<books, world, tries, task, edits, faults>>

-----------------------------------------------------------------------------
Pass(n, k) ==
  \/ /\ task[n][k].at = "observe"
     /\ \E deaf \in SUBSET (Nodes \ {n}), blind \in SUBSET Nodes : Observe(n, k, deaf, blind)
  \/ /\ task[n][k].at = "create"
     /\ \E m \in Nodes, outcome \in {"failed", "unheard", "stopped", "running"} : Deploy(n, k, m, outcome)
  \/ Register(n, k)
  \/ /\ task[n][k].at = "release"
     /\ \E S \in SUBSET DOMAIN task[n][k].live : Release(n, k, S)
  \/ \E well \in BOOLEAN : Restart(n, k, well)
  \/ Forget(n, k)

Failover(n) ==
  \/ CheckFailover(n)
  \/ \E f \in task[n]["loop"].to, s \in Ready(n), outcome \in {"failed", "unheard", "started"} :
       Promote(n, f, s, outcome)
  \/ Promoted(n)
  \/ ManageStandby(n)
  \/ \E m \in Nodes : Enlist(n, m)
  \/ \E outcome \in {"failed", "unheard", "created"} : Provide(n, outcome)
  \/ \E well \in BOOLEAN : Broadcast(n, well)

Operator(n) ==
  \E well \in BOOLEAN :
    \/ \E r \in Replicas : Scale(n, r, well)
    \/ Settings(n, well)
    \/ UpdateImage(n, well)

Harm ==
  \/ \E n \in Nodes : \E x \in DOMAIN Listed(n) \cap DOMAIN world : Exit(x) \/ Vanish(x)
  \/ \E side \in SUBSET (Nodes \ {1}) : CutOff(side)
  \/ \E n \in Nodes : Crash(n)

LoopStep(n) == Loop(n) \/ Pass(n, "loop") \/ Failover(n)
HandlerStep(n) == Handle(n) \/ Pass(n, "handler")

Next ==
  \/ \E n \in Nodes : LoopStep(n) \/ HandlerStep(n)
  \/ \E n \in Entry : Operator(n)
  \/ Harm \/ Heal

Spec == Init /\ [][Next]_vars

(* The tasks go on, the leader's loop comes round every 15 seconds, and a  *)
(* partition ends.                                                         *)
FairSpec ==
  /\ Spec
  /\ WF_vars(Heal)
  /\ \A n \in Nodes : WF_vars(LoopStep(n))
  /\ \A n \in Entry : WF_vars(HandlerStep(n))

-----------------------------------------------------------------------------
Statuses == {"running", "exited", "offline", "lost", "standby"}
IsList(f) ==
  /\ DOMAIN f \subseteq Names
  /\ f \in [DOMAIN f -> [node : Nodes, status : Statuses, standby : BOOLEAN, missed : BOOLEAN]]

(* The types of the state.                                                 *)
TypeOK ==
  /\ \A n \in Nodes : /\ books[n].replicas \in Replicas /\ books[n].failover \in BOOLEAN
                      /\ IsList(books[n].insts)
                      /\ \A k \in Tasks : /\ IsList(task[n][k].live)
                                          /\ task[n][k].left \in 0 .. Max({PerPass, N})
                                          /\ task[n][k].to \subseteq Nodes \cup Names
  /\ DOMAIN world \subseteq Names /\ world \in [DOMAIN world -> [node : Nodes, up : BOOLEAN]]
  /\ cut \subseteq Nodes
  /\ tries \in [Nodes -> [Names -> 0 .. MaxAttempts]]
  /\ edits \in 0 .. MaxEdits /\ faults \in 0 .. MaxFaults

(* An instance is on the node that the books name, whoever keeps them, and *)
(* however old they are: a pass looks for it, starts it and destroys it    *)
(* there ("node_matches_id(n, &inst.node_id)", reconcile, check_failover). *)
BooksLocate ==
  \A n \in Nodes : \A x \in DOMAIN books[n].insts \cap DOMAIN world :
    books[n].insts[x].node = world[x].node

(* What the operator asked for is there: as many instances as replicas,    *)
(* each with a container on its node, running unless WolfRun has given it  *)
(* up, and all nodes know.                                                 *)
Provisioned ==
  LET insts == books[1].insts
  IN /\ Cardinality(Active(insts)) = books[1].replicas
     /\ \A x \in Active(insts) : /\ x \in DOMAIN world
                                 /\ world[x].node = insts[x].node
                                 /\ world[x].up \/ tries[1][x] = MaxAttempts
     /\ \A n \in Nodes : books[n] = books[1]

(* "The reconciler ... will detect under-provisioning and schedule a       *)
(* replacement": whatever has gone wrong, when, and while which passes     *)
(* were under way, the service ends up as its operator wanted it.          *)
ReachesDesired == <>[]Provisioned

(* "Only the cluster leader runs reconciliation to prevent duplicate       *)
(* container creation" (main.rs:4459): when nothing goes wrong, no more    *)
(* containers run than were ever asked for at once.                        *)
NoDuplicates == Cardinality({x \in DOMAIN world : world[x].up}) <= Max(Replicas)
=============================================================================
