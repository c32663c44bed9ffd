------------------------ MODULE WolfRunReconcileProofs ------------------------
(***************************************************************************)
(* Proofs about WolfRunReconcile, for any number of nodes, any names,      *)
(* counts, operators and bounds.                                           *)
(*                                                                         *)
(* That the books of a node name the place of every container is not       *)
(* inductive: books are copied by passes that write them back much later,  *)
(* sent to other nodes, and a container is entered after it was created,   *)
(* or before.  The invariant therefore speaks of everybody who takes a     *)
(* container to be somewhere - the world, all books, all copies and all    *)
(* creations under way - and says that no two of them disagree.            *)
(***************************************************************************)
EXTENDS WolfRunReconcile, ListFacts, FiniteSetTheorems, TLAPS

Instances == [node : Nodes, status : Statuses, standby : BOOLEAN, missed : BOOLEAN]
Lists == UNION {[S -> Instances] : S \in SUBSET Names}
Worlds == UNION {[S -> [node : Nodes, up : BOOLEAN]] : S \in SUBSET Names}
Books == [replicas : Replicas, failover : BOOLEAN, insts : Lists]

Steps == {"idle", "begin", "observe", "create", "register", "release", "restart", "forget",
          "failover", "promote", "standby", "enlist", "provide"}

(* What a pass has in hand at each of its steps.                           *)
InHand(t) ==
  /\ t.left <= PerPass \/ t.left \in Nodes
  /\ t.at \in {"create", "register"} => t.left \in 1 .. PerPass
  /\ t.at = "register" => t.new \in Names /\ t.to \subseteq Nodes
  /\ t.at \in {"enlist", "provide"} => t.to \subseteq Nodes
  /\ t.at = "provide" => t.new \in Names /\ t.left \in Nodes

Fields == [at : Steps, want : Nat, failover : BOOLEAN, live : Lists, left : Nat, new : Nat,
           to : SUBSET Names]
Passes == {t \in Fields : InHand(t)}

(* Who takes container x to be on node m: a list that has it there, and a  *)
(* pass that is creating it there.                                         *)
On(f, x, m) == x \in DOMAIN f /\ f[x].node = m
Claims(t, x, m) ==
  \/ On(t.live, x, m)
  \/ t.at = "register" /\ t.new = x /\ m \in t.to
  \/ t.at = "provide" /\ t.new = x /\ t.left = m
At(x, m) ==
  \/ On(world, x, m)
  \/ \E n \in Nodes : On(books[n].insts, x, m)
  \/ \E n \in Nodes, k \in Tasks : Claims(task[n][k], x, m)

(* No two of them disagree.                                                *)
OnePlace == \A x \in Names : \A m, o \in Nodes : At(x, m) /\ At(x, o) => m = o

BookTypes == books \in [Nodes -> Books]
PassTypes == task \in [Nodes -> [Tasks -> Passes]]
CountTypes ==
  /\ cut \subseteq Nodes
  /\ tries \in [Nodes -> [Names -> 0 .. MaxAttempts]]
  /\ edits \in 0 .. MaxEdits /\ faults \in 0 .. MaxFaults

ReconcileInv == BookTypes /\ PassTypes /\ world \in Worlds /\ CountTypes /\ OnePlace

-----------------------------------------------------------------------------
LEMMA ListMembers ==
  /\ \A f : f \in Lists <=> IsList(f)
  /\ \A f : f \in Worlds <=> DOMAIN f \subseteq Names /\ f \in [DOMAIN f -> [node : Nodes, up : BOOLEAN]]
<1>1. ASSUME NEW f, f \in Lists PROVE IsList(f)
  BY <1>1 DEF Lists, IsList, Instances
<1>2. ASSUME NEW f, IsList(f) PROVE f \in Lists
  BY <1>2 DEF Lists, IsList, Instances
<1>3. ASSUME NEW f, f \in Worlds
      PROVE  DOMAIN f \subseteq Names /\ f \in [DOMAIN f -> [node : Nodes, up : BOOLEAN]]
  BY <1>3 DEF Worlds
<1>4. ASSUME NEW f, DOMAIN f \subseteq Names, f \in [DOMAIN f -> [node : Nodes, up : BOOLEAN]]
      PROVE  f \in Worlds
  BY <1>4 DEF Worlds
<1> QED BY <1>1, <1>2, <1>3, <1>4

LEMMA MaxOfTwo ==
  ASSUME NEW a \in Nat, NEW b \in Nat
  PROVE  Max({a, b}) \in {a, b} /\ a <= Max({a, b}) /\ b <= Max({a, b})
<1>1. \E x \in {a, b} : \A y \in {a, b} : x >= y
  OBVIOUS
<1>2. Max({a, b}) \in {a, b} /\ \A y \in {a, b} : Max({a, b}) >= y
  BY <1>1 DEF Max
<1> QED BY <1>2

LEMMA MinOfTwo ==
  ASSUME NEW a \in Nat, NEW b \in Nat
  PROVE  Min({a, b}) \in {a, b} /\ Min({a, b}) <= a /\ Min({a, b}) <= b
<1>1. \E x \in {a, b} : \A y \in {a, b} : x <= y
  OBVIOUS
<1>2. Min({a, b}) \in {a, b} /\ \A y \in {a, b} : Min({a, b}) <= y
  BY <1>1 DEF Min
<1> QED BY <1>2

(* The invariant gives the types of the model.                             *)
LEMMA InvTypes ==
  ASSUME ReconcileInv
  PROVE  TypeOK
<1>1. N \in Nat /\ PerPass \in Nat /\ Nodes \subseteq Names /\ Names \subseteq Nat
  BY ReconcileAssumption DEF Nodes
<1>2. ASSUME NEW n \in Nodes
      PROVE  books[n].replicas \in Replicas /\ books[n].failover \in BOOLEAN /\ IsList(books[n].insts)
  BY ListMembers DEF ReconcileInv, BookTypes, Books
<1>3. ASSUME NEW n \in Nodes, NEW k \in Tasks
      PROVE  /\ IsList(task[n][k].live)
             /\ task[n][k].left \in 0 .. Max({PerPass, N})
             /\ task[n][k].to \subseteq Nodes \cup Names
  <2>1. PICK t \in Passes : task[n][k] = t
    BY DEF ReconcileInv, PassTypes
  <2>2. /\ t.live \in Lists /\ t.left \in Nat /\ t.to \subseteq Names
        /\ t.left <= PerPass \/ t.left \in 1 .. N
    BY DEF Passes, Fields, InHand, Nodes
  <2>3. t.left \in 0 .. Max({PerPass, N})
    BY <1>1, <2>2, MaxOfTwo
  <2> QED BY <2>1, <2>2, <2>3, ListMembers
<1> QED BY <1>2, <1>3, ListMembers DEF TypeOK, ReconcileInv, CountTypes

(* ... and the place of every container.                                   *)
LEMMA InvLocates ==
  ASSUME ReconcileInv
  PROVE  BooksLocate
<1> SUFFICES ASSUME NEW n \in Nodes, NEW x \in DOMAIN books[n].insts \cap DOMAIN world
             PROVE  books[n].insts[x].node = world[x].node
  BY DEF BooksLocate
<1>1. IsList(books[n].insts)
  BY InvTypes DEF TypeOK
<1>2. x \in Names /\ books[n].insts[x].node \in Nodes
  BY <1>1 DEF IsList
<1>3. world[x].node \in Nodes
  BY ListMembers DEF ReconcileInv
<1>4. At(x, books[n].insts[x].node) /\ At(x, world[x].node)
  BY DEF At, On
<1> QED BY <1>2, <1>3, <1>4 DEF ReconcileInv, OnePlace

-----------------------------------------------------------------------------
(* The lists.                                                              *)

LEMMA PutFacts ==
  ASSUME NEW f, NEW x, NEW v
  PROVE  /\ f \in Lists /\ x \in Names /\ v \in Instances => Put(f, x, v) \in Lists
         /\ f \in Worlds /\ x \in Names /\ v \in [node : Nodes, up : BOOLEAN] => Put(f, x, v) \in Worlds
         /\ \A y, m : On(Put(f, x, v), y, m) => On(f, y, m) \/ (y = x /\ m = v.node)
<1> DEFINE g == Put(f, x, v)
<1>1. /\ DOMAIN g = DOMAIN f \cup {x} /\ g[x] = v
      /\ \A y \in DOMAIN f \ {x} : g[y] = f[y]
      /\ g = [y \in DOMAIN f \cup {x} |-> g[y]]
  BY DEF Put
<1> SUFFICES /\ f \in Lists /\ x \in Names /\ v \in Instances => g \in Lists
             /\ f \in Worlds /\ x \in Names /\ v \in [node : Nodes, up : BOOLEAN] => g \in Worlds
             /\ \A y, m : On(g, y, m) => On(f, y, m) \/ (y = x /\ m = v.node)
  OBVIOUS
<1> HIDE DEF g
<1>2. ASSUME f \in Lists, x \in Names, v \in Instances PROVE g \in Lists
  BY <1>1, <1>2, ListMembers DEF IsList, Instances
<1>3. ASSUME f \in Worlds, x \in Names, v \in [node : Nodes, up : BOOLEAN] PROVE g \in Worlds
  BY <1>1, <1>3, ListMembers
<1>4. \A y, m : On(g, y, m) => On(f, y, m) \/ (y = x /\ m = v.node)
  BY <1>1 DEF On
<1> QED BY <1>2, <1>3, <1>4

LEMMA WithoutFacts ==
  ASSUME NEW f, NEW S
  PROVE  /\ f \in Lists => Without(f, S) \in Lists
         /\ f \in Worlds => Without(f, S) \in Worlds
         /\ \A y, m : On(Without(f, S), y, m) => On(f, y, m)
<1> DEFINE g == Without(f, S)
<1>1. /\ DOMAIN g = DOMAIN f \ S
      /\ \A y \in DOMAIN f \ S : g[y] = f[y]
      /\ g = [y \in DOMAIN f \ S |-> g[y]]
  BY DEF Without, Restrict
<1> SUFFICES /\ f \in Lists => g \in Lists
             /\ f \in Worlds => g \in Worlds
             /\ \A y, m : On(g, y, m) => On(f, y, m)
  OBVIOUS
<1> HIDE DEF g
<1>2. ASSUME f \in Lists PROVE g \in Lists
  BY <1>1, <1>2, ListMembers DEF IsList
<1>3. ASSUME f \in Worlds PROVE g \in Worlds
  BY <1>1, <1>3, ListMembers
<1>4. \A y, m : On(g, y, m) => On(f, y, m)
  BY <1>1 DEF On
<1> QED BY <1>2, <1>3, <1>4

(* A list that was gone through: the same instances on the same nodes.     *)
LEMMA SeenFacts ==
  ASSUME NEW n, NEW f \in Lists, NEW deaf, NEW blind, NEW g,
         g = [x \in DOMAIN f |-> Seen(n, x, f[x], deaf, blind)]
  PROVE  g \in Lists /\ \A y, m : On(g, y, m) => On(f, y, m)
<1>1. IsList(f)
  BY ListMembers
<1>2. ASSUME NEW x \in DOMAIN f
      PROVE  Seen(n, x, f[x], deaf, blind) \in Instances /\ Seen(n, x, f[x], deaf, blind).node = f[x].node
  <2>1. f[x] \in Instances
    BY <1>1 DEF IsList, Instances
  <2>2. Status(n, x, f[x], deaf, blind) \in Statuses
    BY DEF Status, Statuses
  <2> HIDE DEF Status
  <2> QED BY <2>1, <2>2 DEF Seen, Instances
<1>3. IsList(g)
  BY <1>1, <1>2 DEF IsList, Instances
<1>4. \A y, m : On(g, y, m) => On(f, y, m)
  BY <1>2 DEF On
<1> QED BY <1>3, <1>4, ListMembers

LEMMA NoneFacts ==
  None \in Lists /\ \A y, m : ~On(None, y, m)
<1>1. IsList(None)
  BY DEF None, IsList
<1> QED BY <1>1, ListMembers DEF None, On

-----------------------------------------------------------------------------
(* A step after which nobody takes a container to be where nobody took it  *)
(* to be, and one that adds a container nobody knew.                       *)
LEMMA PlaceKept ==
  ASSUME ReconcileInv,
         \A x \in Names, m \in Nodes : On(world', x, m) => At(x, m),
         \A p \in Nodes, x \in Names, m \in Nodes : On(books'[p].insts, x, m) => At(x, m),
         \A p \in Nodes, j \in Tasks, x \in Names, m \in Nodes : Claims(task'[p][j], x, m) => At(x, m)
  PROVE  OnePlace'
<1>1. ASSUME NEW x \in Names, NEW m \in Nodes, At(x, m)' PROVE At(x, m)
  <2>1. \/ On(world', x, m)
        \/ \E p \in Nodes : On(books'[p].insts, x, m)
        \/ \E p \in Nodes, j \in Tasks : Claims(task'[p][j], x, m)
    BY <1>1 DEF At
  <2> QED BY <2>1
<1> QED BY <1>1 DEF ReconcileInv, OnePlace

LEMMA PlaceAdded ==
  ASSUME ReconcileInv, NEW y, NEW o, \A m \in Nodes : ~At(y, m),
         \A x \in Names, m \in Nodes : On(world', x, m) => At(x, m) \/ (x = y /\ m = o),
         \A p \in Nodes, x \in Names, m \in Nodes :
           On(books'[p].insts, x, m) => At(x, m) \/ (x = y /\ m = o),
         \A p \in Nodes, j \in Tasks, x \in Names, m \in Nodes :
           Claims(task'[p][j], x, m) => At(x, m) \/ (x = y /\ m = o)
  PROVE  OnePlace'
<1>1. ASSUME NEW x \in Names, NEW m \in Nodes, At(x, m)' PROVE At(x, m) \/ (x = y /\ m = o)
  <2>1. \/ On(world', x, m)
        \/ \E p \in Nodes : On(books'[p].insts, x, m)
        \/ \E p \in Nodes, j \in Tasks : Claims(task'[p][j], x, m)
    BY <1>1 DEF At
  <2> QED BY <2>1
<1> QED BY <1>1 DEF ReconcileInv, OnePlace

LEMMA Known ==
  /\ \A x, m : On(world, x, m) => At(x, m)
  /\ \A x, m : \A p \in Nodes : On(books[p].insts, x, m) => At(x, m)
  /\ \A x, m : \A p \in Nodes, j \in Tasks : Claims(task[p][j], x, m) => At(x, m)
  /\ \A x, m : \A p \in Nodes, j \in Tasks : On(task[p][j].live, x, m) => At(x, m)
BY DEF At, Claims

LEMMA FreshFacts ==
  ASSUME ReconcileInv, Free # {}
  PROVE  Fresh \in Names /\ \A m \in Nodes : ~At(Fresh, m)
<1>1. Free \subseteq Names /\ Names \subseteq Nat
  BY ReconcileAssumption DEF Free
<1>2. Fresh \in Free
  BY <1>1, LeastExists DEF Fresh, Min
<1>3. /\ Fresh \notin DOMAIN world
      /\ \A n \in Nodes : Fresh \notin DOMAIN books[n].insts
      /\ \A n \in Nodes, k \in Tasks : Fresh \notin DOMAIN task[n][k].live /\ Fresh # task[n][k].new
  BY <1>2 DEF Free
<1> QED BY <1>1, <1>2, <1>3 DEF At, On, Claims

(* One pass, or the books of one node, change.                             *)
LEMMA PassChanged ==
  ASSUME PassTypes, NEW n \in Nodes, NEW k \in Tasks, NEW t \in Passes,
         task' = [task EXCEPT ![n][k] = t]
  PROVE  /\ PassTypes'
         /\ \A p \in Nodes, j \in Tasks : task'[p][j] = t \/ task'[p][j] = task[p][j]
BY DEF PassTypes

LEMMA BooksChanged ==
  ASSUME BookTypes, NEW n \in Nodes, NEW f \in Lists,
         books' = [books EXCEPT ![n].insts = f]
  PROVE  /\ BookTypes'
         /\ \A p \in Nodes : books'[p].insts = f \/ books'[p].insts = books[p].insts
BY DEF BookTypes, Books

LEMMA FaresTypes ==
  ASSUME faults \in 0 .. MaxFaults, NEW well \in BOOLEAN, Fares(well)
  PROVE  faults' \in 0 .. MaxFaults
BY ReconcileAssumption DEF Fares

LEMMA IdleFields ==
  Idle \in Fields
BY NoneFacts DEF Idle, Fields, Steps

LEMMA AtChanged ==
  ASSUME NEW t \in Fields, NEW at \in Steps
  PROVE  [t EXCEPT !.at = at] = [at |-> at, want |-> t.want, failover |-> t.failover, live |-> t.live,
                                 left |-> t.left, new |-> t.new, to |-> t.to]
BY DEF Fields

(* A pass that rests, or that gets ready to, creates nothing.              *)
LEMMA Rest ==
  ASSUME NEW at \in Steps \ {"create", "register", "enlist", "provide"}
  PROVE  /\ [Idle EXCEPT !.at = at] \in Passes
         /\ \A x, m : ~Claims([Idle EXCEPT !.at = at], x, m)
<1> DEFINE t == [Idle EXCEPT !.at = at]
<1>0. /\ Idle.want = 0 /\ Idle.failover = FALSE /\ Idle.live = None /\ Idle.left = 0
      /\ Idle.new = 0 /\ Idle.to = {}
  BY DEF Idle
<1>1. t = [at |-> at, want |-> 0, failover |-> FALSE, live |-> None, left |-> 0, new |-> 0, to |-> {}]
  BY <1>0, IdleFields, AtChanged
<1> SUFFICES t \in Passes /\ \A x, m : ~Claims(t, x, m)
  OBVIOUS
<1> HIDE DEF t
<1> QED BY <1>1, NoneFacts, ReconcileAssumption DEF Passes, Fields, InHand, Claims

LEMMA IdleRests ==
  Idle = [Idle EXCEPT !.at = "idle"] /\ Idle \in Passes /\ \A x, m : ~Claims(Idle, x, m)
<1>1. Idle = [Idle EXCEPT !.at = "idle"]
  <2>1. Idle.at = "idle" /\ "idle" \in Steps
    BY DEF Idle, Steps
  <2>2. [Idle EXCEPT !.at = "idle"] =
          [at |-> Idle.at, want |-> Idle.want, failover |-> Idle.failover, live |-> Idle.live,
           left |-> Idle.left, new |-> Idle.new, to |-> Idle.to]
    BY <2>1, IdleFields, AtChanged
  <2> QED BY <2>2, IdleFields DEF Fields
<1>2. "idle" \in Steps \ {"create", "register", "enlist", "provide"}
  BY DEF Steps
<1> QED BY <1>1, <1>2, Rest

-----------------------------------------------------------------------------
LEMMA ReconcileInit ==
  ASSUME Init
  PROVE  ReconcileInv
<1>1. PICK f \in BOOLEAN : /\ books = [n \in Nodes |-> Provided(f)]
                           /\ world = [m \in DOMAIN Provided(f).insts |-> [node |-> m, up |-> m = N]]
  BY DEF Init
<1> DEFINE S == IF f THEN Nodes ELSE {N}
           insts == [m \in S |-> Instance(m, IF m = N THEN "running" ELSE "exited", m # N)]
<1>2. Provided(f) = [replicas |-> 1, failover |-> f, insts |-> insts]
  BY DEF Provided
<1>3. S \subseteq Nodes /\ Nodes \subseteq Names /\ 1 \in Replicas
  BY ReconcileAssumption DEF Nodes
<1>4. insts \in Lists /\ \A x, m : On(insts, x, m) => m = x
  <2>1. ASSUME NEW m \in S
        PROVE  Instance(m, IF m = N THEN "running" ELSE "exited", m # N) \in Instances
    BY <1>3 DEF Instance, Instances, Statuses
  <2>2. IsList(insts)
    BY <1>3, <2>1 DEF IsList, Instances
  <2> QED BY <2>2, ListMembers DEF On, Instance
<1> HIDE DEF insts
<1>5. BookTypes
  BY <1>1, <1>2, <1>3, <1>4 DEF BookTypes, Books
<1>6. world \in Worlds /\ \A x, m : On(world, x, m) => m = x
  <2>1. DOMAIN insts = S
    BY DEF insts
  <2>2. DOMAIN world \subseteq Nodes /\ world = [m \in DOMAIN world |-> [node |-> m, up |-> m = N]]
    BY <1>1, <1>2, <1>3, <2>1
  <2> HIDE DEF S
  <2>3. ASSUME NEW m \in DOMAIN world
        PROVE  world[m] \in [node : Nodes, up : BOOLEAN] /\ world[m].node = m
    <3> DEFINE b == m = N
    <3>1. world[m] = [node |-> m, up |-> b] /\ m \in Nodes
      BY <2>2, Zenon
    <3>2. b \in BOOLEAN
      OBVIOUS
    <3> HIDE DEF b
    <3> QED BY <3>1, <3>2
  <2>4. world \in [DOMAIN world -> [node : Nodes, up : BOOLEAN]]
    BY <2>2, <2>3
  <2> QED BY <1>3, <2>2, <2>3, <2>4, ListMembers DEF On
<1>7. PassTypes
  BY IdleRests DEF Init, PassTypes
<1>8. CountTypes
  BY ReconcileAssumption DEF Init, CountTypes
<1>9. OnePlace
  <2>1. ASSUME NEW x, NEW m, At(x, m) PROVE m = x
    <3>1. \A n \in Nodes : books[n].insts = insts
      BY <1>1, <1>2
    <3>2. \A n \in Nodes, k \in Tasks : ~Claims(task[n][k], x, m)
      BY IdleRests DEF Init
    <3> QED BY <1>4, <1>6, <2>1, <3>1, <3>2 DEF At
  <2> QED BY <2>1 DEF OnePlace
<1> QED BY <1>5, <1>6, <1>7, <1>8, <1>9 DEF ReconcileInv

-----------------------------------------------------------------------------
(* What a step leaves alone, or replaces by what somebody knew.            *)

LEMMA Same ==
  /\ ReconcileInv /\ UNCHANGED world =>
       world' \in Worlds /\ \A x, m : On(world', x, m) => At(x, m)
  /\ ReconcileInv /\ UNCHANGED books =>
       BookTypes' /\ \A p \in Nodes : \A x, m : On(books'[p].insts, x, m) => At(x, m)
  /\ ReconcileInv /\ UNCHANGED task =>
       PassTypes' /\ \A p \in Nodes, j \in Tasks : \A x, m : Claims(task'[p][j], x, m) => At(x, m)
<1>1. ReconcileInv /\ UNCHANGED world =>
        world' \in Worlds /\ \A x, m : On(world', x, m) => At(x, m)
  BY Known DEF ReconcileInv
<1>2. ReconcileInv /\ UNCHANGED books =>
        BookTypes' /\ \A p \in Nodes : \A x, m : On(books'[p].insts, x, m) => At(x, m)
  BY Known DEF ReconcileInv, BookTypes
<1>3. ReconcileInv /\ UNCHANGED task =>
        PassTypes' /\ \A p \in Nodes, j \in Tasks : \A x, m : Claims(task'[p][j], x, m) => At(x, m)
  BY Known DEF ReconcileInv, PassTypes
<1> QED BY <1>1, <1>2, <1>3

LEMMA OnePass ==
  ASSUME ReconcileInv, NEW n \in Nodes, NEW k \in Tasks, NEW t \in Passes,
         task' = [task EXCEPT ![n][k] = t],
         \A x, m : Claims(t, x, m) => At(x, m)
  PROVE  PassTypes' /\ \A p \in Nodes, j \in Tasks : \A x, m : Claims(task'[p][j], x, m) => At(x, m)
<1>1. PassTypes' /\ \A p \in Nodes, j \in Tasks : task'[p][j] = t \/ task'[p][j] = task[p][j]
  BY PassChanged DEF ReconcileInv
<1>2. ASSUME NEW p \in Nodes, NEW j \in Tasks, NEW x, NEW m, Claims(task'[p][j], x, m)
      PROVE  At(x, m)
  BY <1>1, <1>2, Known
<1> QED BY <1>1, <1>2

LEMMA OneBook ==
  ASSUME ReconcileInv, NEW n \in Nodes, NEW f \in Lists,
         books' = [books EXCEPT ![n].insts = f],
         \A x, m : On(f, x, m) => At(x, m)
  PROVE  BookTypes' /\ \A p \in Nodes : \A x, m : On(books'[p].insts, x, m) => At(x, m)
<1>1. BookTypes' /\ \A p \in Nodes : books'[p].insts = f \/ books'[p].insts = books[p].insts
  BY BooksChanged DEF ReconcileInv
<1>2. ASSUME NEW p \in Nodes, NEW x, NEW m, On(books'[p].insts, x, m)
      PROVE  At(x, m)
  BY <1>1, <1>2, Known
<1> QED BY <1>1, <1>2

LEMMA InvKept ==
  ASSUME ReconcileInv, CountTypes',
         world' \in Worlds, \A x, m : On(world', x, m) => At(x, m),
         BookTypes', \A p \in Nodes : \A x, m : On(books'[p].insts, x, m) => At(x, m),
         PassTypes',
         \A p \in Nodes, j \in Tasks : \A x, m : Claims(task'[p][j], x, m) => At(x, m)
  PROVE  ReconcileInv'
<1>1. OnePlace'
  BY PlaceKept
<1> QED BY <1>1 DEF ReconcileInv

-----------------------------------------------------------------------------
(* The passes.                                                             *)

LEMMA IdleFacts ==
  /\ Idle \in Fields /\ Idle.live = None /\ Idle.left = 0 /\ Idle.new = 0 /\ Idle.to = {}
BY IdleFields DEF Idle

LEMMA BeginKeeps ==
  ASSUME ReconcileInv, NEW n \in Nodes, NEW k \in Tasks, Begin(n, k)
  PROVE  ReconcileInv'
<1>1. CASE \E j \in Tasks : Reconciles(n, j)
  <2> DEFINE a == IF k = "loop" THEN "failover" ELSE "idle"
  <2>1. task' = [task EXCEPT ![n][k] = [Idle EXCEPT !.at = a]]
        /\ UNCHANGED <<books, world, cut, tries, edits, faults>>
    BY <1>1 DEF Begin
  <2>2. a \in Steps \ {"create", "register", "enlist", "provide"}
    BY DEF Steps
  <2> HIDE DEF a
  <2>3. [Idle EXCEPT !.at = a] \in Passes /\ \A x, m : ~Claims([Idle EXCEPT !.at = a], x, m)
    BY <2>2, Rest
  <2>4. PassTypes' /\ \A p \in Nodes, j \in Tasks : \A x, m : Claims(task'[p][j], x, m) => At(x, m)
    BY <2>1, <2>3, OnePass
  <2>5. CountTypes'
    BY <2>1 DEF ReconcileInv, CountTypes
  <2> QED BY <2>1, <2>4, <2>5, Same, InvKept
<1>2. CASE ~ \E j \in Tasks : Reconciles(n, j)
  <2> DEFINE t == [Idle EXCEPT !.at = "observe", !.want = books[n].replicas,
                               !.failover = books[n].failover, !.live = Listed(n)]
  <2>1. /\ task' = [task EXCEPT ![n][k] = t]
        /\ tries' = [tries EXCEPT ![n] = [x \in Names |-> IF x \in DOMAIN Listed(n) THEN @[x] ELSE 0]]
        /\ UNCHANGED <<books, world, cut, edits, faults>>
    BY <1>2 DEF Begin
  <2>2. books[n].replicas \in Nat /\ books[n].failover \in BOOLEAN /\ Listed(n) \in Lists
    BY ReconcileAssumption DEF ReconcileInv, BookTypes, Books, Listed
  <2>3. t \in Fields /\ t.at = "observe" /\ t.live = Listed(n) /\ t.left = 0
    BY <2>2, IdleFacts DEF Fields, Steps
  <2> HIDE DEF t
  <2>4. t \in Passes /\ \A x, m : Claims(t, x, m) => At(x, m)
    BY <2>3, Known, ReconcileAssumption DEF Passes, InHand, Claims, Listed
  <2>5. PassTypes' /\ \A p \in Nodes, j \in Tasks : \A x, m : Claims(task'[p][j], x, m) => At(x, m)
    BY <2>1, <2>4, OnePass
  <2>6. CountTypes'
    BY <2>1, ReconcileAssumption DEF ReconcileInv, CountTypes
  <2> QED BY <2>1, <2>5, <2>6, Same, InvKept
<1> QED BY <1>1, <1>2

LEMMA ObserveKeeps ==
  ASSUME ReconcileInv, NEW n \in Nodes, NEW k \in Tasks, NEW deaf, NEW blind, Observe(n, k, deaf, blind)
  PROVE  ReconcileInv'
<1>1. PICK t \in Passes : task[n][k] = t
  BY DEF ReconcileInv, PassTypes
<1> DEFINE live == [x \in DOMAIN t.live |-> Seen(n, x, t.live[x], deaf, blind)]
           e == Existing(live)
           l == IF e < t.want THEN Min({t.want - e, PerPass}) ELSE 0
           a == IF e < t.want THEN "create" ELSE IF e > t.want THEN "release" ELSE "restart"
           s == [t EXCEPT !.live = live, !.left = l, !.at = a]
<1>2. /\ books' = [books EXCEPT ![n].insts = live]
      /\ task' = [task EXCEPT ![n][k] = s]
      /\ UNCHANGED <<world, cut, tries, edits>>
      /\ Fares(deaf = {} /\ blind = {})
  BY <1>1 DEF Observe
<1>3. t.live \in Lists /\ t.want \in Nat /\ t \in Fields
  BY DEF Passes, Fields
<1>4. live \in Lists /\ \A x, m : On(live, x, m) => On(t.live, x, m)
  BY <1>3, SeenFacts
<1> HIDE DEF live
<1>5. e \in Nat
  <2>1. Active(live) \subseteq Names
    BY <1>4, ListMembers DEF Active, IsList
  <2>2. IsFiniteSet(Active(live))
    BY <2>1, ReconcileAssumption, FS_Subset
  <2> QED BY <2>2, FS_CardinalityType DEF Existing
<1> HIDE DEF e
<1>6. l \in Nat /\ l <= PerPass /\ (a = "create" => l \in 1 .. PerPass)
      /\ a \in {"create", "release", "restart"}
  <2>1. CASE e < t.want
    <3>1. t.want - e \in Nat /\ t.want - e >= 1 /\ PerPass \in Nat /\ PerPass >= 1
      BY <1>3, <1>5, <2>1, ReconcileAssumption
    <3>2. Min({t.want - e, PerPass}) \in {t.want - e, PerPass} /\ Min({t.want - e, PerPass}) <= PerPass
      BY <3>1, MinOfTwo
    <3> QED BY <2>1, <3>1, <3>2
  <2>2. CASE ~(e < t.want)
    BY <2>2, ReconcileAssumption
  <2> QED BY <2>1, <2>2
<1> HIDE DEF l, a
<1>7. s \in Fields /\ s.at = a /\ s.left = l /\ s.live = live
  BY <1>3, <1>4, <1>6 DEF Fields, Steps
<1> HIDE DEF s
<1>8. s \in Passes /\ \A x, m : Claims(s, x, m) => At(x, m)
  <2>1. s \in Passes
    BY <1>6, <1>7 DEF Passes, InHand
  <2>2. ASSUME NEW x, NEW m, Claims(s, x, m) PROVE At(x, m)
    <3>1. On(t.live, x, m)
      BY <1>4, <1>6, <1>7, <2>2 DEF Claims
    <3> QED BY <1>1, <3>1, Known
  <2> QED BY <2>1, <2>2
<1>9. PassTypes' /\ \A p \in Nodes, j \in Tasks : \A x, m : Claims(task'[p][j], x, m) => At(x, m)
  BY <1>2, <1>8, OnePass
<1>10. BookTypes' /\ \A p \in Nodes : \A x, m : On(books'[p].insts, x, m) => At(x, m)
  <2>1. \A x, m : On(live, x, m) => At(x, m)
    BY <1>1, <1>4, Known
  <2> QED BY <1>2, <1>4, <2>1, OneBook
<1>11. CountTypes'
  BY <1>2, FaresTypes DEF ReconcileInv, CountTypes
<1> QED BY <1>2, <1>9, <1>10, <1>11, Same, InvKept

(* One replica of a pass is done with.                                     *)
LEMMA CountedFacts ==
  ASSUME NEW t \in Passes, t.at \in {"create", "register"}
  PROVE  Counted(t) \in Passes /\ \A x, m : Claims(Counted(t), x, m) => On(t.live, x, m)
<1> DEFINE a == IF t.left = 1 THEN "restart" ELSE "create"
           s == [t EXCEPT !.left = t.left - 1, !.at = a, !.new = 0, !.to = {}]
<1>1. Counted(t) = s
  BY DEF Counted
<1>2. t \in Fields /\ t.left \in 1 .. PerPass /\ PerPass \in Nat
  BY ReconcileAssumption DEF Passes, InHand
<1>3. t.left - 1 \in Nat /\ t.left - 1 <= PerPass /\ (a = "create" => t.left - 1 \in 1 .. PerPass)
      /\ a \in {"restart", "create"}
  BY <1>2
<1> HIDE DEF a
<1>4. s \in Fields /\ s.at = a /\ s.left = t.left - 1 /\ s.live = t.live
  BY <1>2, <1>3 DEF Fields, Steps
<1> HIDE DEF s
<1>5. s \in Passes
  BY <1>3, <1>4 DEF Passes, InHand
<1> QED BY <1>1, <1>3, <1>4, <1>5 DEF Claims

(* A step that creates or enters a container under a fresh name.           *)
LEMMA InvAdded ==
  ASSUME ReconcileInv, CountTypes', Free # {}, NEW o \in Nodes,
         world' \in Worlds, \A x, m : On(world', x, m) => At(x, m) \/ (x = Fresh /\ m = o),
         BookTypes',
         \A p \in Nodes : \A x, m : On(books'[p].insts, x, m) => At(x, m) \/ (x = Fresh /\ m = o),
         NEW n \in Nodes, NEW k \in Tasks, NEW t \in Passes, task' = [task EXCEPT ![n][k] = t],
         \A x, m : Claims(t, x, m) => At(x, m) \/ (x = Fresh /\ m = o)
  PROVE  ReconcileInv'
<1>1. PassTypes' /\ \A p \in Nodes, j \in Tasks : task'[p][j] = t \/ task'[p][j] = task[p][j]
  BY PassChanged DEF ReconcileInv
<1>2. ASSUME NEW p \in Nodes, NEW j \in Tasks, NEW x \in Names, NEW m \in Nodes, Claims(task'[p][j], x, m)
      PROVE  At(x, m) \/ (x = Fresh /\ m = o)
  BY <1>1, <1>2, Known
<1> DEFINE y == Fresh
<1>3. /\ \A m \in Nodes : ~At(y, m)
      /\ \A x \in Names, m \in Nodes : On(world', x, m) => At(x, m) \/ (x = y /\ m = o)
      /\ \A p \in Nodes, x \in Names, m \in Nodes :
           On(books'[p].insts, x, m) => At(x, m) \/ (x = y /\ m = o)
      /\ \A p \in Nodes, j \in Tasks, x \in Names, m \in Nodes :
           Claims(task'[p][j], x, m) => At(x, m) \/ (x = y /\ m = o)
  BY <1>2, FreshFacts
<1> HIDE DEF y
<1>4. OnePlace'
  BY <1>3, PlaceAdded
<1> QED BY <1>1, <1>4 DEF ReconcileInv

LEMMA DeployKeeps ==
  ASSUME ReconcileInv, NEW n \in Nodes, NEW k \in Tasks, NEW m \in Nodes,
         NEW outcome \in {"failed", "unheard", "stopped", "running"}, Deploy(n, k, m, outcome)
  PROVE  ReconcileInv'
<1>1. PICK t \in Passes : task[n][k] = t
  BY DEF ReconcileInv, PassTypes
<1> DEFINE v == [node |-> m, up |-> outcome = "running"]
           r == [t EXCEPT !.at = "register", !.new = Fresh, !.to = {m}]
           s == IF outcome \in {"failed", "unheard"} THEN Counted(t) ELSE r
<1>2. /\ t.at = "create" /\ Free # {} /\ Fares(outcome = "running")
      /\ world' = IF outcome = "failed" THEN world ELSE Put(world, Fresh, v)
      /\ task' = [task EXCEPT ![n][k] = s]
      /\ UNCHANGED <<books, cut, tries, edits>>
  BY <1>1 DEF Deploy
<1>3. Fresh \in Names /\ Fresh \in Nat /\ m \in Names
  BY <1>2, FreshFacts, ReconcileAssumption DEF Nodes
<1>4. v \in [node : Nodes, up : BOOLEAN] /\ v.node = m
  OBVIOUS
<1> HIDE DEF v
<1>5. world' \in Worlds /\ \A x, o : On(world', x, o) => At(x, o) \/ (x = Fresh /\ o = m)
  <2>1. CASE outcome = "failed"
    BY <1>2, <2>1, Same
  <2>2. CASE outcome # "failed"
    <3>1. world' = Put(world, Fresh, v) /\ world \in Worlds
      BY <1>2, <2>2 DEF ReconcileInv
    <3>2. world' \in Worlds /\ \A x, o : On(world', x, o) => On(world, x, o) \/ (x = Fresh /\ o = v.node)
      BY <1>3, <1>4, <3>1, PutFacts
    <3> QED BY <1>4, <3>2, Known
  <2> QED BY <2>1, <2>2
<1>6. r \in Fields /\ r.at = "register" /\ r.new = Fresh /\ r.to = {m} /\ r.live = t.live /\ r.left = t.left
  BY <1>3 DEF Passes, Fields, Steps
<1> HIDE DEF r
<1>7. r \in Passes /\ \A x, o : Claims(r, x, o) => On(t.live, x, o) \/ (x = Fresh /\ o = m)
  <2>1. t.left \in 1 .. PerPass /\ PerPass \in Nat
    BY <1>2, ReconcileAssumption DEF Passes, InHand
  <2> QED BY <1>3, <1>6, <2>1 DEF Passes, InHand, Claims
<1>8. s \in Passes /\ \A x, o : Claims(s, x, o) => On(t.live, x, o) \/ (x = Fresh /\ o = m)
  BY <1>2, <1>7, CountedFacts
<1> HIDE DEF s
<1>9. \A x, o : Claims(s, x, o) => At(x, o) \/ (x = Fresh /\ o = m)
  BY <1>1, <1>8, Known
<1>10. CountTypes'
  BY <1>2, FaresTypes DEF ReconcileInv, CountTypes
<1>11. BookTypes' /\ \A p \in Nodes : \A x, o : On(books'[p].insts, x, o) => At(x, o) \/ (x = Fresh /\ o = m)
  BY <1>2, Same
<1> QED BY <1>2, <1>5, <1>8, <1>9, <1>10, <1>11, InvAdded

LEMMA RegisterKeeps ==
  ASSUME ReconcileInv, NEW n \in Nodes, NEW k \in Tasks, Register(n, k)
  PROVE  ReconcileInv'
<1>1. PICK t \in Passes : task[n][k] = t
  BY DEF ReconcileInv, PassTypes
<1>2. PICK m \in t.to : books' = [books EXCEPT ![n].insts = Put(@, t.new, Instance(m, "running", FALSE))]
  BY <1>1 DEF Register
<1> DEFINE v == Instance(m, "running", FALSE)
           f == Put(books[n].insts, t.new, v)
<1>3. /\ t.at = "register"
      /\ books' = [books EXCEPT ![n].insts = f]
      /\ task' = [task EXCEPT ![n][k] = Counted(t)]
      /\ UNCHANGED <<world, cut, tries, edits, faults>>
  BY <1>1, <1>2 DEF Register
<1>4. t.new \in Names /\ m \in Nodes
  BY <1>3 DEF Passes, InHand
<1>5. v \in Instances /\ v.node = m
  BY <1>4 DEF Instance, Instances, Statuses
<1> HIDE DEF v
<1>6. f \in Lists /\ \A x, o : On(f, x, o) => On(books[n].insts, x, o) \/ (x = t.new /\ o = m)
  BY <1>4, <1>5, PutFacts DEF ReconcileInv, BookTypes, Books
<1> HIDE DEF f
<1>7. \A x, o : On(f, x, o) => At(x, o)
  <2>1. Claims(t, t.new, m)
    BY <1>3 DEF Claims
  <2> QED BY <1>1, <1>6, <2>1, Known
<1>8. BookTypes' /\ \A p \in Nodes : \A x, o : On(books'[p].insts, x, o) => At(x, o)
  BY <1>3, <1>6, <1>7, OneBook
<1>9. Counted(t) \in Passes /\ \A x, o : Claims(Counted(t), x, o) => At(x, o)
  BY <1>1, <1>3, CountedFacts, Known
<1>10. PassTypes' /\ \A p \in Nodes, j \in Tasks : \A x, o : Claims(task'[p][j], x, o) => At(x, o)
  BY <1>3, <1>9, OnePass
<1>11. CountTypes'
  BY <1>3 DEF ReconcileInv, CountTypes
<1> QED BY <1>3, <1>8, <1>10, <1>11, Same, InvKept

(* A pass that goes on to what needs nothing in hand.                      *)
LEMMA GoesOn ==
  ASSUME NEW t \in Passes, NEW a \in Steps \ {"create", "register", "enlist", "provide"}
  PROVE  /\ [t EXCEPT !.at = a] \in Passes
         /\ \A x, m : Claims([t EXCEPT !.at = a], x, m) => On(t.live, x, m)
<1> DEFINE s == [t EXCEPT !.at = a]
<1>1. s \in Fields /\ s.at = a /\ s.left = t.left /\ s.live = t.live
  BY DEF Passes, Fields
<1> SUFFICES s \in Passes /\ \A x, m : Claims(s, x, m) => On(t.live, x, m)
  OBVIOUS
<1> HIDE DEF s
<1> QED BY <1>1 DEF Passes, InHand, Claims

LEMMA ReleaseKeeps ==
  ASSUME ReconcileInv, NEW n \in Nodes, NEW k \in Tasks, NEW S, Release(n, k, S)
  PROVE  ReconcileInv'
<1>1. PICK t \in Passes : task[n][k] = t
  BY DEF ReconcileInv, PassTypes
<1> DEFINE f == Without(books[n].insts, S)
           s == [t EXCEPT !.at = "restart"]
<1>2. /\ books' = [books EXCEPT ![n].insts = f]
      /\ task' = [task EXCEPT ![n][k] = s]
      /\ UNCHANGED <<world, cut, tries, edits, faults>>
  BY <1>1 DEF Release
<1>3. f \in Lists /\ \A x, m : On(f, x, m) => At(x, m)
  BY WithoutFacts, Known DEF ReconcileInv, BookTypes, Books
<1> HIDE DEF f
<1>4. BookTypes' /\ \A p \in Nodes : \A x, m : On(books'[p].insts, x, m) => At(x, m)
  BY <1>2, <1>3, OneBook
<1>5. "restart" \in Steps \ {"create", "register", "enlist", "provide"}
  BY DEF Steps
<1>6. s \in Passes /\ \A x, m : Claims(s, x, m) => At(x, m)
  BY <1>1, <1>5, GoesOn, Known
<1> HIDE DEF s
<1>7. PassTypes' /\ \A p \in Nodes, j \in Tasks : \A x, m : Claims(task'[p][j], x, m) => At(x, m)
  BY <1>2, <1>6, OnePass
<1>8. CountTypes'
  BY <1>2 DEF ReconcileInv, CountTypes
<1> QED BY <1>2, <1>4, <1>7, <1>8, Same, InvKept

LEMMA RestartKeeps ==
  ASSUME ReconcileInv, NEW n \in Nodes, NEW k \in Tasks, NEW well \in BOOLEAN, Restart(n, k, well)
  PROVE  ReconcileInv'
<1>1. PICK t \in Passes : task[n][k] = t
  BY DEF ReconcileInv, PassTypes
<1> DEFINE due == {x \in Active(t.live) : t.live[x].status = "exited" /\ tries[n][x] < MaxAttempts}
           started == {x \in due \cap DOMAIN world : world[x].node \in Sees(n) /\ well}
           s == [t EXCEPT !.at = "forget"]
<1>2. /\ world' = [x \in DOMAIN world |-> [world[x] EXCEPT !.up = @ \/ x \in started]]
      /\ tries' = [tries EXCEPT ![n] =
                     [x \in Names |-> IF x \in due THEN @[x] + 1
                                      ELSE IF x \in Active(t.live) /\ t.live[x].status = "running" THEN 0
                                      ELSE @[x]]]
      /\ task' = [task EXCEPT ![n][k] = s]
      /\ Fares(well)
      /\ UNCHANGED <<books, cut, edits>>
  BY <1>1 DEF Restart
<1>3. world' \in Worlds /\ \A x, m : On(world', x, m) => At(x, m)
  <2>1. DOMAIN world \subseteq Names /\ world \in [DOMAIN world -> [node : Nodes, up : BOOLEAN]]
    BY ListMembers DEF ReconcileInv
  <2>2. ASSUME NEW x \in DOMAIN world
        PROVE  /\ [world[x] EXCEPT !.up = @ \/ x \in started] \in [node : Nodes, up : BOOLEAN]
               /\ [world[x] EXCEPT !.up = @ \/ x \in started].node = world[x].node
    <3> DEFINE b == world[x].up \/ x \in started
    <3>1. world[x] \in [node : Nodes, up : BOOLEAN] /\ b \in BOOLEAN
      BY <2>1
    <3> HIDE DEF b
    <3>2. /\ [world[x] EXCEPT !.up = b] \in [node : Nodes, up : BOOLEAN]
          /\ [world[x] EXCEPT !.up = b].node = world[x].node
      BY <3>1
    <3> QED BY <3>2 DEF b
  <2> HIDE DEF started
  <2>3. DOMAIN world' = DOMAIN world /\ world' \in [DOMAIN world' -> [node : Nodes, up : BOOLEAN]]
    BY <1>2, <2>2
  <2>4. \A x \in DOMAIN world : world'[x].node = world[x].node
    BY <1>2, <2>2
  <2>5. world' \in Worlds
    BY <2>1, <2>3, ListMembers
  <2>6. \A x, m : On(world', x, m) => On(world, x, m)
    BY <2>3, <2>4 DEF On
  <2> QED BY <2>5, <2>6, Known
<1>4. tries' \in [Nodes -> [Names -> 0 .. MaxAttempts]]
  <2>1. tries \in [Nodes -> [Names -> 0 .. MaxAttempts]] /\ MaxAttempts \in Nat
    BY ReconcileAssumption DEF ReconcileInv, CountTypes
  <2>2. \A x \in due : tries[n][x] < MaxAttempts
    OBVIOUS
  <2> HIDE DEF due
  <2> QED BY <1>2, <2>1, <2>2
<1>5. CountTypes'
  BY <1>2, <1>4, FaresTypes DEF ReconcileInv, CountTypes
<1>6. "forget" \in Steps \ {"create", "register", "enlist", "provide"}
  BY DEF Steps
<1>7. s \in Passes /\ \A x, m : Claims(s, x, m) => At(x, m)
  BY <1>1, <1>6, GoesOn, Known
<1> HIDE DEF s
<1>8. PassTypes' /\ \A p \in Nodes, j \in Tasks : \A x, m : Claims(task'[p][j], x, m) => At(x, m)
  BY <1>2, <1>7, OnePass
<1> QED BY <1>2, <1>3, <1>5, <1>8, Same, InvKept

LEMMA ForgetKeeps ==
  ASSUME ReconcileInv, NEW n \in Nodes, NEW k \in Tasks, Forget(n, k)
  PROVE  ReconcileInv'
<1>1. PICK t \in Passes : task[n][k] = t
  BY DEF ReconcileInv, PassTypes
<1> DEFINE old == {x \in DOMAIN t.live : t.live[x].status = "lost" /\ t.live[x].missed}
           spare == {x \in DOMAIN t.live : t.live[x].standby /\ ~t.failover}
           gone == {x \in spare \cap DOMAIN world : world[x].node \in Sees(n)}
           f == Without(books[n].insts, old \cup spare)
           a == IF k = "loop" THEN "failover" ELSE "idle"
           s == [Idle EXCEPT !.at = a]
<1>2. /\ books' = [books EXCEPT ![n].insts = f]
      /\ world' = Without(world, gone)
      /\ task' = [task EXCEPT ![n][k] = s]
      /\ UNCHANGED <<cut, tries, edits, faults>>
  BY <1>1 DEF Forget
<1>3. world' \in Worlds /\ \A x, m : On(world', x, m) => At(x, m)
  BY <1>2, WithoutFacts, Known DEF ReconcileInv
<1>4. f \in Lists /\ \A x, m : On(f, x, m) => At(x, m)
  BY WithoutFacts, Known DEF ReconcileInv, BookTypes, Books
<1> HIDE DEF f
<1>5. BookTypes' /\ \A p \in Nodes : \A x, m : On(books'[p].insts, x, m) => At(x, m)
  BY <1>2, <1>4, OneBook
<1>6. a \in Steps \ {"create", "register", "enlist", "provide"}
  BY DEF Steps
<1> HIDE DEF a
<1>7. s \in Passes /\ \A x, m : Claims(s, x, m) => At(x, m)
  BY <1>6, Rest
<1> HIDE DEF s
<1>8. PassTypes' /\ \A p \in Nodes, j \in Tasks : \A x, m : Claims(task'[p][j], x, m) => At(x, m)
  BY <1>2, <1>7, OnePass
<1>9. CountTypes'
  BY <1>2 DEF ReconcileInv, CountTypes
<1> QED BY <1>3, <1>5, <1>8, <1>9, InvKept

-----------------------------------------------------------------------------
(* Failover and standbys.                                                  *)

LEMMA CheckFailoverKeeps ==
  ASSUME ReconcileInv, NEW n \in Nodes, CheckFailover(n)
  PROVE  ReconcileInv'
<1> DEFINE s == [Idle EXCEPT !.at = "promote", !.live = Listed(n), !.to = Failed(n)]
<1>1. /\ task' = [task EXCEPT ![n]["loop"] = s]
      /\ UNCHANGED <<books, world, cut, tries, edits, faults>>
  BY DEF CheckFailover
<1>2. Listed(n) \in Lists /\ Failed(n) \subseteq Names
  <2>1. Listed(n) \in Lists
    BY DEF ReconcileInv, BookTypes, Books, Listed
  <2> QED BY <2>1, ListMembers DEF Failed, IsList
<1>3. s \in Fields /\ s.at = "promote" /\ s.live = Listed(n) /\ s.left = 0
  BY <1>2, IdleFacts DEF Fields, Steps
<1> HIDE DEF s
<1>4. s \in Passes /\ \A x, m : Claims(s, x, m) => At(x, m)
  BY <1>3, Known, ReconcileAssumption DEF Passes, InHand, Claims, Listed
<1>5. "loop" \in Tasks
  BY DEF Tasks
<1>6. PassTypes' /\ \A p \in Nodes, j \in Tasks : \A x, m : Claims(task'[p][j], x, m) => At(x, m)
  BY <1>1, <1>4, <1>5, OnePass
<1>7. CountTypes'
  BY <1>1 DEF ReconcileInv, CountTypes
<1> QED BY <1>1, <1>6, <1>7, Same, InvKept

LEMMA PromoteKeeps ==
  ASSUME ReconcileInv, NEW n \in Nodes, NEW f, NEW c, NEW outcome, Promote(n, f, c, outcome)
  PROVE  ReconcileInv'
<1>0. "loop" \in Tasks
  BY DEF Tasks
<1>1. PICK t \in Passes : task[n]["loop"] = t
  BY <1>0 DEF ReconcileInv, PassTypes
<1> DEFINE insts == books[n].insts
           g == [x \in DOMAIN insts \ {f} |->
                   IF x = c THEN Instance(insts[x].node, "running", FALSE) ELSE insts[x]]
           s == [t EXCEPT !.to = t.to \ {f}, !.live = Without(t.live, {c})]
<1>2. /\ t.at = "promote" /\ Fares(outcome = "started")
      /\ world' = world \/ (c \in DOMAIN world /\ world' = [world EXCEPT ![c].up = TRUE])
      /\ books' = books \/ books' = [books EXCEPT ![n].insts = g]
      /\ task' = [task EXCEPT ![n]["loop"] = s]
      /\ UNCHANGED <<cut, tries, edits>>
  <2> DEFINE runs == outcome # "failed" /\ c \in DOMAIN world
  <2>1. t.at = "promote" /\ Fares(outcome = "started") /\ UNCHANGED <<cut, tries, edits>>
    BY <1>1, Zenon DEF Promote
  <2>2. world' = IF runs THEN [world EXCEPT ![c].up = TRUE] ELSE world
    BY Zenon DEF Promote
  <2>3. books' = IF ~runs \/ outcome = "unheard" THEN books ELSE [books EXCEPT ![n].insts = g]
    BY Zenon DEF Promote
  <2>4. task' = [task EXCEPT ![n]["loop"] = s]
    BY <1>1 DEF Promote
  <2>5. runs => c \in DOMAIN world
    OBVIOUS
  <2> HIDE DEF runs, g, s
  <2> QED BY <2>1, <2>2, <2>3, <2>4, <2>5
<1>3. world' \in Worlds /\ \A x, m : On(world', x, m) => At(x, m)
  <2>1. CASE world' = world
    BY <2>1, Same
  <2>2. CASE c \in DOMAIN world /\ world' = [world EXCEPT ![c].up = TRUE]
    <3>1. DOMAIN world \subseteq Names /\ world \in [DOMAIN world -> [node : Nodes, up : BOOLEAN]]
      BY ListMembers DEF ReconcileInv
    <3>2. /\ DOMAIN world' = DOMAIN world /\ world' \in [DOMAIN world' -> [node : Nodes, up : BOOLEAN]]
          /\ \A x \in DOMAIN world : world'[x].node = world[x].node
      BY <2>2, <3>1
    <3>3. world' \in Worlds /\ \A x, m : On(world', x, m) => On(world, x, m)
      BY <3>1, <3>2, ListMembers DEF On
    <3> QED BY <3>3, Known
  <2> QED BY <1>2, <2>1, <2>2
<1>4. BookTypes' /\ \A p \in Nodes : \A x, m : On(books'[p].insts, x, m) => At(x, m)
  <2>1. CASE books' = books
    BY <2>1, Same
  <2>2. CASE books' = [books EXCEPT ![n].insts = g]
    <3>1. IsList(insts)
      BY ListMembers DEF ReconcileInv, BookTypes, Books
    <3> HIDE DEF insts
    <3>2. ASSUME NEW x \in DOMAIN insts \ {f}
          PROVE  g[x] \in Instances /\ g[x].node = insts[x].node
      BY <3>1 DEF IsList, Instances, Instance, Statuses
    <3>3. DOMAIN g = DOMAIN insts \ {f} /\ g = [x \in DOMAIN g |-> g[x]]
      OBVIOUS
    <3> HIDE DEF g
    <3>4. g \in Lists
      BY <3>1, <3>2, <3>3, ListMembers DEF IsList, Instances
    <3>5. \A x, m : On(g, x, m) => On(insts, x, m)
      BY <3>2, <3>3 DEF On
    <3>6. \A x, m : On(g, x, m) => At(x, m)
      BY <3>5, Known DEF insts
    <3> QED BY <2>2, <3>4, <3>6, OneBook
  <2> QED BY <1>2, <2>1, <2>2
<1>5. t \in Fields /\ t.live \in Lists /\ t.to \subseteq Names /\ (t.left <= PerPass \/ t.left \in Nodes)
  BY DEF Passes, Fields, InHand
<1>6. Without(t.live, {c}) \in Lists /\ \A x, m : On(Without(t.live, {c}), x, m) => On(t.live, x, m)
  BY <1>5, WithoutFacts
<1>7. s \in Fields /\ s.at = t.at /\ s.left = t.left /\ s.live = Without(t.live, {c})
  BY <1>5, <1>6 DEF Fields
<1> HIDE DEF s
<1>8. s \in Passes /\ \A x, m : Claims(s, x, m) => At(x, m)
  <2>1. s \in Passes
    BY <1>2, <1>5, <1>7 DEF Passes, InHand
  <2> QED BY <1>0, <1>1, <1>2, <1>6, <1>7, <2>1, Known DEF Claims
<1>9. PassTypes' /\ \A p \in Nodes, j \in Tasks : \A x, m : Claims(task'[p][j], x, m) => At(x, m)
  BY <1>0, <1>2, <1>8, OnePass
<1>10. CountTypes'
  BY <1>2, FaresTypes DEF ReconcileInv, CountTypes
<1> QED BY <1>3, <1>4, <1>9, <1>10, InvKept

LEMMA PromotedKeeps ==
  ASSUME ReconcileInv, NEW n \in Nodes, Promoted(n)
  PROVE  ReconcileInv'
<1> DEFINE s == [Idle EXCEPT !.at = "standby"]
<1>1. /\ task' = [task EXCEPT ![n]["loop"] = s]
      /\ UNCHANGED <<books, world, cut, tries, edits, faults>>
  BY DEF Promoted
<1>2. "standby" \in Steps \ {"create", "register", "enlist", "provide"} /\ "loop" \in Tasks
  BY DEF Steps, Tasks
<1>3. s \in Passes /\ \A x, m : Claims(s, x, m) => At(x, m)
  BY <1>2, Rest
<1> HIDE DEF s
<1>4. PassTypes' /\ \A p \in Nodes, j \in Tasks : \A x, m : Claims(task'[p][j], x, m) => At(x, m)
  BY <1>1, <1>2, <1>3, OnePass
<1>5. CountTypes'
  BY <1>1 DEF ReconcileInv, CountTypes
<1> QED BY <1>1, <1>4, <1>5, Same, InvKept

(* A pass about to provide standbys.                                       *)
LEMMA Enlisting ==
  ASSUME NEW S \in SUBSET Nodes
  PROVE  /\ [Idle EXCEPT !.at = "enlist", !.to = S] \in Passes
         /\ \A x, m : ~Claims([Idle EXCEPT !.at = "enlist", !.to = S], x, m)
<1> DEFINE s == [Idle EXCEPT !.at = "enlist", !.to = S]
<1>1. S \subseteq Names
  BY ReconcileAssumption DEF Nodes
<1>2. s \in Fields /\ s.at = "enlist" /\ s.live = None /\ s.left = 0 /\ s.to = S
  BY <1>1, IdleFacts DEF Fields, Steps
<1> SUFFICES s \in Passes /\ \A x, m : ~Claims(s, x, m)
  OBVIOUS
<1> HIDE DEF s
<1> QED BY <1>2, NoneFacts, ReconcileAssumption DEF Passes, InHand, Claims

LEMMA ManageStandbyKeeps ==
  ASSUME ReconcileInv, NEW n \in Nodes, ManageStandby(n)
  PROVE  ReconcileInv'
<1> DEFINE s == [Idle EXCEPT !.at = "enlist", !.to = Bare(n)]
<1>1. /\ task' = [task EXCEPT ![n]["loop"] = s]
      /\ UNCHANGED <<books, world, cut, tries, edits, faults>>
  BY DEF ManageStandby
<1>2. "loop" \in Tasks /\ Bare(n) \subseteq Nodes
  BY DEF Tasks, Bare, Sees
<1>3. s \in Passes /\ \A x, m : Claims(s, x, m) => At(x, m)
  BY <1>2, Enlisting
<1> HIDE DEF s
<1>4. PassTypes' /\ \A p \in Nodes, j \in Tasks : \A x, m : Claims(task'[p][j], x, m) => At(x, m)
  BY <1>1, <1>2, <1>3, OnePass
<1>5. CountTypes'
  BY <1>1 DEF ReconcileInv, CountTypes
<1> QED BY <1>1, <1>4, <1>5, Same, InvKept

LEMMA EnlistKeeps ==
  ASSUME ReconcileInv, NEW n \in Nodes, NEW m \in Nodes, Enlist(n, m)
  PROVE  ReconcileInv'
<1>0. "loop" \in Tasks
  BY DEF Tasks
<1>1. PICK t \in Passes : task[n]["loop"] = t
  BY <1>0 DEF ReconcileInv, PassTypes
<1> DEFINE v == Instance(m, "standby", TRUE)
           f == Put(books[n].insts, Fresh, v)
           s == [t EXCEPT !.at = "provide", !.new = Fresh, !.left = m]
<1>2. /\ t.at = "enlist" /\ Free # {}
      /\ books' = [books EXCEPT ![n].insts = f]
      /\ task' = [task EXCEPT ![n]["loop"] = s]
      /\ UNCHANGED <<world, cut, tries, edits, faults>>
  BY <1>1 DEF Enlist
<1>3. Fresh \in Names /\ Fresh \in Nat /\ m \in Nat
  BY <1>2, FreshFacts, ReconcileAssumption DEF Nodes
<1>4. v \in Instances /\ v.node = m
  BY DEF Instance, Instances, Statuses
<1> HIDE DEF v
<1>5. f \in Lists /\ \A x, o : On(f, x, o) => On(books[n].insts, x, o) \/ (x = Fresh /\ o = m)
  BY <1>3, <1>4, PutFacts DEF ReconcileInv, BookTypes, Books
<1> HIDE DEF f
<1>6. BookTypes' /\ \A p \in Nodes : \A x, o : On(books'[p].insts, x, o) => At(x, o) \/ (x = Fresh /\ o = m)
  <2>1. BookTypes' /\ \A p \in Nodes : books'[p].insts = f \/ books'[p].insts = books[p].insts
    BY <1>2, <1>5, BooksChanged DEF ReconcileInv
  <2>2. ASSUME NEW p \in Nodes, NEW x, NEW o, On(books'[p].insts, x, o)
        PROVE  At(x, o) \/ (x = Fresh /\ o = m)
    BY <1>5, <2>1, <2>2, Known
  <2> QED BY <2>1, <2>2
<1>7. s \in Fields /\ s.at = "provide" /\ s.new = Fresh /\ s.left = m /\ s.to = t.to /\ s.live = t.live
  BY <1>3 DEF Passes, Fields, Steps
<1> HIDE DEF s
<1>8. s \in Passes /\ \A x, o : Claims(s, x, o) => At(x, o) \/ (x = Fresh /\ o = m)
  <2>1. t.to \subseteq Nodes
    BY <1>2 DEF Passes, InHand
  <2>2. s \in Passes
    BY <1>3, <1>7, <2>1 DEF Passes, InHand
  <2>3. ASSUME NEW x, NEW o, Claims(s, x, o) PROVE At(x, o) \/ (x = Fresh /\ o = m)
    <3>1. On(t.live, x, o) \/ (x = Fresh /\ o = m)
      BY <1>7, <2>3 DEF Claims
    <3> QED BY <1>0, <1>1, <3>1, Known
  <2> QED BY <2>2, <2>3
<1>9. world' \in Worlds /\ \A x, o : On(world', x, o) => At(x, o) \/ (x = Fresh /\ o = m)
  BY <1>2, Same
<1>10. CountTypes'
  BY <1>2 DEF ReconcileInv, CountTypes
<1> QED BY <1>0, <1>2, <1>6, <1>8, <1>9, <1>10, InvAdded

LEMMA ProvideKeeps ==
  ASSUME ReconcileInv, NEW n \in Nodes, NEW outcome, Provide(n, outcome)
  PROVE  ReconcileInv'
<1>0. "loop" \in Tasks
  BY DEF Tasks
<1>1. PICK t \in Passes : task[n]["loop"] = t
  BY <1>0 DEF ReconcileInv, PassTypes
<1> DEFINE v == [node |-> t.left, up |-> FALSE]
           f == Without(books[n].insts, {t.new})
           S == t.to \ {t.left}
           s == [Idle EXCEPT !.at = "enlist", !.to = S]
           well == outcome = "created" \/ t.left \notin Sees(n)
<1>2. /\ t.at = "provide" /\ Fares(well)
      /\ world' = world \/ world' = Put(world, t.new, v)
      /\ books' = books \/ books' = [books EXCEPT ![n].insts = f]
      /\ task' = [task EXCEPT ![n]["loop"] = s]
      /\ UNCHANGED <<cut, tries, edits>>
  <2>1. t.at = "provide" /\ Fares(well) /\ UNCHANGED <<cut, tries, edits>>
    BY <1>1 DEF Provide
  <2>2. world' = world \/ world' = Put(world, t.new, v)
    BY <1>1 DEF Provide
  <2>3. books' = books \/ books' = [books EXCEPT ![n].insts = f]
    BY <1>1 DEF Provide
  <2>4. task' = [task EXCEPT ![n]["loop"] = s]
    BY <1>1 DEF Provide
  <2> QED BY <2>1, <2>2, <2>3, <2>4
<1>3. t.new \in Names /\ t.left \in Nodes /\ t.to \subseteq Nodes /\ S \subseteq Nodes
  BY <1>2 DEF Passes, InHand
<1>4. world' \in Worlds /\ \A x, m : On(world', x, m) => At(x, m)
  <2>1. CASE world' = world
    BY <2>1, Same
  <2>2. CASE world' = Put(world, t.new, v)
    <3>1. v \in [node : Nodes, up : BOOLEAN] /\ v.node = t.left
      BY <1>3
    <3> HIDE DEF v
    <3>2. world' \in Worlds /\ \A x, m : On(world', x, m) => On(world, x, m) \/ (x = t.new /\ m = t.left)
      BY <1>3, <2>2, <3>1, PutFacts DEF ReconcileInv
    <3>3. Claims(t, t.new, t.left)
      BY <1>2 DEF Claims
    <3> QED BY <1>0, <1>1, <3>2, <3>3, Known
  <2> QED BY <1>2, <2>1, <2>2
<1>5. BookTypes' /\ \A p \in Nodes : \A x, m : On(books'[p].insts, x, m) => At(x, m)
  <2>1. CASE books' = books
    BY <2>1, Same
  <2>2. CASE books' = [books EXCEPT ![n].insts = f]
    <3>1. f \in Lists /\ \A x, m : On(f, x, m) => At(x, m)
      BY WithoutFacts, Known DEF ReconcileInv, BookTypes, Books
    <3> HIDE DEF f
    <3> QED BY <2>2, <3>1, OneBook
  <2> QED BY <1>2, <2>1, <2>2
<1> HIDE DEF S
<1>6. s \in Passes /\ \A x, m : Claims(s, x, m) => At(x, m)
  BY <1>3, Enlisting
<1> HIDE DEF s
<1>7. PassTypes' /\ \A p \in Nodes, j \in Tasks : \A x, m : Claims(task'[p][j], x, m) => At(x, m)
  BY <1>0, <1>2, <1>6, OnePass
<1>8. CountTypes'
  <2>1. well \in BOOLEAN
    OBVIOUS
  <2> HIDE DEF well
  <2> QED BY <1>2, <2>1, FaresTypes DEF ReconcileInv, CountTypes
<1> QED BY <1>4, <1>5, <1>7, <1>8, InvKept

LEMMA BroadcastKeeps ==
  ASSUME ReconcileInv, NEW n \in Nodes, NEW well \in BOOLEAN, Broadcast(n, well)
  PROVE  ReconcileInv'
<1>1. /\ Fares(well)
      /\ books' = books \/ books' = Told(n, books[n])
      /\ task' = [task EXCEPT ![n]["loop"] = Idle]
      /\ UNCHANGED <<world, cut, tries, edits>>
  BY DEF Broadcast
<1>2. BookTypes' /\ \A p \in Nodes : \A x, m : On(books'[p].insts, x, m) => At(x, m)
  <2>1. CASE books' = books
    BY <2>1, Same
  <2>2. CASE books' = Told(n, books[n])
    <3>1. BookTypes' /\ \A p \in Nodes : books'[p] = books[n] \/ books'[p] = books[p]
      BY <2>2 DEF Told, ReconcileInv, BookTypes
    <3> QED BY <3>1, Known
  <2> QED BY <1>1, <2>1, <2>2
<1>3. "loop" \in Tasks
  BY DEF Tasks
<1>4. PassTypes' /\ \A p \in Nodes, j \in Tasks : \A x, m : Claims(task'[p][j], x, m) => At(x, m)
  BY <1>1, <1>3, IdleRests, OnePass
<1>5. CountTypes'
  BY <1>1, FaresTypes DEF ReconcileInv, CountTypes
<1> QED BY <1>1, <1>2, <1>4, <1>5, Same, InvKept

-----------------------------------------------------------------------------
(* The operator, and what goes wrong.                                      *)

LEMMA EditKeeps ==
  ASSUME ReconcileInv, NEW n \in Nodes, NEW b \in Books, \A x, m : On(b.insts, x, m) => At(x, m),
         NEW next \in {"begin", "idle"}, NEW well \in BOOLEAN, Edit(n, b, next, well)
  PROVE  ReconcileInv'
<1> DEFINE s == [Idle EXCEPT !.at = next]
<1>1. /\ edits < MaxEdits /\ edits' = edits + 1 /\ Fares(well)
      /\ books' = Told(n, b) \/ books' = [books EXCEPT ![n] = b]
      /\ UNCHANGED <<world, cut, tries>>
  BY DEF Edit
<1>2. "handler" \in Tasks /\ next \in Steps \ {"create", "register", "enlist", "provide"}
  BY DEF Tasks, Steps
<1>3. s \in Passes /\ \A x, m : Claims(s, x, m) => At(x, m)
  BY <1>2, Rest
<1>4. task' = [task EXCEPT ![n]["handler"] = s]
  BY DEF Edit
<1> HIDE DEF s
<1>5. PassTypes' /\ \A p \in Nodes, j \in Tasks : \A x, m : Claims(task'[p][j], x, m) => At(x, m)
  BY <1>2, <1>3, <1>4, OnePass
<1>6. BookTypes' /\ \A p \in Nodes : \A x, m : On(books'[p].insts, x, m) => At(x, m)
  <2>1. BookTypes' /\ \A p \in Nodes : books'[p] = b \/ books'[p] = books[p]
    BY <1>1 DEF Told, ReconcileInv, BookTypes
  <2> QED BY <2>1, Known
<1>7. CountTypes'
  BY <1>1, FaresTypes, ReconcileAssumption DEF ReconcileInv, CountTypes
<1> QED BY <1>1, <1>5, <1>6, <1>7, Same, InvKept

LEMMA OperatorKeeps ==
  ASSUME ReconcileInv, NEW n \in Nodes, Operator(n)
  PROVE  ReconcileInv'
<1>1. PICK c \in Books : books[n] = c
  BY DEF ReconcileInv, BookTypes
<1>2. \A x, m : On(c.insts, x, m) => At(x, m)
  BY <1>1, Known
<1>3. ASSUME NEW well \in BOOLEAN, NEW r \in Replicas, Scale(n, r, well) PROVE ReconcileInv'
  <2> DEFINE b == [c EXCEPT !.replicas = r]
  <2>1. b \in Books /\ b.insts = c.insts
    BY DEF Books
  <2>2. Edit(n, b, "begin", well)
    BY <1>1, <1>3 DEF Scale
  <2> HIDE DEF b
  <2> QED BY <1>2, <2>1, <2>2, EditKeeps
<1>4. ASSUME NEW well \in BOOLEAN, Settings(n, well) PROVE ReconcileInv'
  <2> DEFINE o == ~c.failover
             b == [c EXCEPT !.failover = o]
  <2>1. Edit(n, b, "begin", well)
    BY <1>1, <1>4 DEF Settings
  <2>2. o \in BOOLEAN
    BY DEF Books
  <2> HIDE DEF o
  <2>3. b \in Books /\ b.insts = c.insts
    BY <2>2 DEF Books
  <2> HIDE DEF b
  <2> QED BY <1>2, <2>1, <2>3, EditKeeps
<1>5. ASSUME NEW well \in BOOLEAN, UpdateImage(n, well) PROVE ReconcileInv'
  <2> DEFINE b == [c EXCEPT !.insts = None]
  <2>1. b \in Books /\ b.insts = None
    BY NoneFacts DEF Books
  <2>2. Edit(n, b, "idle", well)
    BY <1>1, <1>5 DEF UpdateImage
  <2> HIDE DEF b
  <2> QED BY <2>1, <2>2, NoneFacts, EditKeeps
<1> QED BY <1>3, <1>4, <1>5 DEF Operator

LEMMA ExitKeeps ==
  ASSUME ReconcileInv, NEW c \in DOMAIN world, Exit(c) \/ Vanish(c)
  PROVE  ReconcileInv'
<1>1. /\ world' = [world EXCEPT ![c].up = FALSE] \/ world' = Without(world, {c})
      /\ Fares(FALSE) /\ UNCHANGED <<books, cut, tries, task, edits>>
  BY DEF Exit, Vanish
<1>2. world' \in Worlds /\ \A x, m : On(world', x, m) => At(x, m)
  <2>1. CASE world' = [world EXCEPT ![c].up = FALSE]
    <3>1. DOMAIN world \subseteq Names /\ world \in [DOMAIN world -> [node : Nodes, up : BOOLEAN]]
      BY ListMembers DEF ReconcileInv
    <3>2. /\ DOMAIN world' = DOMAIN world /\ world' \in [DOMAIN world' -> [node : Nodes, up : BOOLEAN]]
          /\ \A x \in DOMAIN world : world'[x].node = world[x].node
      BY <2>1, <3>1
    <3>3. world' \in Worlds /\ \A x, m : On(world', x, m) => On(world, x, m)
      BY <3>1, <3>2, ListMembers DEF On
    <3> QED BY <3>3, Known
  <2>2. CASE world' = Without(world, {c})
    BY <2>2, WithoutFacts, Known DEF ReconcileInv
  <2> QED BY <1>1, <2>1, <2>2
<1>3. CountTypes'
  BY <1>1, FaresTypes DEF ReconcileInv, CountTypes
<1> QED BY <1>1, <1>2, <1>3, Same, InvKept

LEMMA NetworkKeeps ==
  ASSUME ReconcileInv, Heal \/ \E side \in SUBSET (Nodes \ {1}) : CutOff(side)
  PROVE  ReconcileInv'
<1>1. cut' \subseteq Nodes /\ UNCHANGED <<books, world, tries, task, edits>>
      /\ (faults' = faults \/ Fares(FALSE))
  BY DEF Heal, CutOff
<1>2. CountTypes'
  BY <1>1, FaresTypes DEF ReconcileInv, CountTypes
<1> QED BY <1>1, <1>2, Same, InvKept

LEMMA CrashKeeps ==
  ASSUME ReconcileInv, NEW n \in Nodes, Crash(n)
  PROVE  ReconcileInv'
<1>1. /\ task' = [task EXCEPT ![n] = [k \in Tasks |-> Idle]]
      /\ tries' = [tries EXCEPT ![n] = [x \in Names |-> 0]]
      /\ Fares(FALSE) /\ UNCHANGED <<books, world, cut, edits>>
  BY DEF Crash
<1>2. /\ PassTypes'
      /\ \A p \in Nodes, j \in Tasks : task'[p][j] = Idle \/ task'[p][j] = task[p][j]
  BY <1>1, IdleRests DEF ReconcileInv, PassTypes
<1>3. \A p \in Nodes, j \in Tasks : \A x, m : Claims(task'[p][j], x, m) => At(x, m)
  BY <1>2, IdleRests, Known
<1>4. CountTypes'
  <2>1. [x \in Names |-> 0] \in [Names -> 0 .. MaxAttempts]
    BY ReconcileAssumption
  <2>2. tries' \in [Nodes -> [Names -> 0 .. MaxAttempts]]
    BY <1>1, <2>1 DEF ReconcileInv, CountTypes
  <2>3. faults' \in 0 .. MaxFaults
    BY <1>1, FaresTypes DEF ReconcileInv, CountTypes
  <2> QED BY <1>1, <2>2, <2>3 DEF ReconcileInv, CountTypes
<1> QED BY <1>1, <1>2, <1>3, <1>4, Same, InvKept

-----------------------------------------------------------------------------
LEMMA ReconcileStep ==
  ASSUME ReconcileInv, [Next]_vars
  PROVE  ReconcileInv'
<1>1. ASSUME NEW n \in Nodes, NEW k \in Tasks, Pass(n, k) PROVE ReconcileInv'
  BY <1>1, ObserveKeeps, DeployKeeps, RegisterKeeps, ReleaseKeeps, RestartKeeps, ForgetKeeps DEF Pass
<1>2. ASSUME NEW n \in Nodes, Failover(n) PROVE ReconcileInv'
  BY <1>2, CheckFailoverKeeps, PromoteKeeps, PromotedKeeps, ManageStandbyKeeps, EnlistKeeps,
     ProvideKeeps, BroadcastKeeps DEF Failover
<1>3. ASSUME NEW n \in Nodes, LoopStep(n) \/ HandlerStep(n) PROVE ReconcileInv'
  <2>1. "loop" \in Tasks /\ "handler" \in Tasks
    BY DEF Tasks
  <2> QED BY <1>1, <1>2, <1>3, <2>1, BeginKeeps DEF LoopStep, HandlerStep, Loop, Handle
<1>4. ASSUME NEW n \in Entry, Operator(n) PROVE ReconcileInv'
  BY <1>4, OperatorKeeps, ReconcileAssumption DEF Nodes
<1>5. CASE Harm
  BY <1>5, ExitKeeps, NetworkKeeps, CrashKeeps DEF Harm
<1>6. CASE Heal
  BY <1>6, NetworkKeeps
<1>7. CASE UNCHANGED vars
  <2>1. UNCHANGED <<books, world, task>> /\ CountTypes'
    BY <1>7 DEF vars, ReconcileInv, CountTypes
  <2> QED BY <2>1, Same, InvKept
<1> QED BY <1>3, <1>4, <1>5, <1>6, <1>7 DEF Next

(* The types hold for any nodes, names, counts and bounds: no pass creates *)
(* more than PerPass replicas or counts below zero, and nothing is         *)
(* restarted more than MaxAttempts times (reconcile, check_failover,       *)
(* manage_standby).                                                        *)
THEOREM ReconcileTypeCorrect == Spec => []TypeOK
<1>1. Init => ReconcileInv
  BY ReconcileInit
<1>2. ReconcileInv /\ [Next]_vars => ReconcileInv'
  BY ReconcileStep
<1>3. ReconcileInv => TypeOK
  BY InvTypes
<1> QED BY <1>1, <1>2, <1>3, PTL DEF Spec

(* The books of every node name the node a container is on, for any number *)
(* of nodes and whatever goes wrong: also when a pass writes back a copy   *)
(* that was taken before a failover, a node that led a partition sends its *)
(* books, or a standby was entered and then not created.                   *)
THEOREM BooksAlwaysLocate == Spec => []BooksLocate
<1>1. Init => ReconcileInv
  BY ReconcileInit
<1>2. ReconcileInv /\ [Next]_vars => ReconcileInv'
  BY ReconcileStep
<1>3. ReconcileInv => BooksLocate
  BY InvLocates
<1> QED BY <1>1, <1>2, <1>3, PTL DEF Spec
===============================================================================
