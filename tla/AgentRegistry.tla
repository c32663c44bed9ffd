---------------------------- MODULE AgentRegistry ----------------------------
(***************************************************************************)
(* The cluster registry (agent/mod.rs): how every node comes to list every *)
(* other one, how nodes are removed, and how the display name an operator  *)
(* gives to a node, here its label, travels.                               *)
(*                                                                         *)
(* A node knows another by records, each with an id.  A node that is added *)
(* by hand gets a fresh id (node-...), which travels with the record; a    *)
(* node introduces itself under its own id (ws-..., here its number).      *)
(* Every node polls the nodes it lists, takes over what they say of        *)
(* themselves, and from their reports the tombstones and the records it    *)
(* lacks; it also sends all of this to the nodes it has polled.            *)
(*                                                                         *)
(* A node has one LAN address and one DNS name.  The first is known to be  *)
(* its own wherever it turns up; by the second a node does not recognise   *)
(* itself before the record carries its global id.                         *)
(***************************************************************************)
EXTENDS Naturals, FiniteSets, Functions

CONSTANTS
  N,           \* nodes 1 .. N
  Desk,        \* the nodes the operator works at
  Known,       \* the nodes that node 1 lists to begin with
  Slow,        \* the nodes whose polls may be drawn out
  MaxLate,     \* bound: polls drawn out at once
  MaxRenames,  \* bound: labels given
  MaxEvents    \* bound: nodes added and removed, labels given, stops

ASSUME RegistryAssumption ==
  /\ N \in Nat \ {0} /\ Desk \subseteq 1 .. N /\ Slow \subseteq 1 .. N
  /\ Known \subseteq 2 .. N /\ MaxLate \in Nat /\ MaxRenames \in Nat /\ MaxEvents \in Nat

Nodes == 1 .. N
Ids == 1 .. N + N + MaxEvents  \* its own id for each node, then those of add_server

VARIABLES
  up,        \* the nodes whose WolfStack runs
  nodes,     \* nodes[n]: the records of n, without the one of itself
  deleted,   \* deleted[n]: its tombstones
  burying,   \* burying[n]: the removals that have yet to set their tombstone
  label,     \* label[n]: what n says of itself, 0 when nothing was ever set
  intents,   \* intents[n]: record id -> label that its node has yet to take
  late,      \* the polls under way: where, of which record, and the copy they began with
  sweep,     \* sweep[n]: the intent being delivered
  adds, renames, events,
  removed,   \* history: nodes of which a record was removed by hand
  asked      \* history: the last label given, by whom and to which record

vars == <<up, nodes, deleted, burying, label, intents, late, sweep,
          adds, renames, events, removed, asked>>
bounds == <<adds, renames, events, removed, asked>>

None == [x \in {} |-> 0]
Put(f, x, v) == [y \in DOMAIN f \cup {x} |-> IF y = x THEN v ELSE f[y]]
Without(f, S) == Restrict(f, DOMAIN f \ S)

(* seen: not polled since WolfStack started here; polled; polled, but not  *)
(* within the online window.                                               *)
Records == [of : Nodes, by : {"ip", "dns"}, sid : BOOLEAN, seen : {"no", "yes", "late"},
            label : 0 .. MaxRenames]

Init ==
  /\ up = Nodes
  /\ nodes = [n \in Nodes |->
                IF n # 1 THEN None
                ELSE [r \in {N + m : m \in Known} |-> [of |-> r - N, by |-> "ip", sid |-> FALSE,
                                                      seen |-> "no", label |-> 0]]]
  /\ deleted = [n \in Nodes |-> {}]
  /\ burying = [n \in Nodes |-> {}]
  /\ label = [n \in Nodes |-> 0]
  /\ intents = [n \in Nodes |-> None]
  /\ late = {}
  /\ sweep = [n \in Nodes |-> None]
  /\ adds = 0 /\ renames = 0 /\ events = 0
  /\ removed = {} /\ asked = [at |-> 0, id |-> 0, label |-> 0]

Event == events < MaxEvents /\ events' = events + 1

(* Two records of one node that can be told to be of one node: by the      *)
(* address, or by global id and hostname, which a record has once its node *)
(* was polled.                                                             *)
Same(a, b) == a.of = b.of /\ (a.by = b.by \/ (a.sid /\ b.sid))

(* gossip_identity_match, and the hostname.                                *)
IsSelf(n, r, k) == k.of = n /\ (r = n \/ k.sid \/ k.by = "ip")

(* Mutant: the tombstones of others are not kept.                          *)
TombstonesOwn(n, d) == deleted[n]

(* merge_tombstones: only when there is a new one are the records gone     *)
(* through.                                                                *)
Tombstones(n, d) == deleted[n] \cup (d \ {n})

MergeTombstones(n, list, d) ==
  IF Tombstones(n, d) = deleted[n] THEN list ELSE Without(list, Tombstones(n, d))

(* What n tells others: get_all_nodes, its own entry included.             *)
Reported(n, sid) ==
  Put(Without(nodes[n], {r \in DOMAIN nodes[n] : nodes[n][r].of = n /\ nodes[n][r].sid}),
      n, [of |-> n, by |-> "ip", sid |-> sid, seen |-> "yes", label |-> label[n]])

-----------------------------------------------------------------------------
(* poll_remote_nodes.  The list is copied, then its records are polled one *)
(* after the other, each address once; the node's own address is left out. *)
(* What a poll writes starts from the copy.  A poll is drawn out, the steps*)
(* of everybody else between its copy and its answer, or done in one step. *)

Polling(n, r) == \E l \in late : l.at = n /\ l.id = r

Polled(n, r) ==
  /\ n \in up /\ r \in DOMAIN nodes[n] /\ ~Polling(n, r)
  /\ ~(nodes[n][r].of = n /\ nodes[n][r].by = "ip")

PollStart(n, r) ==
  /\ n \in Slow /\ Polled(n, r) /\ Cardinality(late) < MaxLate
  /\ late' = late \cup {[at |-> n, id |-> r, copy |-> nodes[n][r]]}
  /\ UNCHANGED <<up, nodes, deleted, burying, label, intents, sweep, bounds>>

(* The node does not answer.                                               *)
PollFails(n, r, copy) ==
  /\ copy.of \notin up
  /\ nodes' = IF r \in DOMAIN nodes[n] /\ nodes[n][r].seen = "yes"
              THEN [nodes EXCEPT ![n][r].seen = "late"] ELSE nodes
  /\ UNCHANGED <<deleted, label>>

(* The record turns out to be n under its DNS name.  No tombstone: the id  *)
(* may be the one others use for n.                                        *)
ForgetSelfAlias(n, r, copy) ==
  /\ copy.of = n
  /\ nodes' = [nodes EXCEPT ![n] = Without(@, {r})]
  /\ UNCHANGED <<deleted, label>>

(* The polled node's own report, written over the copy of the record.      *)
Updated(copy) ==
  [copy EXCEPT !.sid = TRUE, !.seen = "yes", !.label = label[copy.of]]

(* The settings of a record that n has too follow the reporter, unless an  *)
(* edit of n is on its way.                                                *)
Mirrored(n, list, known) ==
  [r \in DOMAIN list |->
     IF r \in DOMAIN known /\ ~IsSelf(n, r, known[r]) /\ known[r].label # 0
        /\ r \notin DOMAIN intents[n] /\ r \notin Tombstones(n, deleted[n])
     THEN [list[r] EXCEPT !.label = known[r].label]
     ELSE list[r]]

(* Mutant: a record without a global id is taken over.                     *)
SeedsUnidentified(n, list, known, d) ==
  {r \in DOMAIN known \ (DOMAIN list \cup d) :
     /\ ~IsSelf(n, r, known[r])
     /\ \A x \in DOMAIN list : ~Same(list[x], known[r])}

(* Mutant: a record is taken over in spite of its tombstone.               *)
SeedsUntombstoned(n, list, known, d) ==
  {r \in DOMAIN known \ DOMAIN list :
     /\ known[r].sid
     /\ ~IsSelf(n, r, known[r])
     /\ \A x \in DOMAIN list : ~Same(list[x], known[r])}

(* The records of nodes that n does not list.                              *)
Seeds(n, list, known, d) ==
  {r \in DOMAIN known \ (DOMAIN list \cup d) :
     /\ known[r].sid
     /\ ~IsSelf(n, r, known[r])
     /\ \A x \in DOMAIN list : ~Same(list[x], known[r])}

Seeded(list, known, S) ==
  [r \in DOMAIN list \cup S |-> IF r \in S THEN [known[r] EXCEPT !.seen = "no"] ELSE list[r]]

(* Names that the reporter has for n itself and that n takes for its own.  *)
Adopted(n, known) ==
  {known[r].label : r \in {x \in DOMAIN known : /\ known[x].of = n /\ (x = n \/ known[x].sid)
                                                /\ known[x].label # 0}}

PollAnswered(n, r, copy) ==
  /\ copy.of \in up \ {n}
  /\ LET p == copy.of
         d == Tombstones(n, deleted[p])
         known == Reported(p, FALSE)
         list == MergeTombstones(n, Put(nodes[n], r, Updated(copy)), deleted[p])
         S == Seeds(n, list, known, d)
     IN /\ deleted' = [deleted EXCEPT ![n] = d]
        /\ nodes' = [nodes EXCEPT ![n] = Seeded(Mirrored(n, list, known), known, S)]
        /\ \E v \in IF Adopted(n, known) = {} THEN {label[n]} ELSE Adopted(n, known) :
             label' = [label EXCEPT ![n] = v]

PollEnds(n, r, copy) ==
  /\ PollFails(n, r, copy) \/ ForgetSelfAlias(n, r, copy) \/ PollAnswered(n, r, copy)
  /\ UNCHANGED <<up, burying, intents, sweep, bounds>>

Poll(n, r) == Polled(n, r) /\ PollEnds(n, r, nodes[n][r]) /\ UNCHANGED late
LatePoll(l) == PollEnds(l.at, l.id, l.copy) /\ late' = late \ {l}

(* sweep_replicate_control_plane: a node that has been polled is sent all  *)
(* of this, and takes one record for each node it lacks.                   *)
Replicate(n, r) ==
  /\ n \in up /\ r \in DOMAIN nodes[n] /\ nodes[n][r].seen # "no"
  /\ nodes[n][r].of \in up \ {n}
  /\ LET p == nodes[n][r].of
         d == Tombstones(p, deleted[n])
         known == Reported(n, TRUE)
         list == MergeTombstones(p, nodes[p], deleted[n])
         S == Seeds(p, list, known, d)
     IN /\ deleted' = [deleted EXCEPT ![p] = d]
        /\ \E T \in SUBSET S :
             /\ \A m \in {known[x].of : x \in S} : \E x \in T : T \cap {y \in S : known[y].of = m} = {x}
             /\ nodes' = [nodes EXCEPT ![p] = Seeded(list, known, T)]
  /\ UNCHANGED <<up, burying, label, intents, late, sweep, bounds>>

-----------------------------------------------------------------------------
(* The operator.                                                           *)

(* A record that came with a report or from the file brings the time its   *)
(* node was last seen along, and may count as online.                      *)
Online(n, m) == \E r \in DOMAIN nodes[n] : nodes[n][r].of = m /\ nodes[n][r].seen # "late"

(* remove_server at every node of R: the record goes, and its tombstone is *)
(* still to be set, under another lock.                                    *)
RemoveServer(R, b, unset) ==
  /\ nodes' = [x \in Nodes |-> IF x \in R THEN Without(nodes[x], {b.id}) ELSE nodes[x]]
  /\ burying' = [x \in Nodes |-> IF x \in R THEN unset[x] \cup {b} ELSE unset[x]]

(* The tombstone is set, and remove_node tells the peers that are online.  *)
(* Those of R list the record and do the same; other requests are lost.    *)
(* One that is late does what the tombstone does when it comes with a      *)
(* report.                                                                 *)
Bury(n, b, R) ==
  /\ n \in up /\ b \in burying[n]
  /\ deleted' = [deleted EXCEPT ![n] = @ \cup {b.id}]
  /\ b.tell \/ R = {}
  /\ \A x \in R : x \in up \ {n} /\ Online(n, x) /\ b.id \in DOMAIN nodes[x] \cup {x}
  /\ RemoveServer(R, b, [burying EXCEPT ![n] = @ \ {b}])
  /\ UNCHANGED <<up, label, intents, late, sweep, bounds>>

(* add_node: by an address that n does not list yet.  Records of the same  *)
(* node that are offline are removed.                                      *)
Join(n, m, by, id) ==
  LET old == {r \in DOMAIN nodes[n] : nodes[n][r].of = m /\ nodes[n][r].sid}
  IN /\ {n, m} \subseteq up
     /\ m = n => by = "dns"
     /\ \A r \in DOMAIN nodes[n] : nodes[n][r].of = m => nodes[n][r].by # by
     /\ Event /\ adds' = adds + 1
     /\ \E stale \in SUBSET old :
          /\ \A r \in old : IF r \in stale THEN nodes[n][r].seen # "yes" ELSE nodes[n][r].seen # "late"
          /\ nodes' = [nodes EXCEPT ![n] = Put(Without(@, stale), id, [of |-> m, by |-> by, sid |-> FALSE,
                                                                     seen |-> "no", label |-> 0])]
          /\ burying' = [burying EXCEPT ![n] = @ \cup [id : stale, tell : {FALSE}]]
     /\ UNCHANGED <<up, deleted, label, intents, late, sweep, renames, removed, asked>>

(* Mutant: the record gets the id of its node.                             *)
AddNodeUnderOwnId(n, m, by) == Join(n, m, by, m)

AddNode(n, m, by) == Join(n, m, by, N + N + adds + 1)

RemoveNode(n, r) ==
  /\ Event /\ n \in up /\ r \in DOMAIN nodes[n]
  /\ removed' = removed \cup {nodes[n][r].of}
  /\ RemoveServer({n}, [id |-> r, tell |-> TRUE], burying)
  /\ UNCHANGED <<up, deleted, label, intents, late, sweep, adds, renames, asked>>

(* The settings of another node: written down here, kept as an intent, and *)
(* sent once, which may fail.                                              *)
Rename(n, r) ==
  /\ Event /\ renames < MaxRenames /\ n \in up /\ r \in DOMAIN nodes[n]
  /\ renames' = renames + 1
  /\ asked' = [at |-> n, id |-> r, label |-> renames']
  /\ nodes' = [nodes EXCEPT ![n][r].label = renames']
  /\ intents' = [intents EXCEPT ![n] = Put(@, r, renames')]
  /\ \/ UNCHANGED label
     \/ nodes[n][r].of \in up /\ label' = [label EXCEPT ![nodes[n][r].of] = renames']
  /\ UNCHANGED <<up, deleted, burying, late, sweep, adds, removed>>

-----------------------------------------------------------------------------
(* get_node: by the id of the record, else by the global id of the node.   *)
Lookup(n, r) ==
  IF r \in DOMAIN nodes[n] THEN {r}
  ELSE {x \in DOMAIN nodes[n] : nodes[n][x].of = r /\ nodes[n][x].sid}

(* sweep_identity_intents.                                                 *)
SweepStart(n, r) ==
  /\ n \in up /\ sweep[n] = None /\ r \in DOMAIN intents[n]
  /\ IF Lookup(n, r) = {}
     THEN intents' = [intents EXCEPT ![n] = Without(@, {r})] /\ UNCHANGED sweep
     ELSE /\ \E x \in Lookup(n, r) :
               /\ nodes[n][x].seen # "no"
               /\ sweep' = [sweep EXCEPT ![n] = [id |-> r, to |-> nodes[n][x].of, label |-> intents[n][r]]]
          /\ UNCHANGED intents
  /\ UNCHANGED <<up, nodes, deleted, burying, label, late, bounds>>

(* Mutant: the intent is cleared whether or not it was delivered.          *)
SweepDoneRegardless(n) ==
  /\ n \in up /\ sweep[n] # None
  /\ label' = IF sweep[n].to \in up THEN [label EXCEPT ![sweep[n].to] = sweep[n].label] ELSE label
  /\ intents' = [intents EXCEPT ![n] = Without(@, {sweep[n].id})]
  /\ sweep' = [sweep EXCEPT ![n] = None]
  /\ UNCHANGED <<up, nodes, deleted, burying, late, bounds>>

(* The intent is delivered and cleared; it stays when its node is down.    *)
SweepDone(n) ==
  /\ n \in up /\ sweep[n] # None
  /\ IF sweep[n].to \in up
     THEN /\ label' = [label EXCEPT ![sweep[n].to] = sweep[n].label]
          /\ intents' = [intents EXCEPT ![n] = Without(@, {sweep[n].id})]
     ELSE UNCHANGED <<label, intents>>
  /\ sweep' = [sweep EXCEPT ![n] = None]
  /\ UNCHANGED <<up, nodes, deleted, burying, late, bounds>>

-----------------------------------------------------------------------------
(* WolfStack stops and starts; the lists, tombstones, labels and intents   *)
(* are on disk.                                                            *)

Stop(n) ==
  /\ Event /\ n \in up
  /\ up' = up \ {n}
  /\ late' = {l \in late : l.at # n}
  /\ burying' = [burying EXCEPT ![n] = {}]
  /\ sweep' = [sweep EXCEPT ![n] = None]
  /\ UNCHANGED <<nodes, label, intents, adds, renames, removed, asked>>

StopAnyhow(n) == Stop(n) /\ UNCHANGED deleted

(* In the middle of merge_tombstones: the tombstones of m are saved, the   *)
(* list without their records is not.                                      *)
StopInMerge(n, m) ==
  /\ m \in up \ {n}
  /\ \/ \E r \in DOMAIN nodes[n] : nodes[n][r].of = m
     \/ \E r \in DOMAIN nodes[m] : nodes[m][r].of = n /\ nodes[m][r].seen # "no"
  /\ Tombstones(n, deleted[m]) # deleted[n]
  /\ deleted' = [deleted EXCEPT ![n] = Tombstones(n, deleted[m])]
  /\ Stop(n)

(* plan_prune: of records of the same node one is kept, an id of           *)
(* add_server before the node's own.                                       *)
Pruned(list, T) ==
  LET Clear(r, S) == \A x \in S \ {r} : ~Same(list[x], list[r])
      Added == DOMAIN list \ Nodes
  IN /\ T \subseteq DOMAIN list
     /\ \A r \in DOMAIN list : r \in T <=> Clear(r, IF r \in Nodes THEN T ELSE T \cap Added)

Boot(n) ==
  /\ n \notin up
  /\ up' = up \cup {n}
  /\ \E T \in SUBSET DOMAIN nodes[n] :
       /\ Pruned(nodes[n], T)
       /\ nodes' = [nodes EXCEPT ![n] = [r \in T |-> [nodes[n][r] EXCEPT !.seen = "no"]]]
  /\ UNCHANGED <<deleted, burying, label, intents, late, sweep, bounds>>

-----------------------------------------------------------------------------
Visit(n, m) == \E r \in Ids : r \in DOMAIN nodes[n] /\ nodes[n][r].of = m /\ Poll(n, r)
LateAnswer == \E l \in late : LatePoll(l)
Tell(n, m) == \E r \in Ids : r \in DOMAIN nodes[n] /\ nodes[n][r].of = m /\ Replicate(n, r)
Deliver(n) == SweepDone(n) \/ \E r \in Ids : SweepStart(n, r)
Entomb(n) == \E b \in burying[n], R \in SUBSET Nodes : Bury(n, b, R)

Operator(n) ==
  /\ n \in Desk
  /\ \/ \E m \in Nodes, by \in {"ip", "dns"} : AddNode(n, m, by)
     \/ \E r \in Ids : RemoveNode(n, r) \/ Rename(n, r)

Next ==
  \/ \E n \in Nodes : Deliver(n) \/ Entomb(n) \/ Operator(n) \/ StopAnyhow(n) \/ Boot(n)
  \/ \E n, m \in Nodes : Visit(n, m) \/ Tell(n, m) \/ StopInMerge(n, m)
  \/ LateAnswer \/ \E n \in Nodes, r \in Ids : PollStart(n, r)

Spec == Init /\ [][Next]_vars

(* Fairness.  The poll and the replication loops go round for as long as   *)
(* some of them has something new to say, nodes that are down come back    *)
(* and removals under way go on; no poll takes for ever; and the loop that *)
(* delivers intents goes round.  Requests sent once may all be lost.       *)
Chore ==
  \/ \E n \in Nodes : Entomb(n) \/ Boot(n)
  \/ \E n, m \in Nodes : Visit(n, m) \/ Tell(n, m)

FairSpec ==
  /\ Spec
  /\ WF_vars(Chore) /\ WF_vars(LateAnswer) /\ WF_vars(\E n \in Nodes : Deliver(n))

-----------------------------------------------------------------------------
(* The types of the state.                                                 *)
TypeOK ==
  /\ up \subseteq Nodes
  /\ \A n \in Nodes :
       /\ DOMAIN nodes[n] \subseteq Ids \ {n} /\ \A r \in DOMAIN nodes[n] : nodes[n][r] \in Records
       /\ \A r \in DOMAIN nodes[n] \cap Nodes : nodes[n][r].of = r
       /\ DOMAIN intents[n] \subseteq Ids
       /\ deleted[n] \subseteq Ids /\ burying[n] \subseteq [id : Ids, tell : BOOLEAN]
  /\ label \in [Nodes -> 0 .. MaxRenames]
  /\ late \subseteq [at : up, id : Ids, copy : Records]

(* No node becomes its own peer through what others tell it, under         *)
(* whatever address they know it: only its operator can list it there.     *)
SelfRecords(n) == {r \in DOMAIN nodes[n] : nodes[n][r].of = n}
SelfUnlisted == [][adds' = adds => \A n \in Nodes : SelfRecords(n)' \subseteq SelfRecords(n)]_vars

(* "node IDs that were explicitly deleted and must not be re-added by      *)
(* gossip" (agent/mod.rs:657), through removals under way, late reports and*)
(* restarts in the middle of a merge: a record that a node has tombstoned  *)
(* and no longer lists comes back only by a poll of the node itself, begun *)
(* while it still listed the record.                                       *)
TombstonesBar ==
  [][\A n \in Nodes : \A r \in (deleted[n] \ DOMAIN nodes[n]) \cap DOMAIN nodes'[n] :
       Polling(n, r)]_vars

(* The same as a state: a node lists no record whose id it has tombstoned. *)
(* The code does not keep it.                                              *)
TombstonesHold == \A n \in Nodes : deleted[n] \cap DOMAIN nodes[n] = {}

Knows(n, m) == \E r \in DOMAIN nodes[n] : nodes[n][r].of = m
Kept == Nodes \ removed

(* "ANY node converges to the full mesh": nodes that were not removed      *)
(* come to know each other if one of them knows both or is known by both,  *)
(* and to share their tombstones.                                          *)
Converged ==
  /\ \A n, m \in Kept : Knows(n, m) => n = m \/ (Knows(m, n) /\ deleted[n] \ {n, m} = deleted[m] \ {n, m})
  /\ \A n, m, o \in Kept : Knows(n, m) /\ Knows(m, o) => n = o \/ Knows(n, o)
MeshForms == <>[]Converged

(* "makes 'rename an offline node, it applies when it reconnects' work":   *)
(* as long as the record renamed is listed where it was renamed, its node  *)
(* takes the label, and every node shows it.  So for the first name a node *)
(* is given (MaxRenames = 1): after a second one, mirrors that still have  *)
(* the first may put it back (agent/mod.rs:2863).                          *)
Applied ==
  asked.at # 0 /\ asked.id \in DOMAIN nodes[asked.at] =>
    LET m == nodes[asked.at][asked.id].of
    IN m \in Kept => /\ label[m] = asked.label
                     /\ \A n \in Kept \ {m} : \A r \in DOMAIN nodes[n] :
                          nodes[n][r].of = m => nodes[n][r].label = asked.label
RenameApplies == <>[]Applied
=============================================================================
