----------------------------- MODULE WolfRunGossip -----------------------------
(***************************************************************************)
(* The WolfRun service list as the nodes of one cluster replicate it       *)
(* (wolfrun/mod.rs, the handlers of api/mod.rs and the loop of main.rs).   *)
(*                                                                         *)
(* Every node keeps the whole list and the tombstones of deleted services. *)
(* A handler changes its node's list and sends a copy of the list to the   *)
(* peers one by one; the leader does so every 15 seconds.  A peer replaces *)
(* its list by the copy, without the services it has a tombstone for, and  *)
(* answers with the ids it left out; the sender then deletes those.        *)
(*                                                                         *)
(* The list and the tombstones are under two locks, a handler that uses    *)
(* both takes them in turn, and handlers, the loop and peers' requests run *)
(* concurrently.  Calls are lost or answered late and nodes crash until    *)
(* the cluster settles.  Which nodes a node believes to be online is not a *)
(* variable: until then any node may believe itself the leader and pass    *)
(* over any peer.                                                          *)
(*                                                                         *)
(* A service is an id and a revision of its settings, all of one cluster.  *)
(* A change of a list is one step with the save of its file.               *)
(***************************************************************************)
EXTENDS Naturals, Sequences, FiniteSets, Functions, SequencesExt

CONSTANTS
  N,          \* nodes 1 .. N, in the order of their ids
  Services,   \* service ids
  Inbox,      \* bound: requests of peers being served at once
  MaxCasts,   \* bound: broadcasts under way at once
  TombMax,    \* TOMBSTONE_MAX
  MaxEdits,   \* bound: operator actions
  MaxCrashes  \* bound: restarts

ASSUME NodesAssumption == N \in Nat \ {0}
ASSUME TombAssumption == TombMax \in Nat \ {0}
ASSUME BoundsAssumption == Inbox \in Nat /\ MaxCasts \in Nat \ {0} /\ MaxEdits \in Nat /\ MaxCrashes \in Nat

Nodes == 1 .. N
Peers(n) == Nodes \ {n}

VARIABLES
  services,  \* services[n]: id -> revision, in memory and in services.json
  deleted,   \* deleted[n]: the tombstones, oldest first
  handler,   \* handler[n]: the operator's request under way at n
  cast,      \* cast[n][c]: the broadcasts under way at n, the first one the loop's
  inbox,     \* inbox[n][i]: the request of a peer n is serving
  settled,   \* no more losses, crashes, operators or wrong views
  edits, crashes,
  created,   \* history: ids given to a service
  removed    \* history: ids an operator deleted

history == <<edits, crashes, created, removed>>
vars == <<services, deleted, handler, cast, inbox, settled, history>>

Idle == [kind |-> "idle"]
Nobody == [node |-> 0, slot |-> 0]
NoService == [s \in {} |-> 0]

Without(list, S) == Restrict(list, DOMAIN list \ S)
Put(list, s, r) == [x \in DOMAIN list \cup {s} |-> IF x = s THEN r ELSE list[x]]

(* A cluster that agrees on some services.                                 *)
Init ==
  /\ created \in SUBSET Services
  /\ services = [n \in Nodes |-> [s \in created |-> 1]]
  /\ deleted = [n \in Nodes |-> << >>]
  /\ handler = [n \in Nodes |-> Idle]
  /\ cast = [n \in Nodes |-> [c \in 1 .. MaxCasts |-> Idle]]
  /\ inbox = [n \in Nodes |-> [i \in 1 .. Inbox |-> Idle]]
  /\ settled = FALSE
  /\ edits = 0 /\ crashes = 0
  /\ removed = {}

-----------------------------------------------------------------------------
(* record_tombstone: the id becomes the youngest, and past the cap the     *)
(* oldest go.                                                              *)
Entomb(tombs, s) ==
  LET t == Append(RemoveFirst(tombs, s), s)
  IN IF Len(t) > TombMax THEN Tail(t) ELSE t

(* Room for one more request at m; which place it takes is only a name.    *)
Serving == {x \in Nodes \X (1 .. Inbox) : inbox[x[1]][x[2]] # Idle}

Free(m, i) ==
  /\ Cardinality(Serving) < Inbox
  /\ inbox[m][i] = Idle /\ \A j \in 1 .. i - 1 : inbox[m][j] # Idle

-----------------------------------------------------------------------------
(* The operator's handlers.  Each changes the list and spawns a broadcast; *)
(* a node has one such request under way at a time.                        *)

Request(n) ==
  /\ ~settled /\ edits < MaxEdits
  /\ handler[n] = Idle
  /\ edits' = edits + 1
  /\ UNCHANGED <<deleted, cast, inbox, settled, crashes>>

(* wolfrun_create and wolfrun_adopt, under a fresh id.                     *)
Create(n, s) ==
  /\ Request(n)
  /\ s \notin created
  /\ services' = [services EXCEPT ![n] = Put(@, s, 1)]
  /\ handler' = [handler EXCEPT ![n] = [kind |-> "spread"]]
  /\ created' = created \cup {s}
  /\ UNCHANGED removed

(* scale, update_settings, update_image: an edit of a service in the list. *)
Update(n, s) ==
  /\ Request(n)
  /\ s \in DOMAIN services[n]
  /\ services' = [services EXCEPT ![n][s] = edits + 2]
  /\ handler' = [handler EXCEPT ![n] = [kind |-> "spread"]]
  /\ UNCHANGED <<created, removed>>

(* Mutant: an id that is not listed is deleted too.                        *)
DeleteUnlisted(n, s) ==
  /\ Request(n)
  /\ services' = [services EXCEPT ![n] = Without(@, {s})]
  /\ handler' = [handler EXCEPT ![n] = [kind |-> "bury", id |-> s]]
  /\ removed' = removed \cup {s}
  /\ UNCHANGED created

(* wolfrun_delete: first the list, under its lock ...                      *)
Delete(n, s) ==
  /\ Request(n)
  /\ s \in DOMAIN services[n]
  /\ services' = [services EXCEPT ![n] = Without(@, {s})]
  /\ handler' = [handler EXCEPT ![n] = [kind |-> "bury", id |-> s]]
  /\ removed' = removed \cup {s}
  /\ UNCHANGED created

(* The peers that are still to be told; then comes the broadcast.          *)
Told(s, left) == IF left = {} THEN [kind |-> "spread"] ELSE [kind |-> "tell", id |-> s, to |-> left]

(* ... then the tombstone, under its own; and the peers are told.          *)
Bury(n) ==
  /\ handler[n].kind = "bury"
  /\ deleted' = [deleted EXCEPT ![n] = Entomb(@, handler[n].id)]
  /\ handler' = [handler EXCEPT ![n] = Told(@.id, Peers(n))]
  /\ UNCHANGED <<services, cast, inbox, settled, history>>

(* broadcast_delete, one peer: there wolfrun_sync_delete removes the id    *)
(* from the list, and then the tombstone is set.                           *)
Tell(n, m, i) ==
  /\ handler[n].kind = "tell"
  /\ m \in handler[n].to
  /\ Free(m, i)
  /\ services' = [services EXCEPT ![m] = Without(@, {handler[n].id})]
  /\ inbox' = [inbox EXCEPT ![m][i] = [kind |-> "bury", id |-> handler[n].id]]
  /\ handler' = [handler EXCEPT ![n] = Told(@.id, @.to \ {m})]
  /\ UNCHANGED <<deleted, cast, settled, history>>

BuryTold(m, i) ==
  /\ inbox[m][i].kind = "bury"
  /\ deleted' = [deleted EXCEPT ![m] = Entomb(@, inbox[m][i].id)]
  /\ inbox' = [inbox EXCEPT ![m][i] = Idle]
  /\ UNCHANGED <<services, handler, cast, settled, history>>

(* A peer is offline, or believed to be.                                   *)
TellNot(n, m) ==
  /\ ~settled
  /\ handler[n].kind = "tell"
  /\ m \in handler[n].to
  /\ handler' = [handler EXCEPT ![n] = Told(@.id, @.to \ {m})]
  /\ UNCHANGED <<services, deleted, cast, inbox, settled, history>>

-----------------------------------------------------------------------------
(* broadcast_to_cluster.  Each handler spawns a task for its own, beside   *)
(* those under way; only the loop waits for its last one.                  *)

Sync(list, to, at, learned) ==
  [kind |-> "sync", list |-> list, to |-> to, at |-> at, learned |-> learned]

(* A broadcast between two calls.  It has ended once every peer had its    *)
(* turn and no deletion is left to act upon.                               *)
Onward(list, to, learned) ==
  IF to # {} THEN Sync(list, to, Nobody, learned)
  ELSE IF learned # {} THEN Sync(NoService, {}, Nobody, learned) ELSE Idle

Casting == {x \in Nodes \X (1 .. MaxCasts) : cast[x[1]][x[2]] # Idle}

(* The list is copied, once; an empty one is not sent.                     *)
Broadcast(n, c) ==
  /\ cast[n][c] = Idle /\ Cardinality(Casting) < MaxCasts
  /\ cast' = [cast EXCEPT ![n][c] =
                IF services[n] = NoService THEN Idle ELSE Onward(services[n], Peers(n), {})]
  /\ UNCHANGED <<services, deleted, inbox, settled, history>>

(* A handler's broadcast, after a deletion once all peers have been told.  *)
Spread(n) ==
  /\ handler[n].kind = "spread"
  /\ \E c \in 2 .. MaxCasts : Broadcast(n, c)
  /\ handler' = [handler EXCEPT ![n] = Idle]

(* is_leader: the lowest id among the nodes one sees online.               *)
IsLeader(n) == settled => n = 1

(* The leader's broadcast, every 15 seconds.                               *)
Loop(n) ==
  /\ IsLeader(n)
  /\ services[n] # NoService
  /\ Broadcast(n, 1)
  /\ UNCHANGED handler

Copying(n, c) == cast[n][c].kind = "sync" /\ cast[n][c].at = Nobody

(* The copy goes to one peer.  There, merge_from_peer: the tombstones are  *)
(* read under their lock ...                                               *)
Send(n, c, m, i) ==
  /\ Copying(n, c) /\ m \in cast[n][c].to
  /\ Free(m, i)
  /\ LET rejected == DOMAIN cast[n][c].list \cap Range(deleted[m])
     IN inbox' = [inbox EXCEPT ![m][i] =
                    [kind |-> "merge", list |-> Without(cast[n][c].list, rejected), rejected |-> rejected,
                     from |-> n, task |-> c]]
  /\ cast' = [cast EXCEPT ![n][c] = Sync(@.list, @.to \ {m}, [node |-> m, slot |-> i], @.learned)]
  /\ UNCHANGED <<services, deleted, handler, settled, history>>

(* The sender still waits for this answer.                                 *)
Waits(n, c, m, i) == IF cast[n][c].kind = "sync" THEN cast[n][c].at = [node |-> m, slot |-> i] ELSE FALSE

Heard(b, rejected) == Onward(b.list, b.to, b.learned \cup rejected)

(* Mutant: only the services that are new here are taken from the copy.    *)
MergeKeepsKnown(m, i) ==
  /\ inbox[m][i].kind = "merge"
  /\ services' = [services EXCEPT ![m] =
                    [s \in DOMAIN inbox[m][i].list |->
                       IF s \in DOMAIN services[m] THEN services[m][s] ELSE inbox[m][i].list[s]]]
  /\ inbox' = [inbox EXCEPT ![m][i] = Idle]
  /\ LET n == inbox[m][i].from
         c == inbox[m][i].task
     IN cast' = IF Waits(n, c, m, i)
                THEN [cast EXCEPT ![n][c] = Heard(@, inbox[m][i].rejected)]
                ELSE cast
  /\ UNCHANGED <<deleted, handler, settled, history>>

(* Mutant: the answer names what the peer does not list.                   *)
MergeReportsMissing(m, i) ==
  /\ inbox[m][i].kind = "merge"
  /\ services' = [services EXCEPT ![m] = inbox[m][i].list]
  /\ inbox' = [inbox EXCEPT ![m][i] = Idle]
  /\ LET n == inbox[m][i].from
         c == inbox[m][i].task
     IN cast' = IF Waits(n, c, m, i)
                THEN [cast EXCEPT ![n][c] = Heard(@, DOMAIN @.list \ DOMAIN services[m])]
                ELSE cast
  /\ UNCHANGED <<deleted, handler, settled, history>>

(* ... the list is replaced under its own lock, and the ids left out are   *)
(* the answer.  It is lost on a sender that has given up before.           *)
Merge(m, i) ==
  /\ inbox[m][i].kind = "merge"
  /\ services' = [services EXCEPT ![m] = inbox[m][i].list]
  /\ inbox' = [inbox EXCEPT ![m][i] = Idle]
  /\ LET n == inbox[m][i].from
         c == inbox[m][i].task
     IN cast' = IF Waits(n, c, m, i)
                THEN [cast EXCEPT ![n][c] = Heard(@, inbox[m][i].rejected)]
                ELSE cast
  /\ UNCHANGED <<deleted, handler, settled, history>>

(* A peer is offline, or believed to be.                                   *)
SendNot(n, c, m) ==
  /\ ~settled
  /\ Copying(n, c) /\ m \in cast[n][c].to
  /\ cast' = [cast EXCEPT ![n][c] = Onward(@.list, @.to \ {m}, @.learned)]
  /\ UNCHANGED <<services, deleted, handler, inbox, settled, history>>

Serves(a, n, c) ==
  LET r == inbox[a.node][a.slot]
  IN IF r.kind = "merge" THEN r.from = n /\ r.task = c ELSE FALSE

(* No answer came, or not in time: the same copy goes to the peer's next   *)
(* address, or the next peer has its turn.                                 *)
GiveUp(n, c, again) ==
  /\ cast[n][c].kind = "sync" /\ cast[n][c].at # Nobody
  /\ settled => ~again /\ ~Serves(cast[n][c].at, n, c)
  /\ LET b == cast[n][c]
     IN cast' = [cast EXCEPT ![n][c] =
                   Onward(b.list, IF again THEN b.to \cup {b.at.node} ELSE b.to, b.learned)]
  /\ UNCHANGED <<services, deleted, handler, inbox, settled, history>>

Continue(left) == Onward(NoService, {}, left)

Answered(n, c) == Copying(n, c) /\ cast[n][c].to = {}

(* Mutant: the answers are not acted upon.                                 *)
LearnNothing(n, c, s) ==
  /\ Answered(n, c)
  /\ s \in cast[n][c].learned
  /\ cast' = [cast EXCEPT ![n][c] = Continue(@.learned \ {s})]
  /\ UNCHANGED <<services, deleted, handler, inbox, settled, history>>

(* A deletion learned from a peer.  A service that is listed here has its  *)
(* containers destroyed, which takes a while; of any other the tombstone   *)
(* is all there is to do.                                                  *)
Learn(n, c, s) ==
  /\ Answered(n, c)
  /\ s \in cast[n][c].learned
  /\ cast' = [cast EXCEPT ![n][c] =
                [kind |-> IF s \in DOMAIN services[n] THEN "destroy" ELSE "bury", id |-> s,
                 left |-> @.learned \ {s}]]
  /\ UNCHANGED <<services, deleted, handler, inbox, settled, history>>

(* delete: a service no longer listed leaves no tombstone.                 *)
DeleteLearned(n, c) ==
  /\ cast[n][c].kind = "destroy"
  /\ services' = [services EXCEPT ![n] = Without(@, {cast[n][c].id})]
  /\ cast' = IF cast[n][c].id \in DOMAIN services[n]
             THEN [cast EXCEPT ![n][c] = [kind |-> "bury", id |-> @.id, left |-> @.left]]
             ELSE [cast EXCEPT ![n][c] = Continue(@.left)]
  /\ UNCHANGED <<deleted, handler, inbox, settled, history>>

BuryLearned(n, c) ==
  /\ cast[n][c].kind = "bury"
  /\ deleted' = [deleted EXCEPT ![n] = Entomb(@, cast[n][c].id)]
  /\ cast' = [cast EXCEPT ![n][c] = Continue(@.left)]
  /\ UNCHANGED <<services, handler, inbox, settled, history>>

-----------------------------------------------------------------------------
(* What n may be in the middle of writing: its tasks and requests that set *)
(* a tombstone next, and those that have changed or change next the list.  *)
Writing(n) ==
  LET kinds == {handler[n].kind} \cup {cast[n][c].kind : c \in 1 .. MaxCasts}
               \cup {inbox[n][i].kind : i \in 1 .. Inbox}
  IN (IF "bury" \in kinds THEN {"deleted"} ELSE {})
     \cup (IF kinds \cap {"spread", "bury", "merge", "destroy"} # {} THEN {"services"} ELSE {})

(* The process stops and starts again: what it was doing is lost.  The     *)
(* files are written in place; one that was being written is cut short,    *)
(* and load takes a file it cannot parse for an empty one.                 *)
Crash(n, torn) ==
  /\ ~settled /\ crashes < MaxCrashes
  /\ crashes' = crashes + 1
  /\ torn \subseteq Writing(n)
  /\ services' = [services EXCEPT ![n] = IF "services" \in torn THEN NoService ELSE @]
  /\ deleted' = [deleted EXCEPT ![n] = IF "deleted" \in torn THEN << >> ELSE @]
  /\ handler' = [handler EXCEPT ![n] = Idle]
  /\ cast' = [cast EXCEPT ![n] = [c \in 1 .. MaxCasts |-> Idle]]
  /\ inbox' = [inbox EXCEPT ![n] = [i \in 1 .. Inbox |-> Idle]]
  /\ UNCHANGED <<settled, edits, created, removed>>

Settle ==
  /\ ~settled
  /\ settled' = TRUE
  /\ UNCHANGED <<services, deleted, handler, cast, inbox, history>>

-----------------------------------------------------------------------------
Operator(n) == \E s \in Services : Create(n, s) \/ Update(n, s) \/ Delete(n, s)

Handler(n) ==
  \/ Bury(n)
  \/ \E m \in Peers(n), i \in 1 .. Inbox : Tell(n, m, i)
  \/ \E m \in Peers(n) : TellNot(n, m)
  \/ Spread(n)

Broadcasting(n, c) ==
  \/ \E m \in Peers(n), i \in 1 .. Inbox : Send(n, c, m, i)
  \/ \E m \in Peers(n) : SendNot(n, c, m)
  \/ \E again \in BOOLEAN : GiveUp(n, c, again)
  \/ \E s \in Services : Learn(n, c, s)
  \/ DeleteLearned(n, c)
  \/ BuryLearned(n, c)

Serve(n, i) == BuryTold(n, i) \/ Merge(n, i)

Next ==
  \/ \E n \in Nodes : Operator(n) \/ Handler(n) \/ Loop(n)
  \/ \E n \in Nodes, c \in 1 .. MaxCasts : Broadcasting(n, c)
  \/ \E n \in Nodes, i \in 1 .. Inbox : Serve(n, i)
  \/ \E n \in Nodes, torn \in SUBSET {"services", "deleted"} : Crash(n, torn)
  \/ Settle

Spec == Init /\ [][Next]_vars

Tasks ==
  \E n \in Nodes : \/ \E c \in 1 .. MaxCasts : Broadcasting(n, c)
                   \/ \E i \in 1 .. Inbox : Serve(n, i)

(* The leader's loop comes round, and of the broadcasts and requests under *)
(* way one or the other goes on.  Nothing is asked of the operator's       *)
(* handlers.                                                               *)
Fairness == WF_vars(Loop(1)) /\ WF_vars(Tasks)

FairSpec == Spec /\ Fairness

-----------------------------------------------------------------------------
Lists == UNION {[S -> 1 .. MaxEdits + 1] : S \in SUBSET Services}

Handlings ==
  {Idle, [kind |-> "spread"]}
  \cup [kind : {"bury"}, id : Services]
  \cup [kind : {"tell"}, id : Services, to : SUBSET Nodes]

Casts ==
  {Idle}
  \cup [kind : {"destroy", "bury"}, id : Services, left : SUBSET Services]
  \cup [kind : {"sync"}, list : Lists, to : SUBSET Nodes, learned : SUBSET Services,
        at : {Nobody} \cup [node : Nodes, slot : 1 .. Inbox]]

Requests ==
  {Idle}
  \cup [kind : {"bury"}, id : Services]
  \cup [kind : {"merge"}, list : Lists, rejected : SUBSET Services, from : Nodes,
        task : 1 .. MaxCasts]

(* The types of the state; no tombstone twice, and never more than the cap.*)
TypeOK ==
  /\ services \in [Nodes -> Lists]
  /\ \A n \in Nodes : /\ deleted[n] \in Seq(Services) /\ IsInjective(deleted[n])
                      /\ Len(deleted[n]) <= TombMax
  /\ handler \in [Nodes -> Handlings]
  /\ cast \in [Nodes -> [1 .. MaxCasts -> Casts]]
  /\ inbox \in [Nodes -> [1 .. Inbox -> Requests]]
  /\ settled \in BOOLEAN
  /\ edits \in 0 .. MaxEdits /\ crashes \in 0 .. MaxCrashes
  /\ created \subseteq Services /\ removed \subseteq created

(* No node has a tombstone for a service no operator deleted, whatever     *)
(* copies, answers and restarts it went through: a tombstone bars the id   *)
(* for good and, as an answer to a broadcast, makes the sender destroy the *)
(* service's containers.  (A list may still lose a service without one: a  *)
(* copy it is missing from, wolfrun/mod.rs:748, or a file cut short.)      *)
OnlyDeletedBuried == \A n \in Nodes : Range(deleted[n]) \subseteq removed

(* "Tombstoned services are NEVER accepted" (wolfrun/mod.rs:723) and "peer *)
(* gossip can never resurrect it" (wolfrun/mod.rs:391): no node lists a    *)
(* service it has a tombstone for.                                         *)
NoGhost == \A n \in Nodes : DOMAIN services[n] \cap Range(deleted[n]) = {}

Agreed ==
  \/ services[1] = NoService
  \/ \A n \in Nodes : services[n] = services[1]

Clean == \A n \in Peers(1) : DOMAIN services[1] \cap Range(deleted[n]) = {}

(* Once the cluster settles every node comes to the leader's list, whatever*)
(* copies were under way in which order - unless the leader has no service *)
(* left, when it sends nothing.                                            *)
Agreement == <>settled => <>[]Agreed

(* Once the cluster settles the leader gives up every service a peer knows *)
(* to be deleted: "the sync reply tells the stale sender to clean up too"  *)
(* (wolfrun/mod.rs:285).                                                   *)
DeletionReachesLeader == <>settled => <>[]Clean

(* "a deleted WolfRun service stays deleted" (CHANGELOG.md:101): once the  *)
(* cluster settles no node goes on listing a service that another one      *)
(* knows to be deleted.                                                    *)
DeletedStaysDeleted ==
  <>settled =>
    <>[](\A n, m \in Nodes : DOMAIN services[n] \cap Range(deleted[m]) = {})
=============================================================================
