-------------------------- MODULE AgentRegistryProofs --------------------------
(***************************************************************************)
(* Proofs about AgentRegistry, for any number of nodes, any set of nodes   *)
(* known to begin with, any operators and any bounds.                      *)
(*                                                                         *)
(* The inductive invariant says what every list of records looks like: the *)
(* ids in it have been handed out, its own node's id is not among them,    *)
(* and a record under the own id of a node is of that node.  With it a     *)
(* report can be no more than a list that others keep, and what a node     *)
(* takes from a report is screened against its tombstones and itself.      *)
(***************************************************************************)
EXTENDS AgentRegistry, TLAPS

(* The ids handed out when k records have been added by hand.              *)
Handed(k) == 1 .. N + N + k

Labels == 0 .. MaxRenames

(* A list of records that node n may have, or report.                      *)
Sound(f, k) ==
  /\ DOMAIN f \subseteq Handed(k)
  /\ \A r \in DOMAIN f : f[r] \in Records
  /\ \A r \in DOMAIN f \cap Nodes : f[r].of = r

Listing(n, f, k) == Sound(f, k) /\ n \notin DOMAIN f

Sweeps(k) == [id : Handed(k), to : Nodes, label : Labels]

NodesInv ==
  /\ DOMAIN nodes = Nodes
  /\ \A n \in Nodes : Listing(n, nodes[n], adds)
IntentsInv ==
  /\ DOMAIN intents = Nodes
  /\ \A n \in Nodes : /\ DOMAIN intents[n] \subseteq Handed(adds)
                      /\ \A r \in DOMAIN intents[n] : intents[n][r] \in Labels
SweepInv ==
  /\ DOMAIN sweep = Nodes
  /\ \A n \in Nodes : sweep[n] = None \/ sweep[n] \in Sweeps(adds)
BuryInv == burying \in [Nodes -> SUBSET [id : Handed(adds), tell : BOOLEAN]]
LateInv ==
  \A l \in late : /\ l \in [at : up, id : Handed(adds), copy : Records]
                  /\ l.id # l.at
                  /\ l.id \in Nodes => l.copy.of = l.id
CountsInv ==
  /\ adds \in Nat /\ events \in Nat /\ renames \in Nat
  /\ adds <= events /\ events <= MaxEvents /\ renames <= MaxRenames

RegistryInv ==
  /\ up \subseteq Nodes
  /\ NodesInv
  /\ deleted \in [Nodes -> SUBSET Handed(adds)]
  /\ label \in [Nodes -> Labels]
  /\ BuryInv /\ IntentsInv /\ SweepInv /\ LateInv /\ CountsInv

-----------------------------------------------------------------------------
(* The operators on lists of records.                                      *)

LEMMA HandedGrows ==
  ASSUME NEW k \in Nat
  PROVE  /\ Handed(k) \subseteq Handed(k + 1)
         /\ N + N + k + 1 \in Handed(k + 1)
         /\ N + N + k + 1 \notin Handed(k)
         /\ N + N + k + 1 \notin Nodes
         /\ Nodes \subseteq Handed(k)
  BY RegistryAssumption DEF Handed, Nodes

LEMMA PutSound ==
  ASSUME NEW k, NEW f, Sound(f, k), NEW x \in Handed(k), NEW v \in Records,
         x \in Nodes => v.of = x
  PROVE  Sound(Put(f, x, v), k)
<1> DEFINE g == Put(f, x, v)
<1>1. /\ DOMAIN g = DOMAIN f \cup {x} /\ g[x] = v
      /\ \A y \in DOMAIN f \ {x} : g[y] = f[y]
  BY DEF Put
<1> SUFFICES Sound(g, k)
  OBVIOUS
<1> HIDE DEF g
<1> QED BY <1>1 DEF Sound

LEMMA WithoutSound ==
  ASSUME NEW k, NEW f, Sound(f, k), NEW S
  PROVE  Sound(Without(f, S), k)
<1> DEFINE g == Without(f, S)
<1>1. /\ DOMAIN g = DOMAIN f \ S
      /\ \A y \in DOMAIN f \ S : g[y] = f[y]
  BY DEF Without, Restrict
<1> SUFFICES Sound(g, k)
  OBVIOUS
<1> HIDE DEF g
<1> QED BY <1>1 DEF Sound

LEMMA SoundGrows ==
  ASSUME NEW k \in Nat, NEW f, Sound(f, k)
  PROVE  Sound(f, k + 1)
  BY HandedGrows DEF Sound

(* What a node reports is a list that may have itself in it.               *)
LEMMA ReportedSound ==
  ASSUME RegistryInv, NEW n \in Nodes, NEW sid \in BOOLEAN
  PROVE  Sound(Reported(n, sid), adds)
<1> DEFINE own == [of |-> n, by |-> "ip", sid |-> sid, seen |-> "yes", label |-> label[n]]
           S == {r \in DOMAIN nodes[n] : nodes[n][r].of = n /\ nodes[n][r].sid}
<1>1. own \in Records /\ own.of = n /\ n \in Handed(adds)
  BY HandedGrows DEF RegistryInv, CountsInv, Records, Labels
<1>2. Sound(Without(nodes[n], S), adds)
  BY WithoutSound DEF RegistryInv, NodesInv, Listing
<1>3. Reported(n, sid) = Put(Without(nodes[n], S), n, own)
  BY DEF Reported
<1> HIDE DEF own, S
<1> QED BY <1>1, <1>2, <1>3, PutSound

LEMMA MergedListing ==
  ASSUME NEW n, NEW f, NEW k, Listing(n, f, k), NEW d
  PROVE  /\ Listing(n, MergeTombstones(n, f, d), k)
         /\ DOMAIN MergeTombstones(n, f, d) \subseteq DOMAIN f
         /\ \A r \in DOMAIN MergeTombstones(n, f, d) : MergeTombstones(n, f, d)[r] = f[r]
         /\ DOMAIN f \cap deleted[n] = {} =>
              DOMAIN MergeTombstones(n, f, d) \cap Tombstones(n, d) = {}
<1> DEFINE g == Without(f, Tombstones(n, d))
<1>0. Sound(g, k)
  BY WithoutSound DEF Listing
<1>1. DOMAIN g = DOMAIN f \ Tombstones(n, d) /\ \A r \in DOMAIN g : g[r] = f[r]
  BY DEF Without, Restrict
<1>2. MergeTombstones(n, f, d) = IF Tombstones(n, d) = deleted[n] THEN f ELSE g
  BY DEF MergeTombstones
<1> HIDE DEF g
<1> QED BY <1>0, <1>1, <1>2 DEF Listing

LEMMA MirroredListing ==
  ASSUME NEW n, NEW f, NEW k, Listing(n, f, k), NEW known, Sound(known, k)
  PROVE  /\ Listing(n, Mirrored(n, f, known), k)
         /\ DOMAIN Mirrored(n, f, known) = DOMAIN f
         /\ \A r \in DOMAIN f : Mirrored(n, f, known)[r].of = f[r].of
<1> DEFINE g == Mirrored(n, f, known)
<1>1. DOMAIN g = DOMAIN f
  BY DEF Mirrored
<1>2. ASSUME NEW r \in DOMAIN f
      PROVE  g[r] \in Records /\ g[r].of = f[r].of
  <2>1. f[r] \in Records
    BY DEF Listing, Sound
  <2>2. g[r] = f[r] \/ (r \in DOMAIN known /\ g[r] = [f[r] EXCEPT !.label = known[r].label])
    BY DEF Mirrored
  <2>3. r \in DOMAIN known => known[r].label \in 0 .. MaxRenames
    BY DEF Sound, Records
  <2> HIDE DEF g
  <2> QED BY <2>1, <2>2, <2>3 DEF Records
<1> SUFFICES Listing(n, g, k) /\ DOMAIN g = DOMAIN f /\ \A r \in DOMAIN f : g[r].of = f[r].of
  OBVIOUS
<1> HIDE DEF g
<1> QED BY <1>1, <1>2 DEF Listing, Sound

(* Records of S in a report that are not of n.                             *)
Foreign(n, known, S) == S \subseteq DOMAIN known /\ \A r \in S : known[r].of # n /\ r # n

(* Nothing that n takes over is a record of n, or tombstoned.              *)
LEMMA SeedsFacts ==
  ASSUME NEW n \in Nodes, NEW f, NEW k, NEW known, Sound(known, k), NEW d
  PROVE  /\ Seeds(n, f, known, d) \subseteq DOMAIN known \ d
         /\ \A r \in Seeds(n, f, known, d) : known[r].of # n /\ r # n
<1> SUFFICES ASSUME NEW r \in Seeds(n, f, known, d)
             PROVE  r \in DOMAIN known \ d /\ known[r].of # n /\ r # n
  OBVIOUS
<1>1. r \in DOMAIN known \ d /\ known[r].sid /\ ~IsSelf(n, r, known[r])
  BY DEF Seeds
<1>2. known[r].of # n
  BY <1>1 DEF IsSelf
<1>3. r = n => known[r].of = n
  BY <1>1 DEF Sound
<1> QED BY <1>1, <1>2, <1>3

LEMMA SeededListing ==
  ASSUME NEW n, NEW f, NEW k, Listing(n, f, k), NEW known, Sound(known, k),
         NEW S, Foreign(n, known, S)
  PROVE  Listing(n, Seeded(f, known, S), k)
<1> DEFINE g == Seeded(f, known, S)
<1>1. DOMAIN g = DOMAIN f \cup S
  BY DEF Seeded
<1>2. \A r \in DOMAIN f \ S : g[r] = f[r]
  BY DEF Seeded
<1>3. ASSUME NEW r \in S
      PROVE  g[r] \in Records /\ g[r].of = known[r].of
  <2>1. known[r] \in Records /\ g[r] = [known[r] EXCEPT !.seen = "no"]
    BY DEF Seeded, Sound, Foreign
  <2> HIDE DEF g
  <2> QED BY <2>1 DEF Records
<1> SUFFICES Listing(n, g, k)
  OBVIOUS
<1> HIDE DEF g
<1>4. ASSUME NEW r \in DOMAIN g
      PROVE  r \in Handed(k) /\ g[r] \in Records /\ (r \in Nodes => g[r].of = r) /\ r # n
  BY <1>1, <1>2, <1>3 DEF Sound, Listing, Foreign
<1> QED BY <1>1, <1>4 DEF Listing, Sound

-----------------------------------------------------------------------------
(* What the two ways of exchanging lists make of one list.                 *)

(* The list of n after a report: still a list, and with no record of n     *)
(* itself and none that n has a tombstone for but those of S that was not  *)
(* there.                                                                  *)
Screened(n, f, S) ==
  /\ Listing(n, f, adds)
  /\ \A x \in DOMAIN f : f[x].of = n => x \in DOMAIN nodes[n] /\ nodes[n][x].of = n
  /\ DOMAIN f \cap deleted[n] \subseteq DOMAIN nodes[n] \cup S

LEMMA AnswerFacts ==
  ASSUME RegistryInv, NEW n \in Nodes, NEW r \in Handed(adds), r # n, NEW copy \in Records,
         r \in Nodes => copy.of = r, PollAnswered(n, r, copy)
  PROVE  \E f, d : /\ nodes' = [nodes EXCEPT ![n] = f] /\ deleted' = [deleted EXCEPT ![n] = d]
                   /\ Screened(n, f, {r})
                   /\ d \subseteq Handed(adds) /\ label' \in [Nodes -> Labels]
<1> DEFINE q == copy.of
           d == Tombstones(n, deleted[q])
           known == Reported(q, FALSE)
           f1 == Put(nodes[n], r, Updated(copy))
           f2 == MergeTombstones(n, f1, deleted[q])
           S == Seeds(n, f2, known, d)
           f3 == Mirrored(n, f2, known)
           f4 == Seeded(f3, known, S)
<1>1. /\ nodes' = [nodes EXCEPT ![n] = f4] /\ deleted' = [deleted EXCEPT ![n] = d]
      /\ \E v \in IF Adopted(n, known) = {} THEN {label[n]} ELSE Adopted(n, known) :
           label' = [label EXCEPT ![n] = v]
      /\ q # n
  BY DEF PollAnswered
<1>2. q \in Nodes /\ Updated(copy) \in Records /\ Updated(copy).of = q
  BY DEF Updated, Records, RegistryInv, Labels
<1>3. Sound(known, adds)
  BY <1>2, ReportedSound
<1>4. Listing(n, f1, adds) /\ DOMAIN f1 = DOMAIN nodes[n] \cup {r} /\ f1[r] = Updated(copy)
      /\ \A x \in DOMAIN nodes[n] \ {r} : f1[x] = nodes[n][x]
  <2>1. Sound(nodes[n], adds) /\ n \notin DOMAIN nodes[n]
    BY DEF RegistryInv, NodesInv, Listing
  <2>2. Sound(f1, adds)
    BY <2>1, <1>2, PutSound
  <2>3. DOMAIN f1 = DOMAIN nodes[n] \cup {r} /\ f1[r] = Updated(copy)
        /\ \A x \in DOMAIN nodes[n] \ {r} : f1[x] = nodes[n][x]
    BY DEF Put
  <2> HIDE DEF f1
  <2> QED BY <2>1, <2>2, <2>3 DEF Listing
<1>5. d \subseteq Handed(adds) /\ deleted[n] \subseteq d
  BY <1>2 DEF Tombstones, RegistryInv
<1> HIDE DEF f1
<1>6. /\ Listing(n, f2, adds) /\ DOMAIN f2 \subseteq DOMAIN f1 /\ \A x \in DOMAIN f2 : f2[x] = f1[x]
      /\ DOMAIN f1 \cap deleted[n] = {} => DOMAIN f2 \cap d = {}
  BY <1>4, MergedListing
<1> HIDE DEF f2, known, d, q
<1>7. /\ Listing(n, f3, adds) /\ DOMAIN f3 = DOMAIN f2 /\ \A x \in DOMAIN f2 : f3[x].of = f2[x].of
  BY <1>3, <1>6, MirroredListing
<1>8. S \subseteq DOMAIN known \ d /\ \A x \in S : known[x].of # n /\ x # n
  BY <1>3, SeedsFacts
<1> HIDE DEF f3, S
<1>9. /\ Listing(n, f4, adds) /\ DOMAIN f4 = DOMAIN f3 \cup S /\ \A x \in S : f4[x].of # n
      /\ \A x \in DOMAIN f3 \ S : f4[x] = f3[x]
  <2>1. Foreign(n, known, S)
    BY <1>8 DEF Foreign
  <2>2. Listing(n, f4, adds)
    BY <1>3, <1>7, <2>1, SeededListing
  <2>3. /\ DOMAIN f4 = DOMAIN f3 \cup S
        /\ \A x \in DOMAIN f3 \ S : f4[x] = f3[x]
        /\ \A x \in S : f4[x] = [known[x] EXCEPT !.seen = "no"]
    BY DEF Seeded
  <2> HIDE DEF f4
  <2>4. \A x \in S : f4[x].of = known[x].of
    BY <1>3, <1>8, <2>3 DEF Sound, Records
  <2> QED BY <2>2, <2>3, <2>4, <1>8
<1> HIDE DEF f4
<1>10. \A x \in DOMAIN f4 : f4[x].of = n => x \in DOMAIN nodes[n] /\ nodes[n][x].of = n
  <2> SUFFICES ASSUME NEW x \in DOMAIN f4, f4[x].of = n
               PROVE  x \in DOMAIN nodes[n] /\ nodes[n][x].of = n
    OBVIOUS
  <2>1. x \in DOMAIN f2 /\ f2[x].of = n
    BY <1>7, <1>9
  <2>2. x \in DOMAIN f1 /\ f1[x].of = n
    BY <2>1, <1>6
  <2> QED BY <2>2, <1>1, <1>2, <1>4
<1>11. DOMAIN f4 \cap deleted[n] \subseteq DOMAIN nodes[n] \cup {r}
  BY <1>4, <1>5, <1>6, <1>7, <1>8, <1>9
<1>12. label' \in [Nodes -> Labels]
  <2>1. Adopted(n, known) \subseteq Labels
    BY <1>3 DEF Adopted, Sound, Records, Labels
  <2> QED BY <1>1, <2>1 DEF RegistryInv
<1> QED BY <1>1, <1>5, <1>9, <1>10, <1>11, <1>12 DEF Screened

LEMMA ReplicateFacts ==
  ASSUME RegistryInv, NEW n \in Nodes, NEW r \in Ids, Replicate(n, r)
  PROVE  \E m \in Nodes : \E f, d :
           /\ nodes' = [nodes EXCEPT ![m] = f] /\ deleted' = [deleted EXCEPT ![m] = d]
           /\ Screened(m, f, {}) /\ d \subseteq Handed(adds)
<1> DEFINE p == nodes[n][r].of
           d == Tombstones(p, deleted[n])
           known == Reported(n, TRUE)
           f1 == MergeTombstones(p, nodes[p], deleted[n])
           S == Seeds(p, f1, known, d)
<1>1. PICK T \in SUBSET S : nodes' = [nodes EXCEPT ![p] = Seeded(f1, known, T)]
  BY DEF Replicate
<1>2. p \in Nodes /\ deleted' = [deleted EXCEPT ![p] = d]
  BY DEF Replicate, RegistryInv
<1> DEFINE f2 == Seeded(f1, known, T)
<1>3. Sound(known, adds)
  BY ReportedSound
<1>4. d \subseteq Handed(adds) /\ deleted[p] \subseteq d
  BY <1>2 DEF Tombstones, RegistryInv
<1>5. Listing(p, nodes[p], adds)
  BY <1>2 DEF RegistryInv, NodesInv
<1>6. /\ Listing(p, f1, adds) /\ DOMAIN f1 \subseteq DOMAIN nodes[p]
      /\ \A x \in DOMAIN f1 : f1[x] = nodes[p][x]
      /\ DOMAIN nodes[p] \cap deleted[p] = {} => DOMAIN f1 \cap d = {}
  BY <1>5, MergedListing
<1> HIDE DEF f1, p
<1>7. S \subseteq DOMAIN known \ d /\ \A x \in S : known[x].of # p /\ x # p
  BY <1>2, <1>3, SeedsFacts
<1> HIDE DEF S, known, d
<1>8. T \in SUBSET DOMAIN known /\ \A x \in T : known[x].of # p /\ x # p /\ x \notin d
  BY <1>1, <1>7
<1>9. /\ Listing(p, f2, adds) /\ DOMAIN f2 = DOMAIN f1 \cup T /\ \A x \in T : f2[x].of # p
      /\ \A x \in DOMAIN f1 \ T : f2[x] = f1[x]
  <2>1. Foreign(p, known, T)
    BY <1>8 DEF Foreign
  <2>2. Listing(p, f2, adds)
    BY <1>3, <1>6, <2>1, SeededListing
  <2>3. /\ DOMAIN f2 = DOMAIN f1 \cup T
        /\ \A x \in DOMAIN f1 \ T : f2[x] = f1[x]
        /\ \A x \in T : f2[x] = [known[x] EXCEPT !.seen = "no"]
    BY DEF Seeded
  <2> HIDE DEF f2
  <2>4. \A x \in T : f2[x].of = known[x].of
    BY <1>3, <1>8, <2>3 DEF Sound, Records
  <2> QED BY <2>2, <2>3, <2>4, <1>8
<1>10. nodes' = [nodes EXCEPT ![p] = f2]
  BY <1>1
<1> HIDE DEF f2
<1>11. Screened(p, f2, {})
  BY <1>4, <1>6, <1>8, <1>9 DEF Screened
<1> QED BY <1>2, <1>4, <1>10, <1>11

-----------------------------------------------------------------------------
(* Every step keeps the invariant.                                         *)

LEMMA OneListChanges ==
  ASSUME RegistryInv, NEW n \in Nodes, NEW f, Listing(n, f, adds),
         nodes' = [nodes EXCEPT ![n] = f], adds' = adds
  PROVE  NodesInv'
  BY DEF RegistryInv, NodesInv

LEMMA PollEndsInv ==
  ASSUME RegistryInv, NEW n \in up, NEW r \in Handed(adds), r # n, NEW copy \in Records,
         r \in Nodes => copy.of = r, PollEnds(n, r, copy)
  PROVE  /\ NodesInv' /\ deleted' \in [Nodes -> SUBSET Handed(adds)] /\ label' \in [Nodes -> Labels]
         /\ up' = up /\ burying' = burying /\ intents' = intents /\ sweep' = sweep /\ bounds' = bounds /\ adds' = adds
<1>1. n \in Nodes /\ Listing(n, nodes[n], adds) /\ DOMAIN nodes = Nodes
  BY DEF RegistryInv, NodesInv
<1>2. /\ up' = up /\ burying' = burying /\ intents' = intents /\ sweep' = sweep /\ bounds' = bounds /\ adds' = adds
  BY DEF PollEnds, bounds
<1>3. CASE PollFails(n, r, copy)
  <2>1. deleted' = deleted /\ label' = label
    BY <1>3 DEF PollFails
  <2>2. NodesInv'
    <3>1. CASE nodes' = nodes
      BY <1>2, <3>1 DEF RegistryInv, NodesInv
    <3>2. CASE r \in DOMAIN nodes[n] /\ nodes' = [nodes EXCEPT ![n][r].seen = "late"]
      <4> DEFINE f == [nodes[n] EXCEPT ![r].seen = "late"]
      <4>1. DOMAIN f = DOMAIN nodes[n] /\ f[r] = [nodes[n][r] EXCEPT !.seen = "late"]
            /\ \A x \in DOMAIN f \ {r} : f[x] = nodes[n][x]
        BY <3>2
      <4>2. nodes' = [nodes EXCEPT ![n] = f]
        BY <3>2
      <4> HIDE DEF f
      <4>3. f[r] \in Records /\ f[r].of = nodes[n][r].of
        BY <1>1, <3>2, <4>1 DEF Listing, Sound, Records
      <4>4. Listing(n, f, adds)
        BY <1>1, <4>1, <4>3 DEF Listing, Sound
      <4> QED BY <1>1, <1>2, <4>2, <4>4, OneListChanges
    <3> QED BY <1>3, <3>1, <3>2 DEF PollFails
  <2> QED BY <1>2, <2>1, <2>2 DEF RegistryInv
<1>4. CASE ForgetSelfAlias(n, r, copy)
  <2>1. nodes' = [nodes EXCEPT ![n] = Without(nodes[n], {r})] /\ deleted' = deleted /\ label' = label
    BY <1>4 DEF ForgetSelfAlias
  <2>2. Listing(n, Without(nodes[n], {r}), adds)
    <3>1. Sound(Without(nodes[n], {r}), adds)
      BY <1>1, WithoutSound DEF Listing
    <3>2. n \notin DOMAIN Without(nodes[n], {r})
      BY <1>1 DEF Listing, Without, Restrict
    <3> QED BY <3>1, <3>2 DEF Listing
  <2> QED BY <1>1, <1>2, <2>1, <2>2, OneListChanges DEF RegistryInv
<1>5. CASE PollAnswered(n, r, copy)
  <2>1. PICK f, d : /\ nodes' = [nodes EXCEPT ![n] = f] /\ deleted' = [deleted EXCEPT ![n] = d]
                    /\ Listing(n, f, adds) /\ d \subseteq Handed(adds)
                    /\ label' \in [Nodes -> Labels]
    BY <1>1, <1>5, AnswerFacts DEF Screened
  <2>2. NodesInv'
    BY <1>1, <1>2, <2>1, OneListChanges
  <2> QED BY <1>2, <2>1, <2>2 DEF RegistryInv
<1> QED BY <1>2, <1>3, <1>4, <1>5 DEF PollEnds

LEMMA PollInv ==
  ASSUME RegistryInv, NEW n \in Nodes, NEW r, Poll(n, r)
  PROVE  RegistryInv'
<1>1. n \in up /\ r \in DOMAIN nodes[n] /\ PollEnds(n, r, nodes[n][r]) /\ late' = late
  BY DEF Poll, Polled
<1>2. r \in Handed(adds) /\ r # n /\ nodes[n][r] \in Records /\ (r \in Nodes => nodes[n][r].of = r)
  BY <1>1 DEF RegistryInv, NodesInv, Listing, Sound
<1>3. /\ NodesInv' /\ deleted' \in [Nodes -> SUBSET Handed(adds)] /\ label' \in [Nodes -> Labels]
      /\ up' = up /\ burying' = burying /\ intents' = intents /\ sweep' = sweep /\ bounds' = bounds /\ adds' = adds
  BY <1>1, <1>2, PollEndsInv
<1> QED BY <1>1, <1>3 DEF RegistryInv, bounds, BuryInv, IntentsInv, SweepInv, LateInv, CountsInv

LEMMA LatePollInv ==
  ASSUME RegistryInv, NEW l \in late, LatePoll(l)
  PROVE  RegistryInv'
<1>1. PollEnds(l.at, l.id, l.copy) /\ late' = late \ {l}
  BY DEF LatePoll
<1>2. /\ l.at \in up /\ l.id \in Handed(adds) /\ l.copy \in Records
      /\ l.id # l.at /\ (l.id \in Nodes => l.copy.of = l.id)
  BY DEF RegistryInv, LateInv
<1>3. /\ NodesInv' /\ deleted' \in [Nodes -> SUBSET Handed(adds)] /\ label' \in [Nodes -> Labels]
      /\ up' = up /\ burying' = burying /\ intents' = intents /\ sweep' = sweep /\ bounds' = bounds /\ adds' = adds
  BY <1>1, <1>2, PollEndsInv
<1> QED BY <1>1, <1>3 DEF RegistryInv, bounds, BuryInv, IntentsInv, SweepInv, LateInv, CountsInv

LEMMA PollStartInv ==
  ASSUME RegistryInv, NEW n \in Nodes, NEW r, PollStart(n, r)
  PROVE  RegistryInv'
<1> DEFINE new == [at |-> n, id |-> r, copy |-> nodes[n][r]]
<1>1. /\ n \in up /\ r \in DOMAIN nodes[n] /\ late' = late \cup {new}
      /\ UNCHANGED <<up, nodes, deleted, burying, label, intents, sweep, bounds>>
  BY DEF PollStart, Polled
<1>2. r \in Handed(adds) /\ r # n /\ nodes[n][r] \in Records /\ (r \in Nodes => nodes[n][r].of = r)
  BY <1>1 DEF RegistryInv, NodesInv, Listing, Sound
<1>3. /\ new \in [at : up, id : Handed(adds), copy : Records] /\ new.id # new.at
      /\ new.id \in Nodes => new.copy.of = new.id
  BY <1>1, <1>2
<1> HIDE DEF new
<1>4. LateInv'
  BY <1>1, <1>3 DEF RegistryInv, LateInv, bounds
<1> QED BY <1>1, <1>4 DEF RegistryInv, bounds, NodesInv, BuryInv, IntentsInv, SweepInv, CountsInv

LEMMA ReplicateInv ==
  ASSUME RegistryInv, NEW n \in Nodes, NEW r \in Ids, Replicate(n, r)
  PROVE  RegistryInv'
<1>1. PICK m \in Nodes : \E f, d :
        /\ nodes' = [nodes EXCEPT ![m] = f] /\ deleted' = [deleted EXCEPT ![m] = d]
        /\ Screened(m, f, {}) /\ d \subseteq Handed(adds)
  BY ReplicateFacts
<1>2. PICK f, d : /\ nodes' = [nodes EXCEPT ![m] = f] /\ deleted' = [deleted EXCEPT ![m] = d]
                  /\ Screened(m, f, {}) /\ d \subseteq Handed(adds)
  BY <1>1
<1>3. UNCHANGED <<up, burying, label, intents, late, sweep, bounds>> /\ adds' = adds
  BY DEF Replicate, bounds
<1>4. NodesInv'
  BY <1>2, <1>3, OneListChanges DEF Screened
<1> QED BY <1>2, <1>3, <1>4 DEF RegistryInv, bounds, BuryInv, IntentsInv, SweepInv, LateInv, CountsInv

LEMMA AddNodeInv ==
  ASSUME RegistryInv, NEW n \in Nodes, NEW m \in Nodes, NEW by \in {"ip", "dns"}, AddNode(n, m, by)
  PROVE  RegistryInv'
<1> DEFINE id == N + N + adds + 1
           rec == [of |-> m, by |-> by, sid |-> FALSE, seen |-> "no", label |-> 0]
<1>1. PICK stale \in SUBSET DOMAIN nodes[n] :
        /\ nodes' = [nodes EXCEPT ![n] = Put(Without(@, stale), id, rec)]
        /\ burying' = [burying EXCEPT ![n] = @ \cup [id : stale, tell : {FALSE}]]
  BY DEF AddNode, Join
<1>2. /\ adds' = adds + 1 /\ events < MaxEvents /\ events' = events + 1
      /\ UNCHANGED <<up, deleted, label, intents, late, sweep, renames>>
  BY DEF AddNode, Join, Event
<1>3. adds \in Nat /\ CountsInv'
  BY <1>2, RegistryAssumption DEF RegistryInv, CountsInv
<1>4. /\ Handed(adds) \subseteq Handed(adds') /\ id \in Handed(adds') /\ id \notin Nodes
  BY <1>2, <1>3, HandedGrows
<1>5. rec \in Records
  BY RegistryAssumption DEF Records
<1>6. \A x \in Nodes : Listing(x, nodes[x], adds')
  BY <1>2, <1>3, SoundGrows DEF RegistryInv, NodesInv, Listing
<1> DEFINE g == Without(nodes[n], stale)
           f == Put(g, id, rec)
<1>7. Sound(g, adds') /\ n \notin DOMAIN g
  <2>1. Sound(g, adds')
    BY <1>6, WithoutSound DEF Listing
  <2>2. n \notin DOMAIN g
    BY <1>6 DEF Listing, Without, Restrict
  <2> QED BY <2>1, <2>2
<1> HIDE DEF g, id, rec
<1>8. Sound(f, adds') /\ n \notin DOMAIN f
  <2>1. Sound(f, adds')
    BY <1>4, <1>5, <1>7, PutSound
  <2>2. n \notin DOMAIN f
    BY <1>4, <1>7 DEF Put
  <2> QED BY <2>1, <2>2
<1>9. nodes' = [nodes EXCEPT ![n] = f]
  BY <1>1 DEF g
<1> HIDE DEF f
<1>10. NodesInv'
  <2>1. DOMAIN nodes = Nodes
    BY DEF RegistryInv, NodesInv
  <2>2. \A x \in Nodes : nodes'[x] = IF x = n THEN f ELSE nodes[x]
    BY <1>9, <2>1
  <2> QED BY <1>6, <1>8, <1>9, <2>1, <2>2 DEF NodesInv, Listing
<1>11. deleted' \in [Nodes -> SUBSET Handed(adds')] /\ BuryInv'
  <2>1. [id : stale, tell : {FALSE}] \subseteq [id : Handed(adds'), tell : BOOLEAN]
    BY <1>6 DEF Listing, Sound
  <2>2. deleted \in [Nodes -> SUBSET Handed(adds')]
    BY <1>4 DEF RegistryInv
  <2>3. burying \in [Nodes -> SUBSET [id : Handed(adds'), tell : BOOLEAN]]
    BY <1>4 DEF RegistryInv, BuryInv
  <2> QED BY <1>1, <1>2, <2>1, <2>2, <2>3 DEF BuryInv
<1>12. IntentsInv' /\ SweepInv' /\ LateInv'
  <2>1. IntentsInv'
    BY <1>2, <1>4 DEF RegistryInv, IntentsInv
  <2>2. SweepInv'
    BY <1>2, <1>4 DEF RegistryInv, SweepInv, Sweeps
  <2>3. LateInv'
    BY <1>2, <1>4 DEF RegistryInv, LateInv
  <2> QED BY <2>1, <2>2, <2>3
<1> QED BY <1>2, <1>3, <1>10, <1>11, <1>12 DEF RegistryInv

LEMMA RemoveServerInv ==
  ASSUME RegistryInv, NEW R \in SUBSET Nodes, NEW b \in [id : Handed(adds), tell : BOOLEAN],
         NEW unset \in [Nodes -> SUBSET [id : Handed(adds), tell : BOOLEAN]],
         RemoveServer(R, b, unset), adds' = adds
  PROVE  NodesInv' /\ BuryInv'
<1>1. nodes' = [x \in Nodes |-> IF x \in R THEN Without(nodes[x], {b.id}) ELSE nodes[x]]
  BY DEF RemoveServer
<1>2. ASSUME NEW x \in Nodes
      PROVE  Listing(x, nodes'[x], adds)
  <2>1. Listing(x, nodes[x], adds)
    BY DEF RegistryInv, NodesInv
  <2>2. Sound(Without(nodes[x], {b.id}), adds)
    BY <2>1, WithoutSound DEF Listing
  <2>3. x \notin DOMAIN Without(nodes[x], {b.id})
    BY <2>1 DEF Listing, Without, Restrict
  <2> QED BY <1>1, <2>1, <2>2, <2>3 DEF Listing
<1>3. NodesInv'
  BY <1>1, <1>2 DEF NodesInv
<1>4. BuryInv'
  <2>1. burying' = [x \in Nodes |-> IF x \in R THEN unset[x] \cup {b} ELSE unset[x]]
    BY DEF RemoveServer
  <2> QED BY <2>1 DEF BuryInv
<1> QED BY <1>3, <1>4

LEMMA RemoveNodeInv ==
  ASSUME RegistryInv, NEW n \in Nodes, NEW r \in Ids, RemoveNode(n, r)
  PROVE  RegistryInv'
<1> DEFINE b == [id |-> r, tell |-> TRUE]
<1>1. RemoveServer({n}, b, burying)
  BY DEF RemoveNode
<1>2. /\ events < MaxEvents /\ events' = events + 1 /\ r \in DOMAIN nodes[n]
      /\ UNCHANGED <<up, deleted, label, intents, late, sweep, adds, renames>>
  BY DEF RemoveNode, Event
<1>3. r \in Handed(adds)
  BY <1>2 DEF RegistryInv, NodesInv, Listing, Sound
<1>4. b \in [id : Handed(adds), tell : BOOLEAN]
  BY <1>3
<1>5. CountsInv'
  BY <1>2, RegistryAssumption DEF RegistryInv, CountsInv
<1> HIDE DEF b
<1>6. NodesInv' /\ BuryInv'
  BY <1>1, <1>2, <1>4, RemoveServerInv DEF RegistryInv, BuryInv
<1> QED BY <1>2, <1>5, <1>6 DEF RegistryInv, IntentsInv, SweepInv, LateInv

LEMMA EntombInv ==
  ASSUME RegistryInv, NEW n \in Nodes, Entomb(n)
  PROVE  RegistryInv'
<1>1. PICK b \in burying[n], R \in SUBSET Nodes : Bury(n, b, R)
  BY DEF Entomb
<1>2. b \in [id : Handed(adds), tell : BOOLEAN]
  BY DEF RegistryInv, BuryInv
<1>3. [burying EXCEPT ![n] = @ \ {b}] \in [Nodes -> SUBSET [id : Handed(adds), tell : BOOLEAN]]
  BY DEF RegistryInv, BuryInv
<1>4. /\ deleted' = [deleted EXCEPT ![n] = @ \cup {b.id}]
      /\ RemoveServer(R, b, [burying EXCEPT ![n] = @ \ {b}])
      /\ UNCHANGED <<up, label, intents, late, sweep, bounds>> /\ adds' = adds
  BY <1>1 DEF Bury, bounds
<1>5. NodesInv' /\ BuryInv'
  BY <1>2, <1>3, <1>4, RemoveServerInv
<1>6. deleted' \in [Nodes -> SUBSET Handed(adds)]
  BY <1>2, <1>4 DEF RegistryInv
<1> QED BY <1>4, <1>5, <1>6 DEF RegistryInv, bounds, IntentsInv, SweepInv, LateInv, CountsInv

LEMMA RenameInv ==
  ASSUME RegistryInv, NEW n \in Nodes, NEW r \in Ids, Rename(n, r)
  PROVE  RegistryInv'
<1>1. /\ events < MaxEvents /\ events' = events + 1 /\ r \in DOMAIN nodes[n]
      /\ renames < MaxRenames /\ renames' = renames + 1
      /\ nodes' = [nodes EXCEPT ![n][r].label = renames']
      /\ intents' = [intents EXCEPT ![n] = Put(@, r, renames')]
      /\ UNCHANGED <<up, deleted, burying, late, sweep, adds>>
  BY DEF Rename, Event
<1>2. CountsInv' /\ renames' \in Labels
  BY <1>1, RegistryAssumption DEF RegistryInv, CountsInv, Labels
<1>3. Listing(n, nodes[n], adds) /\ DOMAIN nodes = Nodes
  BY DEF RegistryInv, NodesInv
<1>4. NodesInv'
  <2> DEFINE f == [nodes[n] EXCEPT ![r].label = renames']
  <2>1. DOMAIN f = DOMAIN nodes[n] /\ f[r] = [nodes[n][r] EXCEPT !.label = renames']
        /\ \A x \in DOMAIN f \ {r} : f[x] = nodes[n][x]
    BY <1>1
  <2>2. nodes' = [nodes EXCEPT ![n] = f]
    BY <1>1
  <2> HIDE DEF f
  <2>3. f[r] \in Records /\ f[r].of = nodes[n][r].of
    BY <1>1, <1>2, <1>3, <2>1 DEF Listing, Sound, Records, Labels
  <2>4. Listing(n, f, adds)
    BY <1>3, <2>1, <2>3 DEF Listing, Sound
  <2> QED BY <1>1, <2>2, <2>4, OneListChanges
<1>5. IntentsInv'
  <2> DEFINE g == Put(intents[n], r, renames')
  <2>1. DOMAIN g = DOMAIN intents[n] \cup {r} /\ g[r] = renames'
        /\ \A x \in DOMAIN intents[n] \ {r} : g[x] = intents[n][x]
    BY DEF Put
  <2>2. intents' = [intents EXCEPT ![n] = g]
    BY <1>1
  <2> HIDE DEF g
  <2>3. r \in Handed(adds)
    BY <1>1, <1>3 DEF Listing, Sound
  <2> QED BY <1>1, <1>2, <2>1, <2>2, <2>3 DEF RegistryInv, IntentsInv
<1>6. label' \in [Nodes -> Labels]
  BY <1>2 DEF Rename, RegistryInv
<1> QED BY <1>1, <1>2, <1>4, <1>5, <1>6 DEF RegistryInv, BuryInv, SweepInv, LateInv

LEMMA SweepStartInv ==
  ASSUME RegistryInv, NEW n \in Nodes, NEW r \in Ids, SweepStart(n, r)
  PROVE  RegistryInv'
<1>1. r \in DOMAIN intents[n] /\ UNCHANGED <<up, nodes, deleted, burying, label, late, bounds>>
  BY DEF SweepStart
<1>2. IntentsInv' /\ SweepInv'
  <2>1. CASE Lookup(n, r) = {}
    <3>1. intents' = [intents EXCEPT ![n] = Without(intents[n], {r})] /\ sweep' = sweep
      BY <2>1 DEF SweepStart
    <3>2. /\ DOMAIN Without(intents[n], {r}) = DOMAIN intents[n] \ {r}
          /\ \A x \in DOMAIN intents[n] \ {r} : Without(intents[n], {r})[x] = intents[n][x]
      BY DEF Without, Restrict
    <3> QED BY <1>1, <3>1, <3>2 DEF RegistryInv, IntentsInv, SweepInv, bounds
  <2>2. CASE Lookup(n, r) # {}
    <3>1. PICK x \in Lookup(n, r) :
            sweep' = [sweep EXCEPT ![n] = [id |-> r, to |-> nodes[n][x].of, label |-> intents[n][r]]]
      BY <2>2 DEF SweepStart
    <3>2. intents' = intents
      BY <2>2 DEF SweepStart
    <3>3. nodes[n][x].of \in Nodes
      BY DEF Lookup, RegistryInv, NodesInv, Listing, Sound, Records
    <3>4. [id |-> r, to |-> nodes[n][x].of, label |-> intents[n][r]] \in Sweeps(adds)
      BY <1>1, <3>3 DEF Sweeps, RegistryInv, IntentsInv
    <3> QED BY <1>1, <3>1, <3>2, <3>4 DEF RegistryInv, IntentsInv, SweepInv, bounds
  <2> QED BY <2>1, <2>2
<1> QED BY <1>1, <1>2 DEF RegistryInv, NodesInv, BuryInv, LateInv, CountsInv, bounds

LEMMA SweepDoneInv ==
  ASSUME RegistryInv, NEW n \in Nodes, SweepDone(n)
  PROVE  RegistryInv'
<1>1. /\ sweep[n] \in Sweeps(adds) /\ UNCHANGED <<up, nodes, deleted, burying, late, bounds>>
      /\ sweep' = [sweep EXCEPT ![n] = None]
  BY DEF SweepDone, RegistryInv, SweepInv
<1>2. SweepInv'
  BY <1>1 DEF RegistryInv, SweepInv, bounds
<1>3. label' \in [Nodes -> Labels]
  <2>1. sweep[n].to \in Nodes /\ sweep[n].label \in Labels
    BY <1>1 DEF Sweeps
  <2>2. label' = label \/ label' = [label EXCEPT ![sweep[n].to] = sweep[n].label]
    BY DEF SweepDone
  <2> QED BY <2>1, <2>2 DEF RegistryInv
<1>4. IntentsInv'
  <2> DEFINE g == Without(intents[n], {sweep[n].id})
  <2>1. /\ DOMAIN g = DOMAIN intents[n] \ {sweep[n].id}
        /\ \A x \in DOMAIN g : g[x] = intents[n][x]
    BY DEF Without, Restrict
  <2>2. intents' = intents \/ intents' = [intents EXCEPT ![n] = g]
    BY DEF SweepDone
  <2> HIDE DEF g
  <2> QED BY <1>1, <2>1, <2>2 DEF RegistryInv, IntentsInv, bounds
<1> QED BY <1>1, <1>2, <1>3, <1>4 DEF RegistryInv, NodesInv, BuryInv, LateInv, CountsInv, bounds

LEMMA StopInv ==
  ASSUME RegistryInv, NEW n \in Nodes, Stop(n), deleted' \in [Nodes -> SUBSET Handed(adds)]
  PROVE  RegistryInv'
<1>1. /\ events < MaxEvents /\ events' = events + 1 /\ up' = up \ {n}
      /\ late' = {l \in late : l.at # n}
      /\ burying' = [burying EXCEPT ![n] = {}]
      /\ sweep' = [sweep EXCEPT ![n] = None]
      /\ UNCHANGED <<nodes, label, intents, adds, renames>>
  BY DEF Stop, Event
<1>2. CountsInv'
  BY <1>1, RegistryAssumption DEF RegistryInv, CountsInv
<1>3. LateInv'
  BY <1>1 DEF RegistryInv, LateInv
<1>4. SweepInv' /\ BuryInv'
  BY <1>1 DEF RegistryInv, SweepInv, BuryInv
<1> QED BY <1>1, <1>2, <1>3, <1>4 DEF RegistryInv, NodesInv, IntentsInv

LEMMA StopsInv ==
  ASSUME RegistryInv, NEW n \in Nodes, StopAnyhow(n) \/ \E m \in Nodes : StopInMerge(n, m)
  PROVE  RegistryInv'
<1>1. CASE StopAnyhow(n)
  BY <1>1, StopInv DEF StopAnyhow, RegistryInv
<1>2. ASSUME NEW m \in Nodes, StopInMerge(n, m) PROVE RegistryInv'
  <2>1. deleted' = [deleted EXCEPT ![n] = Tombstones(n, deleted[m])] /\ Stop(n)
    BY <1>2 DEF StopInMerge
  <2>2. Tombstones(n, deleted[m]) \subseteq Handed(adds)
    BY DEF Tombstones, RegistryInv
  <2>3. deleted' \in [Nodes -> SUBSET Handed(adds)]
    BY <2>1, <2>2 DEF RegistryInv
  <2> QED BY <2>1, <2>3, StopInv
<1> QED BY <1>1, <1>2

LEMMA BootInv ==
  ASSUME RegistryInv, NEW n \in Nodes, Boot(n)
  PROVE  RegistryInv'
<1>1. up' = up \cup {n} /\ UNCHANGED <<deleted, burying, label, intents, late, sweep, bounds>> /\ adds' = adds
  BY DEF Boot, bounds
<1>2. PICK T \in SUBSET DOMAIN nodes[n] :
        nodes' = [nodes EXCEPT ![n] = [r \in T |-> [nodes[n][r] EXCEPT !.seen = "no"]]]
  BY DEF Boot
<1> DEFINE f == [r \in T |-> [nodes[n][r] EXCEPT !.seen = "no"]]
<1>3. Listing(n, f, adds)
  <2>1. Listing(n, nodes[n], adds)
    BY DEF RegistryInv, NodesInv
  <2>2. DOMAIN f = T
    OBVIOUS
  <2>3. ASSUME NEW r \in T
        PROVE  f[r] \in Records /\ f[r].of = nodes[n][r].of
    BY <2>1 DEF Listing, Sound, Records
  <2> HIDE DEF f
  <2> QED BY <2>1, <2>2, <2>3 DEF Listing, Sound
<1>4. NodesInv'
  BY <1>1, <1>2, <1>3, OneListChanges
<1>5. up' \subseteq Nodes /\ BuryInv' /\ IntentsInv' /\ SweepInv' /\ CountsInv'
  BY <1>1 DEF RegistryInv, BuryInv, IntentsInv, SweepInv, CountsInv, bounds
<1>6. LateInv'
  BY <1>1 DEF RegistryInv, LateInv
<1>7. deleted' \in [Nodes -> SUBSET Handed(adds')] /\ label' \in [Nodes -> Labels]
  BY <1>1 DEF RegistryInv
<1> HIDE DEF f
<1> QED BY <1>4, <1>5, <1>6, <1>7 DEF RegistryInv

LEMMA InitInv == Init => RegistryInv
<1> SUFFICES ASSUME Init PROVE RegistryInv
  OBVIOUS
<1>1. adds = 0 /\ events = 0 /\ renames = 0 /\ CountsInv
  BY RegistryAssumption DEF Init, CountsInv
<1>2. NodesInv
  <2>1. ASSUME NEW n \in Nodes PROVE Listing(n, nodes[n], 0)
    <3>1. CASE n # 1
      BY <3>1 DEF Init, None, Listing, Sound
    <3>2. CASE n = 1
      <4>1. nodes[n] = [r \in {N + m : m \in Known} |-> [of |-> r - N, by |-> "ip", sid |-> FALSE,
                                                       seen |-> "no", label |-> 0]]
        BY <3>2 DEF Init
      <4>2. DOMAIN nodes[n] = {N + m : m \in Known}
        BY <4>1
      <4>3. ASSUME NEW r \in DOMAIN nodes[n]
            PROVE  r \in Handed(0) /\ r \notin Nodes /\ r - N \in Nodes
        BY <4>2, RegistryAssumption DEF Handed, Nodes
      <4>4. ASSUME NEW r \in DOMAIN nodes[n]
            PROVE  nodes[n][r] \in Records
        BY <4>1, <4>2, <4>3, RegistryAssumption DEF Records
      <4> QED BY <4>3, <4>4 DEF Listing, Sound
    <3> QED BY <3>1, <3>2
  <2> QED BY <1>1, <2>1 DEF Init, NodesInv
<1>3. deleted \in [Nodes -> SUBSET Handed(adds)] /\ label \in [Nodes -> Labels] /\ up \subseteq Nodes
  BY RegistryAssumption DEF Init, Labels
<1>4. BuryInv /\ IntentsInv /\ SweepInv /\ LateInv
  <2>0. BuryInv
    BY DEF Init, BuryInv
  <2>1. IntentsInv
    BY DEF Init, IntentsInv, None
  <2>2. SweepInv /\ LateInv
    BY DEF Init, SweepInv, LateInv
  <2> QED BY <2>0, <2>1, <2>2
<1> QED BY <1>1, <1>2, <1>3, <1>4 DEF RegistryInv

LEMMA StepInv == RegistryInv /\ [Next]_vars => RegistryInv'
<1> SUFFICES ASSUME RegistryInv, [Next]_vars PROVE RegistryInv'
  OBVIOUS
<1>1. CASE UNCHANGED vars
  BY <1>1 DEF vars, RegistryInv, NodesInv, BuryInv, IntentsInv, SweepInv, LateInv, CountsInv
<1>2. ASSUME NEW n \in Nodes, Deliver(n) \/ Entomb(n) PROVE RegistryInv'
  BY <1>2, SweepDoneInv, SweepStartInv, EntombInv DEF Deliver
<1>3. ASSUME NEW n \in Nodes, Operator(n) PROVE RegistryInv'
  BY <1>3, AddNodeInv, RemoveNodeInv, RenameInv DEF Operator
<1>4. ASSUME NEW n \in Nodes, StopAnyhow(n) \/ \E m \in Nodes : StopInMerge(n, m) PROVE RegistryInv'
  BY <1>4, StopsInv
<1>5. ASSUME NEW n \in Nodes, Boot(n) PROVE RegistryInv'
  BY <1>5, BootInv
<1>6. ASSUME NEW n \in Nodes, NEW m \in Nodes, Visit(n, m) PROVE RegistryInv'
  BY <1>6, PollInv DEF Visit
<1>7. ASSUME NEW n \in Nodes, NEW m \in Nodes, Tell(n, m) PROVE RegistryInv'
  BY <1>7, ReplicateInv DEF Tell
<1>8. CASE LateAnswer
  BY <1>8, LatePollInv DEF LateAnswer
<1>9. ASSUME NEW n \in Nodes, NEW r \in Ids, PollStart(n, r) PROVE RegistryInv'
  BY <1>9, PollStartInv
<1> QED BY <1>1, <1>2, <1>3, <1>4, <1>5, <1>6, <1>7, <1>8, <1>9 DEF Next

LEMMA InvIsTyped == RegistryInv => TypeOK
<1> SUFFICES ASSUME RegistryInv PROVE TypeOK
  OBVIOUS
<1>1. Handed(adds) \subseteq Ids
  BY RegistryAssumption DEF RegistryInv, CountsInv, Handed, Ids
<1>2. ASSUME NEW n \in Nodes
      PROVE  /\ DOMAIN nodes[n] \subseteq Ids \ {n} /\ \A r \in DOMAIN nodes[n] : nodes[n][r] \in Records
             /\ \A r \in DOMAIN nodes[n] \cap Nodes : nodes[n][r].of = r
             /\ DOMAIN intents[n] \subseteq Ids
             /\ deleted[n] \subseteq Ids /\ burying[n] \subseteq [id : Ids, tell : BOOLEAN]
  BY <1>1 DEF RegistryInv, NodesInv, Listing, Sound, IntentsInv, BuryInv
<1>3. late \subseteq [at : up, id : Ids, copy : Records]
  BY <1>1 DEF RegistryInv, LateInv
<1> QED BY <1>2, <1>3 DEF RegistryInv, TypeOK, Labels

LEMMA Invariant == Spec => []RegistryInv
  BY InitInv, StepInv, PTL DEF Spec

(* Types: whatever is added, removed, renamed, polled and restarted, with  *)
(* polls and removals drawn out or not (poll_remote_nodes, remove_server), *)
(* a list has only ids that were handed out, not its own node's, and the   *)
(* record under a node's own id is of that node.                           *)
THEOREM RegistryTypeCorrect == Spec => []TypeOK
  BY Invariant, InvIsTyped, PTL

-----------------------------------------------------------------------------
(* No node becomes its own peer.                                           *)

LEMMA SelfPoll ==
  ASSUME RegistryInv, NEW n \in up, NEW r \in Handed(adds), r # n, NEW copy \in Records,
         r \in Nodes => copy.of = r, PollEnds(n, r, copy), NEW m \in Nodes
  PROVE  SelfRecords(m)' \subseteq SelfRecords(m)
<1>1. DOMAIN nodes = Nodes /\ n \in Nodes
  BY DEF RegistryInv, NodesInv
<1>2. CASE PollFails(n, r, copy)
  <2>1. DOMAIN nodes'[m] = DOMAIN nodes[m]
    BY <1>1, <1>2 DEF PollFails
  <2>2. ASSUME NEW x \in DOMAIN nodes[m] PROVE nodes'[m][x].of = nodes[m][x].of
    <3>1. nodes[m][x] \in Records
      BY DEF RegistryInv, NodesInv, Listing, Sound
    <3>2. nodes'[m][x] = nodes[m][x] \/ nodes'[m][x] = [nodes[m][x] EXCEPT !.seen = "late"]
      BY <1>1, <1>2 DEF PollFails
    <3> QED BY <3>1, <3>2 DEF Records
  <2> QED BY <2>1, <2>2 DEF SelfRecords
<1>3. CASE ForgetSelfAlias(n, r, copy)
  BY <1>1, <1>3 DEF ForgetSelfAlias, Without, Restrict, SelfRecords
<1>4. CASE PollAnswered(n, r, copy)
  <2>1. PICK f, d : /\ nodes' = [nodes EXCEPT ![n] = f] /\ deleted' = [deleted EXCEPT ![n] = d]
                    /\ \A x \in DOMAIN f : f[x].of = n => x \in DOMAIN nodes[n] /\ nodes[n][x].of = n
    BY <1>1, <1>4, AnswerFacts DEF Screened
  <2> QED BY <1>1, <2>1 DEF SelfRecords
<1> QED BY <1>2, <1>3, <1>4 DEF PollEnds

LEMMA SelfStep ==
  ASSUME RegistryInv, [Next]_vars, adds' = adds, NEW m \in Nodes
  PROVE  SelfRecords(m)' \subseteq SelfRecords(m)
<1>0. DOMAIN nodes = Nodes /\ adds \in Nat
  BY DEF RegistryInv, NodesInv, CountsInv
<1>1. ASSUME nodes' = nodes PROVE SelfRecords(m)' \subseteq SelfRecords(m)
  BY <1>1 DEF SelfRecords
<1>2. ASSUME NEW n \in Nodes, Operator(n) PROVE SelfRecords(m)' \subseteq SelfRecords(m)
  <2>1. ASSUME NEW q \in Nodes, NEW by \in {"ip", "dns"}, AddNode(n, q, by) PROVE FALSE
    BY <2>1, <1>0 DEF AddNode, Join
  <2>2. ASSUME NEW r \in Ids, RemoveNode(n, r) PROVE SelfRecords(m)' \subseteq SelfRecords(m)
    <3>1. nodes'[m] = nodes[m] \/ nodes'[m] = Without(nodes[m], {r})
      BY <2>2 DEF RemoveNode, RemoveServer
    <3> QED BY <3>1 DEF SelfRecords, Without, Restrict
  <2>3. ASSUME NEW r \in Ids, Rename(n, r) PROVE SelfRecords(m)' \subseteq SelfRecords(m)
    <3>1. DOMAIN nodes'[m] = DOMAIN nodes[m]
      BY <1>0, <2>3 DEF Rename
    <3>2. ASSUME NEW x \in DOMAIN nodes[m] PROVE nodes'[m][x].of = nodes[m][x].of
      <4>1. nodes[m][x] \in Records
        BY DEF RegistryInv, NodesInv, Listing, Sound
      <4>2. nodes'[m][x] = nodes[m][x] \/ nodes'[m][x] = [nodes[m][x] EXCEPT !.label = renames']
        BY <1>0, <2>3 DEF Rename
      <4> QED BY <4>1, <4>2 DEF Records
    <3> QED BY <3>1, <3>2 DEF SelfRecords
  <2> QED BY <1>2, <2>1, <2>2, <2>3 DEF Operator
<1>2a. ASSUME NEW n \in Nodes, Entomb(n) PROVE SelfRecords(m)' \subseteq SelfRecords(m)
  <2>1. PICK b, R : Bury(n, b, R)
    BY <1>2a DEF Entomb
  <2>2. nodes'[m] = nodes[m] \/ nodes'[m] = Without(nodes[m], {b.id})
    BY <2>1 DEF Bury, RemoveServer
  <2> QED BY <2>2 DEF SelfRecords, Without, Restrict
<1>3. ASSUME NEW n \in Nodes, Boot(n) PROVE SelfRecords(m)' \subseteq SelfRecords(m)
  <2>1. PICK T \in SUBSET DOMAIN nodes[n] :
          nodes' = [nodes EXCEPT ![n] = [r \in T |-> [nodes[n][r] EXCEPT !.seen = "no"]]]
    BY <1>3 DEF Boot
  <2>2. DOMAIN nodes'[m] \subseteq DOMAIN nodes[m]
    BY <1>0, <2>1
  <2>3. ASSUME NEW x \in DOMAIN nodes'[m] PROVE nodes'[m][x].of = nodes[m][x].of
    <3>1. nodes[m][x] \in Records
      BY <2>2 DEF RegistryInv, NodesInv, Listing, Sound
    <3>2. nodes'[m][x] = nodes[m][x] \/ nodes'[m][x] = [nodes[m][x] EXCEPT !.seen = "no"]
      BY <1>0, <2>1
    <3> QED BY <3>1, <3>2 DEF Records
  <2> QED BY <2>2, <2>3 DEF SelfRecords
<1>4. ASSUME NEW n \in Nodes, NEW q \in Nodes, Visit(n, q)
      PROVE  SelfRecords(m)' \subseteq SelfRecords(m)
  <2>1. PICK r \in Ids : n \in up /\ r \in DOMAIN nodes[n] /\ PollEnds(n, r, nodes[n][r])
    BY <1>4 DEF Visit, Poll, Polled
  <2>2. r \in Handed(adds) /\ r # n /\ nodes[n][r] \in Records /\ (r \in Nodes => nodes[n][r].of = r)
    BY <2>1 DEF RegistryInv, NodesInv, Listing, Sound
  <2> QED BY <2>1, <2>2, SelfPoll
<1>5. CASE LateAnswer
  <2>1. PICK l \in late : PollEnds(l.at, l.id, l.copy)
    BY <1>5 DEF LateAnswer, LatePoll
  <2>2. /\ l.at \in up /\ l.id \in Handed(adds) /\ l.copy \in Records
        /\ l.id # l.at /\ (l.id \in Nodes => l.copy.of = l.id)
    BY <2>1 DEF RegistryInv, LateInv
  <2> QED BY <2>1, <2>2, SelfPoll
<1>6. ASSUME NEW n \in Nodes, NEW q \in Nodes, Tell(n, q)
      PROVE  SelfRecords(m)' \subseteq SelfRecords(m)
  <2>1. PICK r \in Ids : Replicate(n, r)
    BY <1>6 DEF Tell
  <2>2. PICK p \in Nodes : \E f, d :
          /\ nodes' = [nodes EXCEPT ![p] = f] /\ deleted' = [deleted EXCEPT ![p] = d]
          /\ Screened(p, f, {})
    BY <2>1, ReplicateFacts
  <2>3. PICK f, d : nodes' = [nodes EXCEPT ![p] = f] /\ Screened(p, f, {})
    BY <2>2
  <2> QED BY <1>0, <2>3 DEF Screened, SelfRecords
<1>7. ASSUME NEW n \in Nodes, StopAnyhow(n) \/ \E q \in Nodes : StopInMerge(n, q) PROVE nodes' = nodes
  BY <1>7 DEF StopAnyhow, StopInMerge, Stop
<1>8. ASSUME NEW n \in Nodes, Deliver(n) \/ \E r \in Ids : PollStart(n, r) PROVE nodes' = nodes
  BY <1>8 DEF Deliver, SweepDone, SweepStart, PollStart
<1> QED
  BY <1>1, <1>2, <1>2a, <1>3, <1>4, <1>5, <1>6, <1>7, <1>8 DEF Next, vars

(* No node becomes its own peer: neither a report nor a push nor a restart *)
(* nor a poll that answers late ever puts a record of a node into its own  *)
(* list (gossip_identity_match); only add_node can.                        *)
THEOREM NeverItsOwnPeer == Spec => SelfUnlisted
<1>1. RegistryInv /\ [Next]_vars
        => [adds' = adds => \A n \in Nodes : SelfRecords(n)' \subseteq SelfRecords(n)]_vars
  BY SelfStep
<1> QED BY <1>1, Invariant, PTL DEF Spec, SelfUnlisted

-----------------------------------------------------------------------------
(* What is tombstoned stays away.                                          *)

LEMMA BarPoll ==
  ASSUME RegistryInv, NEW n \in up, NEW r \in Handed(adds), r # n, NEW copy \in Records,
         r \in Nodes => copy.of = r, PollEnds(n, r, copy),
         NEW m \in Nodes, NEW x \in deleted[m] \cap DOMAIN nodes'[m], x \notin DOMAIN nodes[m]
  PROVE  m = n /\ x = r
<1>1. DOMAIN nodes = Nodes /\ n \in Nodes
  BY DEF RegistryInv, NodesInv
<1>2. ~PollFails(n, r, copy)
  BY <1>1 DEF PollFails
<1>3. ~ForgetSelfAlias(n, r, copy)
  BY <1>1 DEF ForgetSelfAlias, Without, Restrict
<1>4. PollAnswered(n, r, copy)
  BY <1>2, <1>3 DEF PollEnds
<1>5. PICK f, d : nodes' = [nodes EXCEPT ![n] = f] /\ Screened(n, f, {r})
  BY <1>1, <1>4, AnswerFacts
<1> QED BY <1>1, <1>5 DEF Screened

LEMMA BarStep ==
  ASSUME RegistryInv, [Next]_vars, NEW m \in Nodes,
         NEW x \in (deleted[m] \ DOMAIN nodes[m]) \cap DOMAIN nodes'[m]
  PROVE  Polling(m, x)
<1>0. DOMAIN nodes = Nodes /\ adds \in Nat /\ deleted[m] \subseteq Handed(adds)
  BY DEF RegistryInv, NodesInv, CountsInv
<1>1. nodes' # nodes
  OBVIOUS
<1>2. ASSUME NEW n \in Nodes, Operator(n) PROVE FALSE
  <2>1. ASSUME NEW q \in Nodes, NEW by \in {"ip", "dns"}, AddNode(n, q, by) PROVE FALSE
    <3> DEFINE id == N + N + adds + 1
    <3>1. PICK stale : \E rec : nodes' = [nodes EXCEPT ![n] = Put(Without(nodes[n], stale), id, rec)]
      BY <2>1 DEF AddNode, Join
    <3>2. id \notin Handed(adds)
      BY <1>0, HandedGrows
    <3> HIDE DEF id
    <3>3. DOMAIN nodes'[m] \subseteq DOMAIN nodes[m] \cup {id}
      BY <1>0, <3>1 DEF Put, Without, Restrict
    <3> QED BY <1>0, <3>2, <3>3
  <2>2. ASSUME NEW r \in Ids, RemoveNode(n, r) PROVE FALSE
    <3>1. nodes'[m] = nodes[m] \/ nodes'[m] = Without(nodes[m], {r})
      BY <2>2 DEF RemoveNode, RemoveServer
    <3> QED BY <3>1 DEF Without, Restrict
  <2>3. ASSUME NEW r \in Ids, Rename(n, r) PROVE FALSE
    BY <1>0, <2>3 DEF Rename
  <2> QED BY <1>2, <2>1, <2>2, <2>3 DEF Operator
<1>3. ASSUME NEW n \in Nodes, Entomb(n) PROVE FALSE
  <2>1. PICK b, R : Bury(n, b, R)
    BY <1>3 DEF Entomb
  <2>2. nodes'[m] = nodes[m] \/ nodes'[m] = Without(nodes[m], {b.id})
    BY <2>1 DEF Bury, RemoveServer
  <2> QED BY <2>2 DEF Without, Restrict
<1>4. ASSUME NEW n \in Nodes, Boot(n) PROVE FALSE
  <2>1. PICK T \in SUBSET DOMAIN nodes[n] :
          nodes' = [nodes EXCEPT ![n] = [r \in T |-> [nodes[n][r] EXCEPT !.seen = "no"]]]
    BY <1>4 DEF Boot
  <2> QED BY <1>0, <2>1
<1>5. ASSUME NEW n \in Nodes, NEW q \in Nodes, Visit(n, q) PROVE FALSE
  <2>1. PICK r \in Ids : n \in up /\ r \in DOMAIN nodes[n] /\ PollEnds(n, r, nodes[n][r])
    BY <1>5 DEF Visit, Poll, Polled
  <2>2. r \in Handed(adds) /\ r # n /\ nodes[n][r] \in Records /\ (r \in Nodes => nodes[n][r].of = r)
    BY <2>1 DEF RegistryInv, NodesInv, Listing, Sound
  <2> QED BY <2>1, <2>2, BarPoll
<1>6. CASE LateAnswer
  <2>1. PICK l \in late : PollEnds(l.at, l.id, l.copy)
    BY <1>6 DEF LateAnswer, LatePoll
  <2>2. /\ l.at \in up /\ l.id \in Handed(adds) /\ l.copy \in Records
        /\ l.id # l.at /\ (l.id \in Nodes => l.copy.of = l.id)
    BY <2>1 DEF RegistryInv, LateInv
  <2>3. m = l.at /\ x = l.id
    BY <2>1, <2>2, BarPoll
  <2> QED BY <2>3 DEF Polling
<1>7. ASSUME NEW n \in Nodes, NEW q \in Nodes, Tell(n, q) PROVE FALSE
  <2>1. PICK r \in Ids : Replicate(n, r)
    BY <1>7 DEF Tell
  <2>2. PICK p \in Nodes : \E f, d :
          /\ nodes' = [nodes EXCEPT ![p] = f] /\ deleted' = [deleted EXCEPT ![p] = d]
          /\ Screened(p, f, {})
    BY <2>1, ReplicateFacts
  <2>3. PICK f : nodes' = [nodes EXCEPT ![p] = f] /\ Screened(p, f, {})
    BY <2>2
  <2> QED BY <1>0, <2>3 DEF Screened
<1>8. ASSUME NEW n \in Nodes, StopAnyhow(n) \/ \E q \in Nodes : StopInMerge(n, q) PROVE FALSE
  BY <1>1, <1>8 DEF StopAnyhow, StopInMerge, Stop
<1>9. ASSUME NEW n \in Nodes, Deliver(n) \/ \E r \in Ids : PollStart(n, r) PROVE FALSE
  BY <1>1, <1>9 DEF Deliver, SweepDone, SweepStart, PollStart
<1> QED
  BY <1>1, <1>2, <1>3, <1>4, <1>5, <1>6, <1>7, <1>8, <1>9 DEF Next, vars

(* "node IDs that were explicitly deleted and must not be re-added by      *)
(* gossip" (agent/mod.rs:657): whoever reports a record, whatever removal  *)
(* or merge is cut short and whoever restarts, a node takes back a record  *)
(* it has tombstoned and does not list only by a poll of its own that      *)
(* began while it listed the record (poll_remote_nodes).                   *)
THEOREM TombstonesBarGossip == Spec => TombstonesBar
<1>1. RegistryInv /\ [Next]_vars
        => [\A n \in Nodes : \A r \in (deleted[n] \ DOMAIN nodes[n]) \cap DOMAIN nodes'[n] :
              Polling(n, r)]_vars
  BY BarStep
<1> QED BY <1>1, Invariant, PTL DEF Spec, TombstonesBar
=============================================================================
