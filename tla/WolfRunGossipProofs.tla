-------------------------- MODULE WolfRunGossipProofs --------------------------
(***************************************************************************)
(* Proofs about WolfRunGossip, for any number of nodes and of requests at  *)
(* a time, any services and every bound.                                   *)
(*                                                                         *)
(* That nothing is deleted which no operator deleted is not inductive: a   *)
(* deletion travels as an answer, a request and a task before it becomes a *)
(* tombstone.  The invariant follows the id through all of these, and, as  *)
(* only what is listed can be deleted, the lists through the copies that   *)
(* are under way.                                                          *)
(***************************************************************************)
EXTENDS WolfRunGossip, ListFacts, TLAPS

-----------------------------------------------------------------------------
(* Entomb.                                                                 *)

LEMMA EntombFacts ==
  ASSUME NEW t \in Seq(Services), IsInjective(t), Len(t) <= TombMax, NEW s \in Services
  PROVE  /\ Entomb(t, s) \in Seq(Services)
         /\ IsInjective(Entomb(t, s))
         /\ Len(Entomb(t, s)) <= TombMax
         /\ Range(Entomb(t, s)) \subseteq Range(t) \cup {s}
<1> DEFINE r == RemoveFirst(t, s)
           u == Append(r, s)
           e == Entomb(t, s)
<1>1. r \in Seq(Services) /\ Len(r) <= Len(t) /\ IsInjective(r) /\ Range(r) \subseteq Range(t) \ {s}
  BY RemoveFirstFacts
<1>2. e = IF Len(u) > TombMax THEN Tail(u) ELSE u
  BY DEF Entomb
<1> SUFFICES /\ e \in Seq(Services) /\ IsInjective(e) /\ Len(e) <= TombMax
             /\ Range(e) \subseteq Range(t) \cup {s}
  OBVIOUS
<1> HIDE DEF r, e
<1>3. /\ u \in Seq(Services) /\ Len(u) = Len(r) + 1 /\ u[Len(u)] = s
      /\ \A j \in 1 .. Len(r) : u[j] = r[j]
      /\ Len(r) \in Nat /\ DOMAIN u = 1 .. Len(u) /\ DOMAIN r = 1 .. Len(r)
  BY <1>1
<1> HIDE DEF u
<1>4. s \notin Range(r)
  BY <1>1
<1>5. IsInjective(u)
  <2>1. \A j \in DOMAIN u : j \in DOMAIN r \/ j = Len(u)
    BY <1>3
  <2>2. \A j \in DOMAIN r : u[j] # s
    BY <1>3, <1>4 DEF Range
  <2> SUFFICES ASSUME NEW j \in DOMAIN u, NEW k \in DOMAIN u, u[j] = u[k]
               PROVE  j = k
    BY DEF IsInjective
  <2>3. CASE j = Len(u) \/ k = Len(u)
    BY <1>3, <2>1, <2>2, <2>3
  <2>4. CASE j \in DOMAIN r /\ k \in DOMAIN r
    BY <1>1, <1>3, <2>4 DEF IsInjective
  <2> QED BY <2>1, <2>3, <2>4
<1>6. Range(u) \subseteq Range(t) \cup {s}
  <2>1. ASSUME NEW j \in DOMAIN u PROVE u[j] \in Range(r) \cup {s}
    BY <1>3 DEF Range
  <2> QED BY <1>1, <2>1 DEF Range
<1>7. CASE ~(Len(u) > TombMax)
  BY <1>2, <1>3, <1>5, <1>6, <1>7, TombAssumption
<1>8. CASE Len(u) > TombMax
  <2>1. u # << >>
    BY <1>3
  <2>2. /\ e \in Seq(Services) /\ Len(e) = Len(u) - 1
        /\ \A j \in 1 .. Len(e) : e[j] = u[j + 1]
    BY <1>2, <1>3, <1>8, <2>1, HeadTailProperties
  <2>3. DOMAIN e = 1 .. Len(u) - 1 /\ Len(e) <= TombMax
    BY <2>2, <1>1, <1>3, TombAssumption
  <2>4. ASSUME NEW j \in DOMAIN e PROVE j \in Int /\ j + 1 \in DOMAIN u /\ e[j] = u[j + 1]
    BY <2>2, <2>3, <1>3
  <2>5. IsInjective(e)
    <3> SUFFICES ASSUME NEW j \in DOMAIN e, NEW k \in DOMAIN e, e[j] = e[k]
                 PROVE  j = k
      BY DEF IsInjective
    <3>1. j + 1 = k + 1
      BY <2>4, <1>5 DEF IsInjective
    <3> QED BY <2>4, <3>1
  <2>6. Range(e) \subseteq Range(u)
    BY <2>4 DEF Range
  <2> QED BY <1>6, <2>2, <2>3, <2>5, <2>6
<1> QED BY <1>7, <1>8

-----------------------------------------------------------------------------
(* The invariant: the types of the state, with every list within the       *)
(* services created and every deletion, on its way or recorded, within     *)
(* those an operator removed.                                              *)

ListsOf(C) == UNION {[S -> 1 .. MaxEdits + 1] : S \in SUBSET C}

HandlingsOf(R) ==
  {Idle, [kind |-> "spread"]}
  \cup [kind : {"bury"}, id : R]
  \cup [kind : {"tell"}, id : R, to : SUBSET Nodes]

Places == {Nobody} \cup [node : Nodes, slot : 1 .. Inbox]

CastsOf(C, R) ==
  {Idle}
  \cup [kind : {"destroy", "bury"}, id : R, left : SUBSET R]
  \cup [kind : {"sync"}, list : ListsOf(C), to : SUBSET Nodes, learned : SUBSET R, at : Places]

RequestsOf(C, R) ==
  {Idle}
  \cup [kind : {"bury"}, id : R]
  \cup [kind : {"merge"}, list : ListsOf(C), rejected : SUBSET R, from : Nodes,
        task : 1 .. MaxCasts]

TombsOf(R) == {t \in Seq(Services) : IsInjective(t) /\ Len(t) <= TombMax /\ Range(t) \subseteq R}

GossipInv ==
  /\ services \in [Nodes -> ListsOf(created)]
  /\ deleted \in [Nodes -> TombsOf(removed)]
  /\ handler \in [Nodes -> HandlingsOf(removed)]
  /\ cast \in [Nodes -> [1 .. MaxCasts -> CastsOf(created, removed)]]
  /\ inbox \in [Nodes -> [1 .. Inbox -> RequestsOf(created, removed)]]
  /\ settled \in BOOLEAN
  /\ edits \in 0 .. MaxEdits /\ crashes \in 0 .. MaxCrashes
  /\ created \subseteq Services /\ removed \subseteq created

LEMMA ListsShape ==
  ASSUME NEW C, NEW f
  PROVE  f \in ListsOf(C) <=> DOMAIN f \subseteq C /\ f \in [DOMAIN f -> 1 .. MaxEdits + 1]
  BY DEF ListsOf

LEMMA ListsGrow ==
  ASSUME NEW C, NEW D, C \subseteq D
  PROVE  ListsOf(C) \subseteq ListsOf(D)
  BY DEF ListsOf

LEMMA ListsWithout ==
  ASSUME NEW C, NEW f \in ListsOf(C), NEW S
  PROVE  Without(f, S) \in ListsOf(C)
<1> DEFINE g == Without(f, S)
<1>1. DOMAIN f \subseteq C /\ f \in [DOMAIN f -> 1 .. MaxEdits + 1]
  BY ListsShape
<1>2. DOMAIN g = DOMAIN f \ S /\ g \in [DOMAIN f \ S -> 1 .. MaxEdits + 1]
  BY <1>1 DEF Without, Restrict
<1> HIDE DEF g
<1>3. g \in ListsOf(C)
  BY <1>1, <1>2, ListsShape
<1> QED BY <1>3 DEF g

LEMMA ListsPut ==
  ASSUME NEW C, NEW f \in ListsOf(C), NEW s \in C, NEW v \in 1 .. MaxEdits + 1
  PROVE  Put(f, s, v) \in ListsOf(C)
<1> DEFINE g == Put(f, s, v)
<1>1. DOMAIN f \subseteq C /\ f \in [DOMAIN f -> 1 .. MaxEdits + 1]
  BY ListsShape
<1>2. DOMAIN g = DOMAIN f \cup {s} /\ g \in [DOMAIN f \cup {s} -> 1 .. MaxEdits + 1]
  BY <1>1 DEF Put
<1> HIDE DEF g
<1>3. g \in ListsOf(C)
  BY <1>1, <1>2, ListsShape
<1> QED BY <1>3 DEF g

LEMMA EmptyList ==
  ASSUME NEW C
  PROVE  NoService \in ListsOf(C)
<1>1. DOMAIN NoService = {} /\ NoService \in [{} -> 1 .. MaxEdits + 1]
  BY DEF NoService
<1> QED BY <1>1, ListsShape

LEMMA HandlingShape ==
  ASSUME NEW R, NEW h \in HandlingsOf(R)
  PROVE  /\ h.kind = "bury" => h.id \in R
         /\ h.kind = "tell" => h.id \in R /\ h.to \in SUBSET Nodes
                               /\ h = [kind |-> "tell", id |-> h.id, to |-> h.to]
  BY DEF HandlingsOf, Idle

LEMMA CastShape ==
  ASSUME NEW C, NEW R, NEW c \in CastsOf(C, R)
  PROVE  /\ c.kind \in {"destroy", "bury"} =>
              c.id \in R /\ c.left \in SUBSET R /\ c = [kind |-> c.kind, id |-> c.id, left |-> c.left]
         /\ c.kind = "sync" =>
              /\ c.list \in ListsOf(C) /\ c.to \in SUBSET Nodes /\ c.learned \in SUBSET R
              /\ c.at \in Places
              /\ c = [kind |-> "sync", list |-> c.list, to |-> c.to, learned |-> c.learned, at |-> c.at]
  BY DEF CastsOf, Idle

LEMMA RequestShape ==
  ASSUME NEW C, NEW R, NEW q \in RequestsOf(C, R)
  PROVE  /\ q.kind = "bury" => q.id \in R
         /\ q.kind = "merge" => q.list \in ListsOf(C) /\ q.rejected \in SUBSET R /\ q.from \in Nodes
                                /\ q.task \in 1 .. MaxCasts
  BY DEF RequestsOf, Idle

LEMMA MakeCasts ==
  ASSUME NEW C, NEW R
  PROVE  /\ Idle \in CastsOf(C, R)
         /\ \A k \in {"destroy", "bury"}, s \in R, left \in SUBSET R :
              [kind |-> k, id |-> s, left |-> left] \in CastsOf(C, R)
         /\ \A list \in ListsOf(C), to \in SUBSET Nodes, learned \in SUBSET R, at \in Places :
              [kind |-> "sync", list |-> list, to |-> to, learned |-> learned, at |-> at]
                \in CastsOf(C, R)
  BY DEF CastsOf

LEMMA OnwardCast ==
  ASSUME NEW C, NEW R, NEW list \in ListsOf(C), NEW to \in SUBSET Nodes, NEW learned \in SUBSET R
  PROVE  /\ Onward(list, to, learned) \in CastsOf(C, R)
         /\ \A at \in Places : Sync(list, to, at, learned) \in CastsOf(C, R)
<1>1. NoService \in ListsOf(C) /\ {} \in SUBSET Nodes /\ Nobody \in Places
  BY EmptyList DEF Places
<1>2. \A l \in ListsOf(C), t \in SUBSET Nodes, at \in Places :
        Sync(l, t, at, learned) \in CastsOf(C, R)
  BY DEF CastsOf, Sync
<1>3. Idle \in CastsOf(C, R)
  BY DEF CastsOf
<1> QED BY <1>1, <1>2, <1>3 DEF Onward

LEMMA ToldHandling ==
  ASSUME NEW R, NEW s \in R, NEW left \in SUBSET Nodes
  PROVE  Told(s, left) \in HandlingsOf(R)
  BY DEF Told, HandlingsOf

LEMMA MakeOthers ==
  ASSUME NEW C, NEW R
  PROVE  /\ Idle \in HandlingsOf(R) /\ [kind |-> "spread"] \in HandlingsOf(R)
         /\ \A s \in R : [kind |-> "bury", id |-> s] \in HandlingsOf(R)
         /\ \A s \in R, to \in SUBSET Nodes : [kind |-> "tell", id |-> s, to |-> to] \in HandlingsOf(R)
         /\ Idle \in RequestsOf(C, R)
         /\ \A s \in R : [kind |-> "bury", id |-> s] \in RequestsOf(C, R)
         /\ \A list \in ListsOf(C), rejected \in SUBSET R, n \in Nodes, c \in 1 .. MaxCasts :
              [kind |-> "merge", list |-> list, rejected |-> rejected, from |-> n, task |-> c]
                \in RequestsOf(C, R)
  BY DEF HandlingsOf, RequestsOf

LEMMA SetsGrow ==
  ASSUME NEW C, NEW D, C \subseteq D, NEW R, NEW T, R \subseteq T
  PROVE  /\ HandlingsOf(R) \subseteq HandlingsOf(T)
         /\ CastsOf(C, R) \subseteq CastsOf(D, T)
         /\ RequestsOf(C, R) \subseteq RequestsOf(D, T)
         /\ TombsOf(R) \subseteq TombsOf(T)
<1>1. ListsOf(C) \subseteq ListsOf(D)
  BY ListsGrow
<1>2. HandlingsOf(R) \subseteq HandlingsOf(T)
  BY DEF HandlingsOf
<1>3. CastsOf(C, R) \subseteq CastsOf(D, T)
  BY <1>1 DEF CastsOf
<1>4. RequestsOf(C, R) \subseteq RequestsOf(D, T)
  BY <1>1 DEF RequestsOf
<1>5. TombsOf(R) \subseteq TombsOf(T)
  BY DEF TombsOf
<1> QED BY <1>2, <1>3, <1>4, <1>5

LEMMA TombsEntomb ==
  ASSUME NEW R \in SUBSET Services, NEW t \in TombsOf(R), NEW s \in R
  PROVE  Entomb(t, s) \in TombsOf(R)
  BY EntombFacts DEF TombsOf

-----------------------------------------------------------------------------
(* The steps.                                                              *)

LEMMA InitInv == Init => GossipInv
<1> SUFFICES ASSUME Init PROVE GossipInv
  OBVIOUS
<1>1. services \in [Nodes -> ListsOf(created)]
  <2> DEFINE list == [s \in created |-> 1]
  <2>1. 1 \in 1 .. MaxEdits + 1
    BY BoundsAssumption
  <2>2. DOMAIN list = created /\ list \in [created -> 1 .. MaxEdits + 1]
    BY <2>1
  <2>3. list \in ListsOf(created)
    <3> HIDE DEF list
    <3> QED BY <2>2 DEF ListsOf
  <2> QED BY <2>3 DEF Init
<1>2. deleted \in [Nodes -> TombsOf(removed)]
  <2>1. << >> \in TombsOf(removed)
    BY TombAssumption DEF TombsOf, IsInjective, Range
  <2> QED BY <2>1 DEF Init
<1>3. handler \in [Nodes -> HandlingsOf(removed)]
  BY MakeOthers DEF Init
<1>4. cast \in [Nodes -> [1 .. MaxCasts -> CastsOf(created, removed)]]
  BY MakeCasts DEF Init
<1>5. inbox \in [Nodes -> [1 .. Inbox -> RequestsOf(created, removed)]]
  BY MakeOthers DEF Init
<1>6. /\ settled \in BOOLEAN /\ edits \in 0 .. MaxEdits /\ crashes \in 0 .. MaxCrashes
      /\ created \subseteq Services /\ removed \subseteq created
  <2>1. \A k \in Nat : 0 \in 0 .. k
    OBVIOUS
  <2>2. settled \in BOOLEAN
    BY DEF Init
  <2>3. edits \in 0 .. MaxEdits /\ crashes \in 0 .. MaxCrashes
    BY <2>1, BoundsAssumption DEF Init
  <2>4. created \subseteq Services /\ removed \subseteq created
    BY DEF Init
  <2> QED BY <2>2, <2>3, <2>4
<1> QED BY <1>1, <1>2, <1>3, <1>4, <1>5, <1>6 DEF GossipInv

(* The operator's requests: the history grows.                             *)
LEMMA HistoryGrows ==
  ASSUME GossipInv, created \subseteq created', removed \subseteq removed',
         UNCHANGED <<deleted, cast, inbox>>
  PROVE  /\ services \in [Nodes -> ListsOf(created')]
         /\ deleted' \in [Nodes -> TombsOf(removed')]
         /\ handler \in [Nodes -> HandlingsOf(removed')]
         /\ cast' \in [Nodes -> [1 .. MaxCasts -> CastsOf(created', removed')]]
         /\ inbox' \in [Nodes -> [1 .. Inbox -> RequestsOf(created', removed')]]
<1>1. /\ ListsOf(created) \subseteq ListsOf(created')
      /\ HandlingsOf(removed) \subseteq HandlingsOf(removed')
      /\ CastsOf(created, removed) \subseteq CastsOf(created', removed')
      /\ RequestsOf(created, removed) \subseteq RequestsOf(created', removed')
      /\ TombsOf(removed) \subseteq TombsOf(removed')
  <2>1. ListsOf(created) \subseteq ListsOf(created')
    BY ListsGrow
  <2>2. /\ HandlingsOf(removed) \subseteq HandlingsOf(removed')
        /\ CastsOf(created, removed) \subseteq CastsOf(created', removed')
        /\ RequestsOf(created, removed) \subseteq RequestsOf(created', removed')
        /\ TombsOf(removed) \subseteq TombsOf(removed')
    BY SetsGrow
  <2> QED BY <2>1, <2>2
<1>2. services \in [Nodes -> ListsOf(created')] /\ handler \in [Nodes -> HandlingsOf(removed')]
  BY <1>1 DEF GossipInv
<1>3. deleted' \in [Nodes -> TombsOf(removed')] /\ cast' \in [Nodes -> [1 .. MaxCasts -> CastsOf(created', removed')]]
  BY <1>1 DEF GossipInv
<1>4. inbox' \in [Nodes -> [1 .. Inbox -> RequestsOf(created', removed')]]
  BY <1>1 DEF GossipInv
<1> QED BY <1>2, <1>3, <1>4

LEMMA OperatorInv ==
  ASSUME GossipInv, NEW n \in Nodes, NEW s \in Services,
         Create(n, s) \/ Update(n, s) \/ Delete(n, s)
  PROVE  GossipInv'
<1>1. /\ edits < MaxEdits /\ edits' = edits + 1 /\ UNCHANGED <<deleted, cast, inbox, settled, crashes>>
  BY DEF Create, Update, Delete, Request
<1>2. edits' \in 0 .. MaxEdits
  BY <1>1, BoundsAssumption DEF GossipInv
<1>3. CASE Create(n, s)
  <2>1. /\ created' = created \cup {s} /\ removed' = removed
        /\ services' = [services EXCEPT ![n] = Put(services[n], s, 1)]
        /\ handler' = [handler EXCEPT ![n] = [kind |-> "spread"]]
    BY <1>3 DEF Create
  <2>2. /\ services \in [Nodes -> ListsOf(created')]
        /\ deleted' \in [Nodes -> TombsOf(removed')]
        /\ handler \in [Nodes -> HandlingsOf(removed')]
        /\ cast' \in [Nodes -> [1 .. MaxCasts -> CastsOf(created', removed')]]
        /\ inbox' \in [Nodes -> [1 .. Inbox -> RequestsOf(created', removed')]]
    BY <1>1, <2>1, HistoryGrows
  <2>3. Put(services[n], s, 1) \in ListsOf(created')
    <3>1. services[n] \in ListsOf(created') /\ s \in created'
      BY <2>1, <2>2
    <3>2. 1 \in 1 .. MaxEdits + 1
      BY BoundsAssumption
    <3> QED BY <3>1, <3>2, ListsPut
  <2>4. services' \in [Nodes -> ListsOf(created')] /\ handler' \in [Nodes -> HandlingsOf(removed')]
    BY <2>1, <2>2, <2>3, MakeOthers
  <2>5. created' \subseteq Services /\ removed' \subseteq created'
    BY <2>1 DEF GossipInv
  <2> QED BY <1>1, <1>2, <2>2, <2>4, <2>5 DEF GossipInv
<1>4. CASE Update(n, s)
  <2>1. /\ created' = created /\ removed' = removed /\ s \in DOMAIN services[n]
        /\ services' = [services EXCEPT ![n][s] = edits + 2]
        /\ handler' = [handler EXCEPT ![n] = [kind |-> "spread"]]
    BY <1>4 DEF Update
  <2> DEFINE f == [services[n] EXCEPT ![s] = edits + 2]
  <2>2. f \in ListsOf(created)
    <3>1. DOMAIN services[n] \subseteq created /\ services[n] \in [DOMAIN services[n] -> 1 .. MaxEdits + 1]
      BY ListsShape DEF GossipInv
    <3>2. edits + 2 \in 1 .. MaxEdits + 1
      <4>1. \A k \in Nat : \A e \in 0 .. k : e < k => e + 2 \in 1 .. k + 1
        OBVIOUS
      <4> QED BY <1>1, <4>1, BoundsAssumption DEF GossipInv
    <3>3. DOMAIN f = DOMAIN services[n] /\ f \in [DOMAIN services[n] -> 1 .. MaxEdits + 1]
      BY <3>1, <3>2
    <3> HIDE DEF f
    <3> QED BY <3>1, <3>3, ListsShape
  <2>3. services' = [services EXCEPT ![n] = f]
    BY <2>1
  <2> HIDE DEF f
  <2>4. services' \in [Nodes -> ListsOf(created)] /\ handler' \in [Nodes -> HandlingsOf(removed)]
    BY <2>1, <2>2, <2>3, MakeOthers DEF GossipInv
  <2> QED BY <1>1, <1>2, <2>1, <2>4 DEF GossipInv
<1>5. CASE Delete(n, s)
  <2>1. /\ created' = created /\ removed' = removed \cup {s} /\ s \in DOMAIN services[n]
        /\ services' = [services EXCEPT ![n] = Without(services[n], {s})]
        /\ handler' = [handler EXCEPT ![n] = [kind |-> "bury", id |-> s]]
    BY <1>5 DEF Delete
  <2>2. /\ services \in [Nodes -> ListsOf(created')]
        /\ deleted' \in [Nodes -> TombsOf(removed')]
        /\ handler \in [Nodes -> HandlingsOf(removed')]
        /\ cast' \in [Nodes -> [1 .. MaxCasts -> CastsOf(created', removed')]]
        /\ inbox' \in [Nodes -> [1 .. Inbox -> RequestsOf(created', removed')]]
    BY <1>1, <2>1, HistoryGrows
  <2>3. s \in created
    BY <2>1, ListsShape DEF GossipInv
  <2>4. services' \in [Nodes -> ListsOf(created')]
    BY <2>1, <2>2, ListsWithout
  <2>5. handler' \in [Nodes -> HandlingsOf(removed')]
    BY <2>1, <2>2, MakeOthers
  <2>6. created' \subseteq Services /\ removed' \subseteq created'
    BY <2>1, <2>3 DEF GossipInv
  <2> QED BY <1>1, <1>2, <2>2, <2>4, <2>5, <2>6 DEF GossipInv
<1> QED BY <1>3, <1>4, <1>5

LEMMA BroadcastCast ==
  ASSUME GossipInv, NEW n \in Nodes, NEW c \in 1 .. MaxCasts, Broadcast(n, c)
  PROVE  cast' \in [Nodes -> [1 .. MaxCasts -> CastsOf(created, removed)]]
<1>1. Onward(services[n], Peers(n), {}) \in CastsOf(created, removed)
  BY OnwardCast DEF GossipInv, Peers
<1>2. Idle \in CastsOf(created, removed)
  BY MakeCasts
<1> QED BY <1>1, <1>2 DEF Broadcast, GossipInv

LEMMA HandlerInv ==
  ASSUME GossipInv, NEW n \in Nodes, Handler(n)
  PROVE  GossipInv'
<1>1. CASE Bury(n)
  <2>1. handler[n].id \in removed
    BY <1>1, HandlingShape DEF Bury, GossipInv
  <2>2. deleted' \in [Nodes -> TombsOf(removed)]
    <3>1. removed \in SUBSET Services
      BY DEF GossipInv
    <3>2. Entomb(deleted[n], handler[n].id) \in TombsOf(removed)
      BY <2>1, <3>1, TombsEntomb DEF GossipInv
    <3> QED BY <1>1, <3>2 DEF Bury, GossipInv
  <2>3. handler' \in [Nodes -> HandlingsOf(removed)]
    <3>1. Told(handler[n].id, Peers(n)) \in HandlingsOf(removed)
      BY <2>1, ToldHandling DEF Peers
    <3> QED BY <1>1, <3>1 DEF Bury, GossipInv
  <2> QED BY <1>1, <2>2, <2>3 DEF Bury, GossipInv, history
<1>2. ASSUME NEW m \in Peers(n), NEW i \in 1 .. Inbox, Tell(n, m, i)
      PROVE  GossipInv'
  <2>1. /\ handler[n].id \in removed /\ handler[n].to \in SUBSET Nodes /\ m \in Nodes
        /\ handler[n] = [kind |-> "tell", id |-> handler[n].id, to |-> handler[n].to]
    BY <1>2, HandlingShape DEF Tell, GossipInv, Peers
  <2>2. services' \in [Nodes -> ListsOf(created)]
    BY <1>2, <2>1, ListsWithout DEF Tell, GossipInv
  <2>3. inbox' \in [Nodes -> [1 .. Inbox -> RequestsOf(created, removed)]]
    <3>1. [kind |-> "bury", id |-> handler[n].id] \in RequestsOf(created, removed)
      BY <2>1, MakeOthers
    <3> QED BY <1>2, <2>1, <3>1 DEF Tell, GossipInv
  <2>4. handler' \in [Nodes -> HandlingsOf(removed)]
    <3>1. Told(handler[n].id, handler[n].to \ {m}) \in HandlingsOf(removed)
      BY <2>1, ToldHandling
    <3>2. handler' = [handler EXCEPT ![n] = Told(handler[n].id, handler[n].to \ {m})]
      BY <1>2 DEF Tell
    <3> QED BY <3>1, <3>2 DEF GossipInv
  <2> QED BY <1>2, <2>2, <2>3, <2>4 DEF Tell, GossipInv, history
<1>3. ASSUME NEW m \in Peers(n), TellNot(n, m)
      PROVE  GossipInv'
  <2>1. /\ handler[n].id \in removed /\ handler[n].to \in SUBSET Nodes
        /\ handler[n] = [kind |-> "tell", id |-> handler[n].id, to |-> handler[n].to]
    BY <1>3, HandlingShape DEF TellNot, GossipInv
  <2>2. handler' \in [Nodes -> HandlingsOf(removed)]
    <3>1. Told(handler[n].id, handler[n].to \ {m}) \in HandlingsOf(removed)
      BY <2>1, ToldHandling
    <3>2. handler' = [handler EXCEPT ![n] = Told(handler[n].id, handler[n].to \ {m})]
      BY <1>3 DEF TellNot
    <3> QED BY <3>1, <3>2 DEF GossipInv
  <2> QED BY <1>3, <2>2 DEF TellNot, GossipInv, history
<1>4. CASE Spread(n)
  <2>1. handler' \in [Nodes -> HandlingsOf(removed)]
    BY <1>4, MakeOthers DEF Spread, GossipInv
  <2>2. PICK c \in 2 .. MaxCasts : Broadcast(n, c)
    BY <1>4 DEF Spread
  <2>3. c \in 1 .. MaxCasts
    BY BoundsAssumption
  <2>4. cast' \in [Nodes -> [1 .. MaxCasts -> CastsOf(created, removed)]]
    BY <2>2, <2>3, BroadcastCast
  <2> QED BY <1>4, <2>1, <2>2, <2>4 DEF Spread, Broadcast, GossipInv, history
<1> QED BY <1>1, <1>2, <1>3, <1>4 DEF Handler

LEMMA LoopInv ==
  ASSUME GossipInv, 1 \in 1 .. MaxCasts, NEW n \in Nodes, Loop(n)
  PROVE  GossipInv'
<1>1. cast' \in [Nodes -> [1 .. MaxCasts -> CastsOf(created, removed)]]
  BY BroadcastCast DEF Loop
<1> QED BY <1>1 DEF Loop, Broadcast, GossipInv, history

LEMMA SendInv ==
  ASSUME GossipInv, NEW n \in Nodes, NEW c \in 1 .. MaxCasts, NEW m \in Peers(n),
         NEW i \in 1 .. Inbox, Send(n, c, m, i)
  PROVE  GossipInv'
<1> DEFINE b == cast[n][c]
           rejected == DOMAIN b.list \cap Range(deleted[m])
           q == [kind |-> "merge", list |-> Without(b.list, rejected), rejected |-> rejected,
                 from |-> n, task |-> c]
           d == Sync(b.list, b.to \ {m}, [node |-> m, slot |-> i], b.learned)
<1>1. b.list \in ListsOf(created) /\ b.to \in SUBSET Nodes /\ b.learned \in SUBSET removed
  <2>1. b \in CastsOf(created, removed) /\ b.kind = "sync"
    BY DEF Send, Copying, GossipInv
  <2> HIDE DEF b
  <2> QED BY <2>1, CastShape
<1>2. m \in Nodes
  BY DEF Peers
<1>3. inbox' = [inbox EXCEPT ![m][i] = q] /\ cast' = [cast EXCEPT ![n][c] = d]
  BY DEF Send
<1>4. rejected \in SUBSET removed
  BY <1>2 DEF GossipInv, TombsOf
<1>5. q \in RequestsOf(created, removed)
  <2>1. Without(b.list, rejected) \in ListsOf(created)
    BY <1>1, ListsWithout
  <2> HIDE DEF rejected
  <2> QED BY <1>4, <2>1, MakeOthers
<1>6. d \in CastsOf(created, removed)
  <2>1. [node |-> m, slot |-> i] \in Places /\ b.to \ {m} \in SUBSET Nodes
    BY <1>1, <1>2 DEF Places
  <2> HIDE DEF b
  <2> QED BY <1>1, <2>1, OnwardCast
<1> HIDE DEF q, d
<1>7. inbox' \in [Nodes -> [1 .. Inbox -> RequestsOf(created, removed)]]
  BY <1>2, <1>3, <1>5 DEF GossipInv
<1>8. cast' \in [Nodes -> [1 .. MaxCasts -> CastsOf(created, removed)]]
  BY <1>3, <1>6 DEF GossipInv
<1> QED BY <1>7, <1>8 DEF Send, GossipInv, history

(* A step that only changes one broadcast.                                 *)
LEMMA CastInv ==
  ASSUME GossipInv, NEW n \in Nodes, NEW c \in 1 .. MaxCasts, NEW b \in CastsOf(created, removed),
         cast' = [cast EXCEPT ![n][c] = b],
         UNCHANGED <<services, deleted, handler, inbox, settled, history>>
  PROVE  GossipInv'
<1>1. cast' \in [Nodes -> [1 .. MaxCasts -> CastsOf(created, removed)]]
  BY DEF GossipInv
<1> QED BY <1>1 DEF GossipInv, history

LEMMA ContinueCast ==
  ASSUME NEW C, NEW R, NEW left \in SUBSET R
  PROVE  Continue(left) \in CastsOf(C, R)
<1>1. NoService \in ListsOf(C) /\ {} \in SUBSET Nodes
  BY EmptyList
<1> QED BY <1>1, OnwardCast DEF Continue

LEMMA BroadcastingInv ==
  ASSUME GossipInv, NEW n \in Nodes, NEW c \in 1 .. MaxCasts, Broadcasting(n, c)
  PROVE  GossipInv'
<1> DEFINE b == cast[n][c]
<1>b. b \in CastsOf(created, removed)
  BY DEF GossipInv
<1>s. ASSUME b.kind = "sync"
      PROVE  /\ b.list \in ListsOf(created) /\ b.to \in SUBSET Nodes /\ b.learned \in SUBSET removed
             /\ b.at \in Places
  BY <1>b, <1>s, CastShape
<1>d. ASSUME b.kind \in {"destroy", "bury"}
      PROVE  b.id \in removed /\ b.left \in SUBSET removed
  BY <1>b, <1>d, CastShape
<1>1. CASE \E m \in Peers(n), i \in 1 .. Inbox : Send(n, c, m, i)
  BY <1>1, SendInv
<1>2. ASSUME NEW m \in Peers(n), SendNot(n, c, m)
      PROVE  GossipInv'
  <2> DEFINE d == Onward(b.list, b.to \ {m}, b.learned)
  <2>1. b.kind = "sync"
    BY <1>2 DEF SendNot, Copying
  <2>2. d \in CastsOf(created, removed)
    <3>1. b.to \ {m} \in SUBSET Nodes
      BY <1>s, <2>1
    <3> QED BY <1>s, <2>1, <3>1, OnwardCast
  <2>3. cast' = [cast EXCEPT ![n][c] = d]
    BY <1>2 DEF SendNot
  <2> HIDE DEF d
  <2> QED BY <1>2, <2>2, <2>3, CastInv DEF SendNot
<1>3. ASSUME NEW again \in BOOLEAN, GiveUp(n, c, again)
      PROVE  GossipInv'
  <2> DEFINE to == IF again THEN b.to \cup {b.at.node} ELSE b.to
             d == Onward(b.list, to, b.learned)
  <2>1. b.kind = "sync" /\ b.at # Nobody
    BY <1>3 DEF GiveUp
  <2>2. to \in SUBSET Nodes
    BY <1>s, <2>1 DEF Places
  <2>3. cast' = [cast EXCEPT ![n][c] = d]
    BY <1>3 DEF GiveUp
  <2>4. d \in CastsOf(created, removed)
    <3> HIDE DEF to
    <3> QED BY <1>s, <2>1, <2>2, OnwardCast
  <2> HIDE DEF d
  <2> QED BY <1>3, <2>3, <2>4, CastInv DEF GiveUp
<1>4. ASSUME NEW s \in Services, Learn(n, c, s)
      PROVE  GossipInv'
  <2> DEFINE k == IF s \in DOMAIN services[n] THEN "destroy" ELSE "bury"
             d == [kind |-> k, id |-> s, left |-> b.learned \ {s}]
  <2>1. b.kind = "sync" /\ s \in b.learned
    BY <1>4 DEF Learn, Answered, Copying
  <2>2. d \in CastsOf(created, removed)
    <3>1. k \in {"destroy", "bury"} /\ s \in removed /\ b.learned \ {s} \in SUBSET removed
      BY <1>s, <2>1
    <3> HIDE DEF k
    <3> QED BY <3>1, MakeCasts
  <2>3. cast' = [cast EXCEPT ![n][c] = d]
    BY <1>4 DEF Learn
  <2> HIDE DEF d
  <2> QED BY <1>4, <2>2, <2>3, CastInv DEF Learn
<1>5. CASE DeleteLearned(n, c)
  <2>1. b.kind = "destroy"
    BY <1>5 DEF DeleteLearned
  <2>2. services' \in [Nodes -> ListsOf(created)]
    BY <1>5, ListsWithout DEF DeleteLearned, GossipInv
  <2>3. cast' \in [Nodes -> [1 .. MaxCasts -> CastsOf(created, removed)]]
    <3>1. Continue(b.left) \in CastsOf(created, removed)
      BY <1>d, <2>1, ContinueCast
    <3>2. [kind |-> "bury", id |-> b.id, left |-> b.left] \in CastsOf(created, removed)
      BY <1>d, <2>1, MakeCasts
    <3>3. \/ cast' = [cast EXCEPT ![n][c] = [kind |-> "bury", id |-> b.id, left |-> b.left]]
          \/ cast' = [cast EXCEPT ![n][c] = Continue(b.left)]
      BY <1>5 DEF DeleteLearned
    <3>4. ASSUME NEW x \in CastsOf(created, removed), cast' = [cast EXCEPT ![n][c] = x]
          PROVE  cast' \in [Nodes -> [1 .. MaxCasts -> CastsOf(created, removed)]]
      BY <3>4 DEF GossipInv
    <3> QED BY <3>1, <3>2, <3>3, <3>4
  <2> QED BY <1>5, <2>2, <2>3 DEF DeleteLearned, GossipInv, history
<1>6. CASE BuryLearned(n, c)
  <2>1. b.id \in removed /\ b.left \in SUBSET removed
    BY <1>6, <1>d DEF BuryLearned
  <2>2. deleted' \in [Nodes -> TombsOf(removed)]
    <3>1. removed \in SUBSET Services
      BY DEF GossipInv
    <3>2. Entomb(deleted[n], b.id) \in TombsOf(removed)
      BY <2>1, <3>1, TombsEntomb DEF GossipInv
    <3> QED BY <1>6, <3>2 DEF BuryLearned, GossipInv
  <2>3. cast' \in [Nodes -> [1 .. MaxCasts -> CastsOf(created, removed)]]
    <3>1. Continue(b.left) \in CastsOf(created, removed)
      BY <2>1, ContinueCast
    <3> QED BY <1>6, <3>1 DEF BuryLearned, GossipInv
  <2> QED BY <1>6, <2>2, <2>3 DEF BuryLearned, GossipInv, history
<1> QED BY <1>1, <1>2, <1>3, <1>4, <1>5, <1>6 DEF Broadcasting

LEMMA ServeInv ==
  ASSUME GossipInv, NEW m \in Nodes, NEW i \in 1 .. Inbox, Serve(m, i)
  PROVE  GossipInv'
<1> DEFINE q == inbox[m][i]
<1>q. q \in RequestsOf(created, removed)
  BY DEF GossipInv
<1>1. ASSUME inbox' = [inbox EXCEPT ![m][i] = Idle]
      PROVE  inbox' \in [Nodes -> [1 .. Inbox -> RequestsOf(created, removed)]]
  <2>1. Idle \in RequestsOf(created, removed)
    BY MakeOthers
  <2> QED BY <1>1, <2>1 DEF GossipInv
<1>2. CASE BuryTold(m, i)
  <2>1. q.id \in removed /\ removed \in SUBSET Services
    BY <1>2, <1>q, RequestShape DEF BuryTold, GossipInv
  <2>2. deleted' \in [Nodes -> TombsOf(removed)]
    <3>1. Entomb(deleted[m], q.id) \in TombsOf(removed)
      BY <2>1, TombsEntomb DEF GossipInv
    <3> QED BY <1>2, <3>1 DEF BuryTold, GossipInv
  <2>3. inbox' \in [Nodes -> [1 .. Inbox -> RequestsOf(created, removed)]]
    BY <1>1, <1>2 DEF BuryTold
  <2> QED BY <1>2, <2>2, <2>3 DEF BuryTold, GossipInv, history
<1>3. CASE Merge(m, i)
  <2> DEFINE n == q.from
             c == q.task
             b == cast[n][c]
  <2>1. /\ q.list \in ListsOf(created) /\ q.rejected \in SUBSET removed
        /\ n \in Nodes /\ c \in 1 .. MaxCasts
    BY <1>3, <1>q, RequestShape DEF Merge
  <2>2. services' \in [Nodes -> ListsOf(created)]
    BY <1>3, <2>1 DEF Merge, GossipInv
  <2>3. inbox' \in [Nodes -> [1 .. Inbox -> RequestsOf(created, removed)]]
    BY <1>1, <1>3 DEF Merge
  <2>4. cast' \in [Nodes -> [1 .. MaxCasts -> CastsOf(created, removed)]]
    <3>1. CASE cast' = cast
      BY <3>1 DEF GossipInv
    <3>2. CASE Waits(n, c, m, i) /\ cast' = [cast EXCEPT ![n][c] = Heard(b, q.rejected)]
      <4>1. b.kind = "sync" /\ b \in CastsOf(created, removed)
        BY <2>1, <3>2 DEF Waits, GossipInv
      <4>2. b.list \in ListsOf(created) /\ b.to \in SUBSET Nodes /\ b.learned \cup q.rejected \in SUBSET removed
        <5> HIDE DEF b
        <5> QED BY <2>1, <4>1, CastShape
      <4>3. Heard(b, q.rejected) \in CastsOf(created, removed)
        BY <4>2, OnwardCast DEF Heard
      <4> QED BY <2>1, <3>2, <4>3 DEF GossipInv
    <3> QED BY <1>3, <3>1, <3>2 DEF Merge
  <2> QED BY <1>3, <2>2, <2>3, <2>4 DEF Merge, GossipInv, history
<1> QED BY <1>2, <1>3 DEF Serve

LEMMA CrashInv ==
  ASSUME GossipInv, NEW n \in Nodes, NEW torn \in SUBSET {"services", "deleted"}, Crash(n, torn)
  PROVE  GossipInv'
<1>1. services' \in [Nodes -> ListsOf(created)]
  BY EmptyList DEF Crash, GossipInv
<1>2. deleted' \in [Nodes -> TombsOf(removed)]
  <2>1. << >> \in TombsOf(removed)
    BY TombAssumption DEF TombsOf, IsInjective, Range
  <2> QED BY <2>1 DEF Crash, GossipInv
<1>3. handler' \in [Nodes -> HandlingsOf(removed)]
  BY MakeOthers DEF Crash, GossipInv
<1>4. cast' \in [Nodes -> [1 .. MaxCasts -> CastsOf(created, removed)]]
  <2>1. [c \in 1 .. MaxCasts |-> Idle] \in [1 .. MaxCasts -> CastsOf(created, removed)]
    BY MakeCasts
  <2> QED BY <2>1 DEF Crash, GossipInv
<1>5. inbox' \in [Nodes -> [1 .. Inbox -> RequestsOf(created, removed)]]
  <2>1. [i \in 1 .. Inbox |-> Idle] \in [1 .. Inbox -> RequestsOf(created, removed)]
    BY MakeOthers
  <2> QED BY <2>1 DEF Crash, GossipInv
<1>6. crashes' \in 0 .. MaxCrashes
  <2>1. \A k \in Nat : \A e \in 0 .. k : e < k => e + 1 \in 0 .. k
    OBVIOUS
  <2> QED BY <2>1, BoundsAssumption DEF Crash, GossipInv
<1> QED BY <1>1, <1>2, <1>3, <1>4, <1>5, <1>6 DEF Crash, GossipInv

LEMMA StepInv ==
  ASSUME GossipInv, [Next]_vars
  PROVE  GossipInv'
<1>1. CASE \E n \in Nodes : Operator(n)
  BY <1>1, OperatorInv DEF Operator
<1>2. CASE \/ \E n \in Nodes : Handler(n) \/ Loop(n)
           \/ \E n \in Nodes, c \in 1 .. MaxCasts : Broadcasting(n, c)
  BY <1>2, HandlerInv, LoopInv, BroadcastingInv, BoundsAssumption
<1>3. CASE \E n \in Nodes, i \in 1 .. Inbox : Serve(n, i)
  BY <1>3, ServeInv
<1>4. CASE \E n \in Nodes, torn \in SUBSET {"services", "deleted"} : Crash(n, torn)
  BY <1>4, CrashInv
<1>5. CASE Settle
  BY <1>5 DEF Settle, GossipInv, history
<1>6. CASE UNCHANGED vars
  BY <1>6 DEF vars, history, GossipInv
<1> QED BY <1>1, <1>2, <1>3, <1>4, <1>5, <1>6 DEF Next

LEMMA GossipInvariant == Spec => []GossipInv
<1>1. GossipInv /\ [Next]_vars => GossipInv'
  BY StepInv
<1> QED BY InitInv, <1>1, PTL DEF Spec

-----------------------------------------------------------------------------
(* The types of the state, for every number of nodes and every bound: the  *)
(* lists hold revisions of services, the tasks and requests that are under *)
(* way carry what their kind needs, and record_tombstone keeps a node's    *)
(* tombstones without repetition and within TOMBSTONE_MAX.                 *)
THEOREM GossipTypeCorrect == Spec => []TypeOK
<1>1. GossipInv => TypeOK
  <2> SUFFICES ASSUME GossipInv PROVE TypeOK
    OBVIOUS
  <2>1. /\ Lists = ListsOf(Services) /\ Handlings = HandlingsOf(Services)
        /\ Casts = CastsOf(Services, Services) /\ Requests = RequestsOf(Services, Services)
    <3>1. Lists = ListsOf(Services)
      BY DEF Lists, ListsOf
    <3>2. Handlings = HandlingsOf(Services)
      BY DEF Handlings, HandlingsOf
    <3>3. Casts = CastsOf(Services, Services)
      BY <3>1 DEF Casts, CastsOf, Places
    <3>4. Requests = RequestsOf(Services, Services)
      BY <3>1 DEF Requests, RequestsOf
    <3> QED BY <3>1, <3>2, <3>3, <3>4
  <2>2. created \subseteq Services /\ removed \subseteq Services
    BY DEF GossipInv
  <2>3. ListsOf(created) \subseteq ListsOf(Services)
    BY <2>2, ListsGrow
  <2>4. /\ HandlingsOf(removed) \subseteq HandlingsOf(Services)
        /\ CastsOf(created, removed) \subseteq CastsOf(Services, Services)
        /\ RequestsOf(created, removed) \subseteq RequestsOf(Services, Services)
    BY <2>2, SetsGrow
  <2>5. services \in [Nodes -> Lists] /\ handler \in [Nodes -> Handlings] /\ cast \in [Nodes -> [1 .. MaxCasts -> Casts]]
    BY <2>1, <2>3, <2>4 DEF GossipInv
  <2>6. inbox \in [Nodes -> [1 .. Inbox -> Requests]]
    BY <2>1, <2>4 DEF GossipInv
  <2>7. \A n \in Nodes : /\ deleted[n] \in Seq(Services) /\ IsInjective(deleted[n])
                         /\ Len(deleted[n]) <= TombMax
    BY DEF GossipInv, TombsOf
  <2> QED BY <2>5, <2>6, <2>7 DEF GossipInv, TypeOK
<1> QED BY <1>1, GossipInvariant, PTL

(* No service gets a tombstone no operator deleted, whatever copies and    *)
(* requests are lost, late or out of order, wherever a node crashes and    *)
(* whichever of its files is cut short: what reaches record_tombstone at   *)
(* any node began in a wolfrun_delete.                                     *)
THEOREM OnlyDeletedEverBuried == Spec => []OnlyDeletedBuried
<1>1. GossipInv => OnlyDeletedBuried
  BY DEF GossipInv, TombsOf, OnlyDeletedBuried
<1> QED BY <1>1, GossipInvariant, PTL
=============================================================================
