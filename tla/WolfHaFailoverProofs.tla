------------------------- MODULE WolfHaFailoverProofs -------------------------
(***************************************************************************)
(* Proofs about WolfHaFailover, for any set of nodes, any succession order *)
(* and every bound.                                                        *)
(***************************************************************************)
EXTENDS WolfHaFailover, ListFacts, TLAPS

-----------------------------------------------------------------------------
(* The replica lists.                                                      *)

(* What FirstOf finds is a listed peer that answers, and it finds one when *)
(* there is one.                                                           *)
LEMMA FirstOfFacts ==
  ASSUME TypeOK, NEW n \in Nodes, NEW S
  PROVE  \/ /\ FirstOf(n, S) = "none"
            /\ \A m \in Range(replicas[n]) : ~(Reach(n, m) /\ m \in S)
         \/ /\ FirstOf(n, S) \in Nodes /\ FirstOf(n, S) # "none"
            /\ FirstOf(n, S) \in Range(replicas[n])
            /\ Reach(n, FirstOf(n, S)) /\ FirstOf(n, S) \in S
<1> DEFINE s == replicas[n]
           I == {j \in 1 .. Len(s) : Reach(n, s[j]) /\ s[j] \in S}
           i == SelectInSeq(s, LAMBDA m : Reach(n, m) /\ m \in S)
<1>1. s \in Seq(Nodes) /\ Len(s) \in Nat /\ DOMAIN s = 1 .. Len(s)
  BY DEF TypeOK
<1>2. i = IF I # {} THEN CHOOSE x \in I : \A y \in I : x <= y ELSE 0
  BY Zenon DEF SelectInSeq, Min
<1>3. FirstOf(n, S) = IF i = 0 THEN "none" ELSE s[i]
  BY DEF FirstOf
<1>4. CASE I = {}
  <2>1. i = 0
    BY <1>2, <1>4
  <2>2. ASSUME NEW m \in Range(s) PROVE ~(Reach(n, m) /\ m \in S)
    <3>1. PICK j \in 1 .. Len(s) : s[j] = m
      BY <1>1 DEF Range
    <3> QED BY <1>4, <3>1
  <2> QED BY <1>3, <2>1, <2>2
<1>5. CASE I # {}
  <2>1. I \in SUBSET Nat
    BY <1>1
  <2>2. \E x \in I : \A y \in I : x <= y
    BY <1>5, <2>1, LeastExists
  <2>3. i \in I
    BY <1>2, <1>5, <2>2
  <2> HIDE DEF i
  <2>4. i \in 1 .. Len(s) /\ Reach(n, s[i]) /\ s[i] \in S
    BY <2>3
  <2>5. s[i] \in Nodes /\ s[i] \in Range(s)
    BY <1>1, <2>4 DEF Range
  <2>6. i # 0
    BY <1>1, <2>4
  <2>7. FirstOf(n, S) = s[i]
    BY <1>3, <2>6
  <2> QED BY <2>4, <2>5, <2>7, NamesAssumption
<1> QED BY <1>4, <1>5

(* The list promote_local leaves: the old one, with the old primary and    *)
(* without the promoted node.                                              *)
Heirs(n) ==
  RemoveFirst(IF primary[n] \in {"none"} \cup Range(replicas[n]) THEN replicas[n]
              ELSE Append(replicas[n], primary[n]), n)

LEMMA HeirsFacts ==
  ASSUME TypeOK, NEW n \in Nodes
  PROVE  /\ Heirs(n) \in Seq(Nodes) /\ IsInjective(Heirs(n))
         /\ Range(Heirs(n)) = (Range(replicas[n]) \cup ({primary[n]} \ {"none"})) \ {n}
<1> DEFINE s == replicas[n]
           t == IF primary[n] \in {"none"} \cup Range(s) THEN s ELSE Append(s, primary[n])
<1>1. s \in Seq(Nodes) /\ IsInjective(s) /\ primary[n] \in Nodes \cup {"none"}
      /\ Len(s) \in Nat /\ DOMAIN s = 1 .. Len(s)
  <2>1. replicas \in [Nodes -> Seq(Nodes)] /\ primary \in [Nodes -> Nodes \cup {"none"}]
    BY DEF TypeOK, Peers
  <2>2. IsInjective(s)
    BY Zenon DEF TypeOK
  <2>3. s \in Seq(Nodes) /\ primary[n] \in Nodes \cup {"none"}
    BY <2>1
  <2> QED BY <2>2, <2>3
<1>2. t \in Seq(Nodes) /\ IsInjective(t) /\ Range(t) = Range(s) \cup ({primary[n]} \ {"none"})
  <2>1. CASE primary[n] \in {"none"} \cup Range(s)
    <3>1. t = s
      BY <2>1
    <3> HIDE DEF t
    <3> QED BY <1>1, <2>1, <3>1
  <2>2. CASE primary[n] \notin {"none"} \cup Range(s)
    <3>1. t = Append(s, primary[n]) /\ primary[n] \in Nodes
      BY <1>1, <2>2
    <3> HIDE DEF t
    <3>2. /\ t \in Seq(Nodes) /\ Len(t) = Len(s) + 1 /\ DOMAIN t = 1 .. Len(s) + 1
          /\ \A j \in 1 .. Len(s) : t[j] = s[j]
          /\ t[Len(s) + 1] = primary[n]
      BY <1>1, <3>1, AppendProperties
    <3>3. IsInjective(t)
      <4> SUFFICES ASSUME NEW j \in 1 .. Len(s) + 1, NEW k \in 1 .. Len(s) + 1, t[j] = t[k]
                   PROVE  j = k
        BY <3>2 DEF IsInjective
      <4>1. \A l \in 1 .. Len(s) : s[l] # primary[n]
        BY <1>1, <2>2 DEF Range
      <4>2. CASE j \in 1 .. Len(s) /\ k \in 1 .. Len(s)
        BY <1>1, <3>2, <4>2 DEF IsInjective
      <4>3. CASE j = Len(s) + 1 /\ k \in 1 .. Len(s)
        BY <3>2, <4>1, <4>3
      <4>4. CASE j \in 1 .. Len(s) /\ k = Len(s) + 1
        BY <3>2, <4>1, <4>4
      <4>5. CASE j = Len(s) + 1 /\ k = Len(s) + 1
        BY <4>5
      <4> QED BY <1>1, <4>2, <4>3, <4>4, <4>5
    <3>4. Range(t) = Range(s) \cup {primary[n]}
      <4>1. ASSUME NEW v \in Range(t) PROVE v \in Range(s) \cup {primary[n]}
        <5>1. PICK j \in 1 .. Len(s) + 1 : t[j] = v
          BY <3>2 DEF Range
        <5>2. j \in 1 .. Len(s) \/ j = Len(s) + 1
          BY <1>1
        <5> QED BY <1>1, <3>2, <5>1, <5>2 DEF Range
      <4>2. ASSUME NEW v \in Range(s) PROVE v \in Range(t)
        <5>1. PICK j \in 1 .. Len(s) : s[j] = v
          BY <1>1 DEF Range
        <5>2. j \in DOMAIN t /\ t[j] = v
          BY <1>1, <3>2, <5>1
        <5> QED BY <5>2 DEF Range
      <4>3. primary[n] \in Range(t)
        <5>1. Len(s) + 1 \in DOMAIN t
          BY <1>1, <3>2
        <5> QED BY <3>2, <5>1 DEF Range
      <4> QED BY <4>1, <4>2, <4>3
    <3> QED BY <1>1, <2>2, <3>2, <3>3, <3>4
  <2> QED BY <2>1, <2>2
<1>3. Heirs(n) = RemoveFirst(t, n)
  BY DEF Heirs
<1> HIDE DEF t
<1>4. RemoveFirst(t, n) \in Seq(Nodes) /\ IsInjective(RemoveFirst(t, n))
      /\ Range(RemoveFirst(t, n)) = Range(t) \ {n}
  BY <1>2, RemoveFirstFacts
<1> QED BY <1>2, <1>3, <1>4

-----------------------------------------------------------------------------
(* Type correctness, in parts.                                             *)

EntryTypes ==
  /\ role \in [Nodes -> {"primary", "replica"}] /\ stale \in [Nodes -> BOOLEAN]
  /\ primary \in [Nodes -> Peers]
  /\ \A n \in Nodes : role[n] = "replica" => primary[n] # "none"

ListTypes ==
  /\ replicas \in [Nodes -> Seq(Nodes)]
  /\ \A n \in Nodes : IsInjective(replicas[n])

ClockTypes ==
  /\ booting \in [Nodes -> -1 .. BootTicks] /\ age \in [Nodes -> 1 - 2 * BootTicks .. PassTicks]
  /\ witFail \in [Nodes -> -1 .. Fence] /\ priFail \in [Nodes -> -1 .. FailoverAfter]
  /\ dark \in [Pairs -> 0 .. Window]

Decisions == {"none", "fence", "demote", "resume", "stop", "start", "promote"}

TaskTypes ==
  /\ intent \in [Nodes -> [act : Decisions, to : Nodes]]
  /\ op \in [Nodes -> [step : {"none", "ask", "wait", "promote"}, to : Nodes]]
  /\ serving \in [Nodes -> Peers]

WorldTypes ==
  /\ up \in [Nodes -> BOOLEAN] /\ running \in [Nodes -> BOOLEAN]
  /\ links \subseteq Pairs /\ blind \subseteq Nodes
  /\ booted \subseteq Nodes /\ seen \subseteq Env \cup {"heal", "reboot", "promote"}
  /\ faults \in 0 .. MaxFaults /\ promotes \in 0 .. MaxPromotes

LEMMA TypeParts ==
  /\ TypeOK <=> EntryTypes /\ ListTypes /\ ClockTypes /\ TaskTypes /\ WorldTypes
  /\ TypeOK' <=> EntryTypes' /\ ListTypes' /\ ClockTypes' /\ TaskTypes' /\ WorldTypes'
<1>1. TypeOK <=> EntryTypes /\ ListTypes /\ ClockTypes /\ TaskTypes /\ WorldTypes
  BY Zenon DEF TypeOK, EntryTypes, ListTypes, ClockTypes, TaskTypes, WorldTypes, Decisions
<1>2. TypeOK' <=> EntryTypes' /\ ListTypes' /\ ClockTypes' /\ TaskTypes' /\ WorldTypes'
  BY Zenon DEF TypeOK, EntryTypes, ListTypes, ClockTypes, TaskTypes, WorldTypes, Decisions
<1> QED BY <1>1, <1>2

LEMMA TypeInit ==
  ASSUME Init
  PROVE  TypeOK
<1>1. EntryTypes
  BY OrderAssumption, NamesAssumption DEF Init, EntryTypes, Peers
<1>2. ListTypes
  <2>1. Order \in Seq(Nodes)
    BY OrderAssumption, SeqMonotonic
  <2>2. replicas \in [Nodes -> Seq(Nodes)]
    BY <2>1 DEF Init
  <2>3. ASSUME NEW n \in Nodes PROVE IsInjective(replicas[n])
    <3>1. replicas[n] = Order
      BY DEF Init
    <3> QED BY <3>1, OrderAssumption
  <2> QED BY <2>2, <2>3 DEF ListTypes
<1>3. ClockTypes
  BY TimeAssumption DEF Init, ClockTypes, BootTicks
<1>4. TaskTypes
  BY OrderAssumption DEF Init, TaskTypes, Decisions, NoIntent, NoOp, Peers
<1>5. WorldTypes
  BY TimeAssumption DEF Init, WorldTypes
<1> QED BY <1>1, <1>2, <1>3, <1>4, <1>5, TypeParts

LEMMA NothingDecided ==
  /\ NoIntent \in [act : Decisions, to : Nodes]
  /\ NoOp \in [step : {"none", "ask", "wait", "promote"}, to : Nodes]
BY OrderAssumption DEF NoIntent, NoOp, Decisions

(* A pass of the monitor decides and leaves the entries alone.             *)
LEMMA DecideTypes ==
  ASSUME TypeOK, NEW n \in Nodes, NEW what \in [act : Decisions, to : Nodes],
         Decide(n, what),
         witFail' \in [Nodes -> -1 .. Fence], priFail' \in [Nodes -> -1 .. FailoverAfter]
  PROVE  TypeOK'
<1>1. /\ age' = [age EXCEPT ![n] = 0] /\ intent' = [intent EXCEPT ![n] = what]
      /\ UNCHANGED <<up, role, stale, primary, replicas, running, booting, op, serving,
                     links, blind, dark, booted, faults, promotes, seen>>
  BY DEF Decide, entries, network, history
<1>2. EntryTypes' /\ ListTypes' /\ WorldTypes'
  BY <1>1, TypeParts DEF EntryTypes, ListTypes, WorldTypes
<1>3. ClockTypes'
  BY <1>1, TypeParts, TimeAssumption DEF ClockTypes, BootTicks
<1>4. TaskTypes'
  BY <1>1, TypeParts DEF TaskTypes
<1> QED BY <1>2, <1>3, <1>4, TypeParts

LEMMA PassTypes ==
  ASSUME TypeOK, NEW n \in Nodes, Pass(n)
  PROVE  TypeOK'
<1>1. witFail \in [Nodes -> -1 .. Fence] /\ priFail \in [Nodes -> -1 .. FailoverAfter]
  BY TypeParts DEF ClockTypes
<1>2. \A a \in Decisions : \A m \in Nodes : [act |-> a, to |-> m] \in [act : Decisions, to : Nodes]
  OBVIOUS
<1>3. \A a \in {"fence", "demote", "resume", "stop", "promote"} : a \in Decisions
  BY DEF Decisions
<1>4. CASE PassIdlePrimary(n)
  <2> DEFINE S == {m \in Nodes : running[m] /\ role[m] = "primary"}
             peer == FirstOf(n, S)
             what == IF peer = "none" THEN NoIntent ELSE [act |-> "demote", to |-> peer]
  <2>1. Decide(n, what)
    BY <1>4 DEF PassIdlePrimary
  <2>2. peer = "none" \/ peer \in Nodes
    BY FirstOfFacts
  <2> HIDE DEF peer
  <2>3. what \in [act : Decisions, to : Nodes]
    BY <1>2, <1>3, <2>2, NothingDecided
  <2>4. witFail' \in [Nodes -> -1 .. Fence] /\ priFail' = priFail
    BY <1>1, <1>4, TimeAssumption DEF PassIdlePrimary
  <2> HIDE DEF what
  <2> QED BY <1>1, <2>1, <2>3, <2>4, DecideTypes
<1>5. CASE PassPrimary(n)
  <2> DEFINE P == /\ ~Witness(n) /\ witFail'[n] >= Fence
                  /\ \A m \in Range(replicas[n]) : ~Reach(n, m)
             what == IF P THEN [act |-> "fence", to |-> n] ELSE NoIntent
  <2>1. Decide(n, what)
    BY <1>5 DEF PassPrimary
  <2>2. what \in [act : Decisions, to : Nodes]
    BY <1>2, <1>3, NothingDecided
  <2>3. witFail' \in [Nodes -> -1 .. Fence] /\ priFail' = priFail
    BY <1>1, <1>5, TimeAssumption DEF PassPrimary, Started
  <2> HIDE DEF what
  <2> QED BY <1>1, <2>1, <2>2, <2>3, DecideTypes
<1>6. CASE PassFenced(n)
  <2> DEFINE peer == FirstOf(n, Claimants)
             what == IF ~Witness(n) THEN NoIntent
                     ELSE IF peer # "none" THEN [act |-> "demote", to |-> peer]
                     ELSE IF \A m \in Range(replicas[n]) : Reach(n, m)
                            THEN [act |-> "resume", to |-> n] ELSE NoIntent
  <2>1. Decide(n, what) /\ UNCHANGED <<witFail, priFail>>
    BY <1>6 DEF PassFenced, clocks
  <2>2. peer = "none" \/ peer \in Nodes
    BY FirstOfFacts
  <2> HIDE DEF peer
  <2>3. what \in [act : Decisions, to : Nodes]
    BY <1>2, <1>3, <2>2, NothingDecided
  <2> HIDE DEF what
  <2> QED BY <1>1, <2>1, <2>3, DecideTypes
<1>7. CASE PassStandby(n)
  <2>1. PICK what \in [act : Decisions, to : Nodes] : Decide(n, what)
    <3>1. CASE running[n]
      BY <1>2, <1>3, <1>7, <3>1, NothingDecided DEF PassStandby
    <3>2. CASE ~running[n]
      BY <1>2, <1>3, <1>7, <3>2, NothingDecided DEF PassStandby
    <3> QED BY <3>1, <3>2
  <2>2. witFail' = witFail /\ priFail' \in [Nodes -> -1 .. FailoverAfter]
    BY <1>1, <1>7, TimeAssumption DEF PassStandby, Started
  <2> QED BY <1>1, <2>1, <2>2, DecideTypes
<1>8. CASE PassStale(n)
  <2>1. Decide(n, NoIntent) /\ UNCHANGED <<witFail, priFail>>
    BY <1>8 DEF PassStale, clocks
  <2> QED BY <1>1, <2>1, NothingDecided, DecideTypes
<1> QED BY <1>4, <1>5, <1>6, <1>7, <1>8 DEF Pass

LEMMA PromoteLocalEffect ==
  ASSUME TypeOK, NEW n \in Nodes, PromoteLocal(n)
  PROVE  \/ ActivePrimary(n) /\ UNCHANGED <<role, stale, primary, replicas, running>>
         \/ /\ ~ActivePrimary(n)
            /\ running' = [running EXCEPT ![n] = TRUE]
            /\ role' = [role EXCEPT ![n] = "primary"]
            /\ stale' = [stale EXCEPT ![n] = FALSE]
            /\ primary' = [primary EXCEPT ![n] = "none"]
            /\ replicas' = [replicas EXCEPT ![n] = Heirs(n)]
<1>1. CASE ActivePrimary(n)
  BY <1>1 DEF PromoteLocal, entries
<1>2. CASE ~ActivePrimary(n)
  <2>1. /\ running' = [running EXCEPT ![n] = TRUE]
        /\ role' = [role EXCEPT ![n] = "primary"]
        /\ stale' = [stale EXCEPT ![n] = FALSE]
        /\ primary' = [primary EXCEPT ![n] = "none"]
    BY <1>2 DEF PromoteLocal
  <2>2. replicas' = [replicas EXCEPT ![n] = Heirs(n)]
    BY <1>2, Zenon DEF PromoteLocal, Heirs
  <2> QED BY <1>2, <2>1, <2>2
<1> QED BY <1>1, <1>2

LEMMA PromoteLocalTypes ==
  ASSUME TypeOK, NEW n \in Nodes, PromoteLocal(n)
  PROVE  EntryTypes' /\ ListTypes' /\ running' \in [Nodes -> BOOLEAN]
<1>0. EntryTypes /\ ListTypes /\ running \in [Nodes -> BOOLEAN]
  BY TypeParts DEF WorldTypes
<1>1. CASE ActivePrimary(n) /\ UNCHANGED <<role, stale, primary, replicas, running>>
  BY <1>0, <1>1 DEF EntryTypes, ListTypes
<1>2. CASE /\ running' = [running EXCEPT ![n] = TRUE]
           /\ role' = [role EXCEPT ![n] = "primary"]
           /\ stale' = [stale EXCEPT ![n] = FALSE]
           /\ primary' = [primary EXCEPT ![n] = "none"]
           /\ replicas' = [replicas EXCEPT ![n] = Heirs(n)]
  <2>1. EntryTypes' /\ running' \in [Nodes -> BOOLEAN]
    BY <1>0, <1>2 DEF EntryTypes, Peers
  <2>2. Heirs(n) \in Seq(Nodes) /\ IsInjective(Heirs(n))
    BY HeirsFacts
  <2>3. replicas' \in [Nodes -> Seq(Nodes)]
    BY <1>0, <1>2, <2>2 DEF ListTypes
  <2>4. ASSUME NEW m \in Nodes PROVE IsInjective(replicas'[m])
    <3>1. replicas'[m] = Heirs(n) \/ replicas'[m] = replicas[m]
      BY <1>0, <1>2 DEF ListTypes
    <3>2. IsInjective(replicas[m])
      BY <1>0 DEF ListTypes
    <3> QED BY <2>2, <3>1, <3>2
  <2> QED BY <2>1, <2>3, <2>4 DEF ListTypes
<1> QED BY <1>1, <1>2, PromoteLocalEffect

LEMMA EmptyList ==
  << >> \in Seq(Nodes) /\ IsInjective(<< >>) /\ Range(<< >>) = {}
BY DEF IsInjective, Range

(* A list that changes is emptied or replaced by one of the lists.         *)
LEMMA ListsHandedOn ==
  ASSUME ListTypes, NEW T, DOMAIN T = Nodes,
         \A m \in Nodes : T[m] = << >> \/ \E k \in Nodes : T[m] = replicas[k]
  PROVE  \A m \in Nodes : T[m] \in Seq(Nodes) /\ IsInjective(T[m])
<1> SUFFICES ASSUME NEW m \in Nodes PROVE T[m] \in Seq(Nodes) /\ IsInjective(T[m])
  OBVIOUS
<1>1. CASE T[m] = << >>
  BY <1>1, EmptyList
<1>2. CASE \E k \in Nodes : T[m] = replicas[k]
  <2>1. PICK k \in Nodes : T[m] = replicas[k]
    BY <1>2
  <2>2. replicas[k] \in Seq(Nodes) /\ IsInjective(replicas[k])
    BY DEF ListTypes
  <2> QED BY <2>1, <2>2
<1> QED BY <1>1, <1>2

LEMMA ActTypes ==
  ASSUME TypeOK, NEW n \in Nodes, Acts(n)
  PROVE  TypeOK'
<1>0. EntryTypes /\ ListTypes /\ ClockTypes /\ TaskTypes /\ WorldTypes
  BY TypeParts
<1>1. PICK what : Act(n, what)
  BY DEF Acts, SelfFence, FenceFails, StopFails, Supersede, Resume, StopDuplicate, AutoPromote, BootStart
<1>2. /\ intent' = [intent EXCEPT ![n] = NoIntent]
      /\ UNCHANGED <<up, booting, age, op, serving, links, blind, dark, booted, faults, promotes>>
  BY <1>1 DEF Act, network
<1>3. TaskTypes'
  BY <1>0, <1>2, NothingDecided DEF TaskTypes
<1>s. seen' \subseteq Env \cup {"heal", "reboot", "promote"}
  <2>1. seen' = seen \/ ("stuck" \in Env /\ seen' = seen \cup {"stuck"})
    <3>1. SelfFence(n) => seen' = seen
      BY DEF SelfFence
    <3>2. Supersede(n) => seen' = seen
      BY DEF Supersede
    <3>3. Resume(n) => seen' = seen
      BY DEF Resume
    <3>4. StopDuplicate(n) => seen' = seen
      BY DEF StopDuplicate
    <3>5. AutoPromote(n) => seen' = seen
      BY DEF AutoPromote
    <3>6. BootStart(n) => seen' = seen
      BY DEF BootStart
    <3>7. FenceFails(n) \/ StopFails(n) => "stuck" \in Env /\ seen' = seen \cup {"stuck"}
      BY DEF FenceFails, StopFails
    <3> QED BY <3>1, <3>2, <3>3, <3>4, <3>5, <3>6, <3>7 DEF Acts
  <2> QED BY <1>0, <2>1 DEF WorldTypes
<1>4. ASSUME witFail' \in [Nodes -> -1 .. Fence], priFail' \in [Nodes -> -1 .. FailoverAfter],
             running' \in [Nodes -> BOOLEAN], EntryTypes', ListTypes'
      PROVE  TypeOK'
  <2>1. ClockTypes' /\ WorldTypes'
    BY <1>0, <1>2, <1>s, <1>4 DEF ClockTypes, WorldTypes
  <2> QED BY <1>3, <1>4, <2>1, TypeParts
<1>5. CASE SelfFence(n) \/ FenceFails(n)
  <2>1. EntryTypes' /\ ListTypes'
    BY <1>0, <1>5 DEF SelfFence, FenceFails, EntryTypes, ListTypes
  <2>2. /\ witFail' \in [Nodes -> -1 .. Fence] /\ priFail' \in [Nodes -> -1 .. FailoverAfter]
        /\ running' \in [Nodes -> BOOLEAN]
    <3>1. witFail' = [witFail EXCEPT ![n] = -1] /\ priFail' = priFail
      BY <1>5 DEF SelfFence, FenceFails
    <3>2. running' = [running EXCEPT ![n] = FALSE] \/ running' = running
      BY <1>5 DEF SelfFence, FenceFails
    <3>3. running' \in [Nodes -> BOOLEAN]
      BY <1>0, <3>2 DEF WorldTypes
    <3>4. witFail' \in [Nodes -> -1 .. Fence] /\ priFail' \in [Nodes -> -1 .. FailoverAfter]
      BY <1>0, <3>1, TimeAssumption DEF ClockTypes
    <3> QED BY <3>3, <3>4
  <2> QED BY <1>4, <2>1, <2>2
<1>6. CASE Supersede(n)
  <2>0. intent[n].to \in Nodes
    BY <1>0 DEF TaskTypes
  <2>1. EntryTypes' /\ running' \in [Nodes -> BOOLEAN]
    BY <1>0, <1>6, <2>0, NamesAssumption DEF Supersede, DemoteLocal, EntryTypes, WorldTypes, Peers
  <2>2. ListTypes'
    <3>1. replicas' = [replicas EXCEPT ![n] = << >>] /\ DOMAIN replicas = Nodes
      BY <1>0, <1>6 DEF Supersede, DemoteLocal, ListTypes
    <3>2. DOMAIN replicas' = Nodes
          /\ \A m \in Nodes : replicas'[m] = << >> \/ \E k \in Nodes : replicas'[m] = replicas[k]
      BY <3>1
    <3>3. \A m \in Nodes : replicas'[m] \in Seq(Nodes) /\ IsInjective(replicas'[m])
      BY <1>0, <3>2, ListsHandedOn
    <3>4. replicas' \in [Nodes -> Seq(Nodes)]
      BY <3>1, <3>3
    <3> QED BY <3>3, <3>4 DEF ListTypes
  <2>3. witFail' \in [Nodes -> -1 .. Fence] /\ priFail' \in [Nodes -> -1 .. FailoverAfter]
    BY <1>0, <1>6 DEF Supersede, clocks, ClockTypes
  <2> QED BY <1>4, <2>1, <2>2, <2>3
<1>7. CASE Resume(n)
  <2>1. EntryTypes' /\ ListTypes'
    BY <1>0, <1>7 DEF Resume, EntryTypes, ListTypes
  <2>2. /\ witFail' \in [Nodes -> -1 .. Fence] /\ priFail' \in [Nodes -> -1 .. FailoverAfter]
        /\ running' \in [Nodes -> BOOLEAN]
    BY <1>0, <1>7 DEF Resume, ClockTypes, WorldTypes, clocks
  <2> QED BY <1>4, <2>1, <2>2
<1>8. CASE StopDuplicate(n) \/ StopFails(n) \/ BootStart(n)
  <2>1. EntryTypes' /\ ListTypes'
    BY <1>0, <1>8 DEF StopDuplicate, StopFails, BootStart, EntryTypes, ListTypes, entries
  <2>2. /\ witFail' \in [Nodes -> -1 .. Fence] /\ priFail' \in [Nodes -> -1 .. FailoverAfter]
        /\ running' \in [Nodes -> BOOLEAN]
    BY <1>0, <1>8 DEF StopDuplicate, StopFails, BootStart, ClockTypes, WorldTypes, clocks
  <2> QED BY <1>4, <2>1, <2>2
<1>9. CASE AutoPromote(n)
  <2>1. EntryTypes' /\ ListTypes' /\ running' \in [Nodes -> BOOLEAN]
    BY <1>9, PromoteLocalTypes DEF AutoPromote
  <2>2. witFail' \in [Nodes -> -1 .. Fence] /\ priFail' \in [Nodes -> -1 .. FailoverAfter]
    BY <1>0, <1>9, TimeAssumption DEF AutoPromote, ClockTypes
  <2> QED BY <1>4, <2>1, <2>2
<1> QED BY <1>5, <1>6, <1>7, <1>8, <1>9 DEF Acts

LEMMA BootGuardTypes ==
  ASSUME TypeOK, NEW n \in Nodes, BootGuard(n)
  PROVE  TypeOK'
<1>0. EntryTypes /\ ListTypes /\ ClockTypes /\ TaskTypes /\ WorldTypes
  BY TypeParts
<1>1. UNCHANGED <<up, role, stale, primary, replicas, running, witFail, priFail, op, serving,
                  links, blind, dark, booted, faults, promotes, seen>>
  BY DEF BootGuard, entries, clocks, network, history
<1>2. EntryTypes' /\ ListTypes' /\ WorldTypes'
  BY <1>0, <1>1 DEF EntryTypes, ListTypes, WorldTypes
<1>3. ClockTypes'
  BY <1>0, <1>1, TimeAssumption DEF ClockTypes, BootGuard, BootTicks
<1>4. TaskTypes'
  <2> DEFINE peer == FirstOf(n, Claimants)
             what == IF ~ActivePrimary(n) \/ running[n] THEN NoIntent
                     ELSE IF peer # "none" THEN [act |-> "demote", to |-> peer]
                     ELSE [act |-> "start", to |-> n]
  <2>1. intent' = [intent EXCEPT ![n] = what]
    BY Zenon DEF BootGuard
  <2>2. peer = "none" \/ peer \in Nodes
    BY FirstOfFacts
  <2> HIDE DEF peer
  <2>3. what \in [act : Decisions, to : Nodes]
    BY <2>2, NothingDecided DEF Decisions
  <2> HIDE DEF what
  <2> QED BY <1>0, <1>1, <2>1, <2>3 DEF TaskTypes
<1> QED BY <1>2, <1>3, <1>4, TypeParts

LEMMA SyncTypes ==
  ASSUME TypeOK, NEW p \in Nodes, NEW n \in Nodes, Sync(p, n)
  PROVE  TypeOK'
<1>0. EntryTypes /\ ListTypes /\ ClockTypes /\ TaskTypes /\ WorldTypes
  BY TypeParts
<1>1. UNCHANGED <<up, role, running, booting, witFail, priFail, age, intent, op, serving,
                  links, blind, dark, booted, faults, promotes, seen>>
  BY DEF Sync, clocks, network, history
<1>2. ClockTypes' /\ TaskTypes' /\ WorldTypes'
  BY <1>0, <1>1 DEF ClockTypes, TaskTypes, WorldTypes
<1>3. EntryTypes'
  BY <1>0, <1>1, NamesAssumption DEF Sync, Teach, EntryTypes, Peers
<1>4. ListTypes'
  <2>1. replicas' = [replicas EXCEPT ![n] = replicas[p]] /\ DOMAIN replicas = Nodes
    BY <1>0 DEF Sync, Teach, ListTypes
  <2>2. DOMAIN replicas' = Nodes
        /\ \A m \in Nodes : replicas'[m] = << >> \/ \E k \in Nodes : replicas'[m] = replicas[k]
    BY <2>1
  <2>3. \A m \in Nodes : replicas'[m] \in Seq(Nodes) /\ IsInjective(replicas'[m])
    BY <1>0, <2>2, ListsHandedOn
  <2>4. replicas' \in [Nodes -> Seq(Nodes)]
    BY <2>1, <2>3
  <2> QED BY <2>3, <2>4 DEF ListTypes
<1> QED BY <1>2, <1>3, <1>4, TypeParts

LEMMA OperatorTypes ==
  ASSUME TypeOK, NEW n \in Nodes, Operator(n)
  PROVE  TypeOK'
<1>0. EntryTypes /\ ListTypes /\ ClockTypes /\ TaskTypes /\ WorldTypes
  BY TypeParts
<1>1. ClockTypes'
  <2>1. UNCHANGED <<booting, witFail, priFail, age, dark>>
    BY DEF Operator, AskPromote, HandoverStops, HandoverRefused, HandoverDone, HandoverFails,
           OperatorPromotes, clocks
  <2> QED BY <1>0, <2>1 DEF ClockTypes
<1>2. CASE AskPromote(n)
  <2>1. EntryTypes' /\ ListTypes'
    BY <1>0, <1>2 DEF AskPromote, entries, EntryTypes, ListTypes
  <2>2. WorldTypes'
    BY <1>0, <1>2, TimeAssumption DEF AskPromote, network, WorldTypes
  <2>3. primary[n] = "none" \/ primary[n] \in Nodes
    BY <1>0 DEF EntryTypes, Peers
  <2>4. TaskTypes'
    BY <1>0, <1>2, <2>3 DEF AskPromote, TaskTypes
  <2> QED BY <1>1, <2>1, <2>2, <2>4, TypeParts
<1>3. CASE HandoverStops(n)
  <2>0. op[n].to \in Nodes
    BY <1>0 DEF TaskTypes
  <2>1. EntryTypes' /\ ListTypes'
    BY <1>0, <1>3 DEF HandoverStops, entries, EntryTypes, ListTypes
  <2>2. WorldTypes'
    BY <1>0, <1>3, <2>0 DEF HandoverStops, network, history, WorldTypes
  <2>3. TaskTypes'
    BY <1>0, <1>3, <2>0 DEF HandoverStops, TaskTypes, Peers
  <2> QED BY <1>1, <2>1, <2>2, <2>3, TypeParts
<1>4. CASE HandoverRefused(n) \/ HandoverFails(n)
  <2>1. UNCHANGED <<role, stale, primary, replicas>>
    BY <1>4 DEF HandoverRefused, HandoverFails, entries
  <2>2. EntryTypes' /\ ListTypes'
    BY <1>0, <2>1 DEF EntryTypes, ListTypes
  <2>3. WorldTypes'
    <3>1. UNCHANGED <<up, running, links, blind, booted, faults, promotes>>
      BY <1>4 DEF HandoverRefused, HandoverFails, network, history
    <3>2. HandoverRefused(n) => "stuck" \in Env /\ seen' = seen \cup {"stuck"}
      BY DEF HandoverRefused
    <3>3. HandoverFails(n) => seen' = seen
      BY DEF HandoverFails, history
    <3> QED BY <1>0, <1>4, <3>1, <3>2, <3>3 DEF WorldTypes
  <2>4. TaskTypes'
    BY <1>0, <1>4 DEF HandoverRefused, HandoverFails, TaskTypes
  <2> QED BY <1>1, <2>2, <2>3, <2>4, TypeParts
<1>5. CASE HandoverDone(n)
  <2> DEFINE k == serving[n]
             lands == Reach(n, k) /\ ~ActivePrimary(k)
  <2>0. k \in Nodes
    BY <1>0, <1>5 DEF HandoverDone, TaskTypes, Peers
  <2>1. EntryTypes'
    <3>1. /\ role' = [role EXCEPT ![n] = "replica"]
          /\ stale' = [stale EXCEPT ![n] = TRUE, ![k] = IF lands THEN FALSE ELSE @]
          /\ primary' = [primary EXCEPT ![n] = k,
                           ![k] = IF lands /\ role[k] = "replica" THEN n ELSE @]
      BY <1>5 DEF HandoverDone
    <3>2. lands \in BOOLEAN
      BY DEF Reach
    <3> HIDE DEF lands, k
    <3>3. k # "none" /\ n # "none"
      BY <2>0, NamesAssumption
    <3>4. role' \in [Nodes -> {"primary", "replica"}] /\ stale' \in [Nodes -> BOOLEAN]
      BY <1>0, <2>0, <3>1, <3>2 DEF EntryTypes
    <3>5. primary' \in [Nodes -> Peers]
      BY <1>0, <2>0, <3>1 DEF EntryTypes, Peers
    <3>6. ASSUME NEW m \in Nodes PROVE role'[m] = "replica" => primary'[m] # "none"
      <4>1. m = n => primary'[m] \in {k, n}
        BY <1>0, <2>0, <3>1 DEF EntryTypes
      <4>2. m # n => role'[m] = role[m] /\ primary'[m] \in {n, primary[m]}
        BY <1>0, <2>0, <3>1 DEF EntryTypes
      <4> QED BY <1>0, <3>3, <4>1, <4>2 DEF EntryTypes
    <3> QED BY <3>4, <3>5, <3>6 DEF EntryTypes
  <2>2. ListTypes'
    <3>1. replicas' = [replicas EXCEPT ![n] = << >>, ![k] = IF lands THEN replicas[n] ELSE @]
          /\ DOMAIN replicas = Nodes
      BY <1>0, <1>5 DEF HandoverDone, ListTypes
    <3> HIDE DEF k, lands
    <3>2. DOMAIN replicas' = Nodes
          /\ \A m \in Nodes : replicas'[m] = << >> \/ \E j \in Nodes : replicas'[m] = replicas[j]
      BY <2>0, <3>1
    <3>3. \A m \in Nodes : replicas'[m] \in Seq(Nodes) /\ IsInjective(replicas'[m])
      BY <1>0, <3>2, ListsHandedOn
    <3>4. replicas' \in [Nodes -> Seq(Nodes)]
      <4>1. replicas' = [m \in Nodes |-> replicas'[m]]
        BY <3>1
      <4> QED BY <3>3, <4>1
    <3> QED BY <3>3, <3>4 DEF ListTypes
  <2>3. WorldTypes'
    BY <1>0, <1>5 DEF HandoverDone, network, history, WorldTypes
  <2>4. TaskTypes'
    <3>1. PICK st \in {"none", "ask", "wait", "promote"} :
            op' = [op EXCEPT ![k].step = st]
      <4>1. op' = [op EXCEPT ![k].step =
                     IF @ = "wait" /\ op[k].to = n /\ Reach(n, k) THEN "promote" ELSE @]
        BY <1>5 DEF HandoverDone
      <4>2. op[k].step \in {"none", "ask", "wait", "promote"}
        BY <1>0, <2>0 DEF TaskTypes
      <4> DEFINE st == IF op[k].step = "wait" /\ op[k].to = n /\ Reach(n, k) THEN "promote"
                       ELSE op[k].step
      <4>3. st \in {"none", "ask", "wait", "promote"}
        BY <4>2
      <4>4. op' = [op EXCEPT ![k].step = st]
        BY <4>1, Zenon
      <4> QED BY <4>3, <4>4
    <3>2. intent' = intent /\ serving' = [serving EXCEPT ![n] = "none"]
      BY <1>5 DEF HandoverDone
    <3> HIDE DEF k
    <3> QED BY <1>0, <2>0, <3>1, <3>2 DEF TaskTypes, Peers
  <2> QED BY <1>1, <2>1, <2>2, <2>3, <2>4, TypeParts
<1>6. CASE OperatorPromotes(n)
  <2>1. EntryTypes' /\ ListTypes' /\ running' \in [Nodes -> BOOLEAN]
    BY <1>6, PromoteLocalTypes DEF OperatorPromotes
  <2>2. WorldTypes'
    BY <1>0, <1>6, <2>1 DEF OperatorPromotes, network, history, WorldTypes
  <2>3. TaskTypes'
    BY <1>0, <1>6, NothingDecided DEF OperatorPromotes, TaskTypes
  <2> QED BY <1>1, <2>1, <2>2, <2>3, TypeParts
<1> QED BY <1>2, <1>3, <1>4, <1>5, <1>6 DEF Operator

LEMMA EnvironmentTypes ==
  ASSUME TypeOK, NEW n \in Nodes, Environment(n)
  PROVE  TypeOK'
<1>0. EntryTypes /\ ListTypes /\ ClockTypes /\ TaskTypes /\ WorldTypes
  BY TypeParts
<1>1. EntryTypes' /\ ListTypes'
  <2>1. UNCHANGED <<role, stale, primary, replicas>>
    BY DEF Environment, Isolate, Crash, Reboot, Restart, StartByHand, CutLink, entries
  <2> QED BY <1>0, <2>1 DEF EntryTypes, ListTypes
<1>2. ASSUME NEW d \in Nodes, {n, d} \in Pairs, links' = links \cup {{n, d}}
      PROVE  links' \subseteq Pairs
  BY <1>0, <1>2 DEF WorldTypes
<1>3. CASE Isolate(n)
  <2>1. ClockTypes' /\ TaskTypes'
    BY <1>0, <1>3 DEF Isolate, clocks, ClockTypes, TaskTypes
  <2>2. WorldTypes'
    BY <1>0, <1>3, TimeAssumption DEF Isolate, Fault, Seen, WorldTypes
  <2> QED BY <1>1, <2>1, <2>2, TypeParts
<1>4. CASE Crash(n)
  <2>1. ClockTypes'
    BY <1>0, <1>4, TimeAssumption DEF Crash, Forget, ClockTypes, BootTicks
  <2>2. TaskTypes'
    BY <1>0, <1>4, NothingDecided DEF Crash, Forget, TaskTypes, Peers
  <2>3. WorldTypes'
    BY <1>0, <1>4, TimeAssumption DEF Crash, Fault, Seen, network, WorldTypes
  <2> QED BY <1>1, <2>1, <2>2, <2>3, TypeParts
<1>5. CASE Reboot(n)
  <2>1. ClockTypes' /\ TaskTypes'
    BY <1>0, <1>5 DEF Reboot, clocks, ClockTypes, TaskTypes, BootTicks
  <2>2. WorldTypes'
    BY <1>0, <1>5 DEF Reboot, Seen, network, WorldTypes
  <2> QED BY <1>1, <2>1, <2>2, TypeParts
<1>6. CASE StartByHand(n)
  <2>1. ClockTypes' /\ TaskTypes'
    BY <1>0, <1>6 DEF StartByHand, clocks, ClockTypes, TaskTypes
  <2>2. WorldTypes'
    BY <1>0, <1>6, TimeAssumption DEF StartByHand, Fault, Seen, network, WorldTypes
  <2> QED BY <1>1, <2>1, <2>2, TypeParts
<1>7. ASSUME NEW m \in Nodes, CutLink(n, m) PROVE TypeOK'
  <2>1. ClockTypes' /\ TaskTypes'
    BY <1>0, <1>7 DEF CutLink, clocks, ClockTypes, TaskTypes
  <2>2. {n, m} \in Pairs
    BY <1>7 DEF CutLink, Pairs
  <2>3. links' \subseteq Pairs
    BY <1>2, <1>7, <2>2 DEF CutLink
  <2>4. WorldTypes'
    BY <1>0, <1>7, <2>3, TimeAssumption DEF CutLink, Fault, Seen, WorldTypes
  <2> QED BY <1>1, <2>1, <2>4, TypeParts
<1>8. ASSUME NEW guard \in BOOLEAN, Restart(n, guard) PROVE TypeOK'
  <2>1. ClockTypes'
    BY <1>0, <1>8, TimeAssumption DEF Restart, Forget, ClockTypes, BootTicks
  <2>2. TaskTypes'
    BY <1>0, <1>8, NothingDecided DEF Restart, Forget, TaskTypes, Peers
  <2>3. WorldTypes'
    BY <1>0, <1>8, TimeAssumption DEF Restart, Fault, Seen, network, WorldTypes
  <2> QED BY <1>1, <2>1, <2>2, <2>3, TypeParts
<1> QED BY <1>3, <1>4, <1>5, <1>6, <1>7, <1>8 DEF Environment

LEMMA TickTypes ==
  ASSUME TypeOK, Tick
  PROVE  TypeOK'
<1>0. EntryTypes /\ ListTypes /\ ClockTypes /\ TaskTypes /\ WorldTypes
  BY TypeParts
<1>1. EntryTypes' /\ ListTypes' /\ TaskTypes' /\ WorldTypes'
  BY <1>0 DEF Tick, entries, network, history, EntryTypes, ListTypes, TaskTypes, WorldTypes
<1>2. booting' \in [Nodes -> -1 .. BootTicks]
  BY <1>0 DEF Tick, Later, ClockTypes, BootTicks
<1>3. witFail' \in [Nodes -> -1 .. Fence] /\ priFail' \in [Nodes -> -1 .. FailoverAfter]
  BY <1>0, TimeAssumption DEF Tick, Later, ClockTypes
<1>4. age' \in [Nodes -> 1 - 2 * BootTicks .. PassTicks]
  BY <1>0, TimeAssumption DEF Tick, ClockTypes, WorldTypes, BootTicks
<1>5. dark' \in [Pairs -> 0 .. Window]
  <2> SUFFICES ASSUME NEW pr \in Pairs PROVE dark'[pr] \in 0 .. Window
    BY DEF Tick
  <2>1. dark[pr] \in 0 .. Window /\ Window \in Nat
    BY <1>0, TimeAssumption DEF ClockTypes
  <2>2. dark'[pr] = 0 \/ dark'[pr] = Later(dark[pr], Window)
    BY DEF Tick
  <2> QED BY <2>1, <2>2 DEF Later
<1> QED BY <1>1, <1>2, <1>3, <1>4, <1>5, TypeParts DEF ClockTypes

LEMMA TypeStep ==
  ASSUME TypeOK, [Next]_vars
  PROVE  TypeOK'
<1>1. CASE UNCHANGED vars
  <2>1. UNCHANGED <<up, role, stale, primary, replicas, running, booting, witFail, priFail, age,
                    intent, op, serving, links, blind, dark, booted, faults, promotes, seen>>
    BY <1>1 DEF vars, entries, clocks, network, history
  <2>2. EntryTypes' /\ ListTypes' /\ ClockTypes' /\ TaskTypes' /\ WorldTypes'
    BY <2>1, TypeParts DEF EntryTypes, ListTypes, ClockTypes, TaskTypes, WorldTypes
  <2> QED BY <2>2, TypeParts
<1>2. ASSUME NEW n \in Nodes, Pass(n) \/ Acts(n) \/ BootGuard(n) \/ Operator(n) \/ Environment(n)
      PROVE  TypeOK'
  BY <1>2, PassTypes, ActTypes, BootGuardTypes, OperatorTypes, EnvironmentTypes
<1>3. ASSUME NEW p \in Nodes, NEW n \in Nodes, Sync(p, n) PROVE TypeOK'
  BY <1>3, SyncTypes
<1>4. CASE Heal
  <2>1. /\ links' = {} /\ blind' = {} /\ seen' = seen \cup {"heal"}
        /\ UNCHANGED <<up, role, stale, primary, replicas, running, booting, witFail, priFail, age,
                       intent, op, serving, dark, booted, faults, promotes>>
    BY <1>4 DEF Heal, Seen, entries, clocks
  <2>2. EntryTypes' /\ ListTypes' /\ ClockTypes' /\ TaskTypes' /\ WorldTypes'
    BY <2>1, TypeParts DEF EntryTypes, ListTypes, ClockTypes, TaskTypes, WorldTypes
  <2> QED BY <2>2, TypeParts
<1>5. CASE Tick
  BY <1>5, TickTypes
<1> QED BY <1>1, <1>2, <1>3, <1>4, <1>5 DEF Next

(* The types hold for any nodes, order, times and bounds and whatever the  *)
(* environment does.  That a standby always names a primary, and a list    *)
(* names no node twice, is what the passes, the gates of a promotion and   *)
(* promote_local rely on.                                                  *)
THEOREM FailoverTypeCorrect == Spec => []TypeOK
<1>1. Init => TypeOK
  BY TypeInit
<1>2. TypeOK /\ [Next]_vars => TypeOK'
  BY TypeStep
<1> QED BY <1>1, <1>2, PTL DEF Spec

-----------------------------------------------------------------------------
(* Standbys stay idle.                                                     *)

(* Without a promotion nobody hands over, and a node that has decided to   *)
(* start is a primary: only its own monitor and boot guard change its      *)
(* role, and they do one thing at a time.                                  *)
Undisturbed ==
  promotes = 0 =>
    /\ \A n \in Nodes : op[n] = NoOp
    /\ \A n \in Nodes : serving[n] = "none"
    /\ \A n \in Nodes : intent[n].act \in {"resume", "start"} => role[n] = "primary"

IdleInv == TypeOK /\ Undisturbed /\ StandbyIdle

LEMMA IdleInit ==
  ASSUME Init
  PROVE  IdleInv
<1>1. Undisturbed
  BY DEF Init, Undisturbed, NoIntent
<1>2. StandbyIdle
  BY DEF Init, StandbyIdle
<1> QED BY <1>1, <1>2, TypeInit DEF IdleInv

(* A step of one node that leaves the roles alone and starts nothing.      *)
LEMMA QuietStep ==
  ASSUME IdleInv, promotes' = promotes, seen \subseteq seen',
         \A m \in Nodes : role'[m] = role[m],
         \A m \in Nodes : op'[m] = op[m] \/ op'[m] = NoOp,
         \A m \in Nodes : serving'[m] = serving[m] \/ serving'[m] = "none",
         \A m \in Nodes : intent'[m].act \in {"resume", "start"} =>
                            intent'[m] = intent[m] \/ role[m] = "primary",
         \A m \in Nodes : running'[m] => running[m] \/ "byhand" \in seen' \/ role[m] = "primary"
  PROVE  Undisturbed' /\ StandbyIdle'
<1>1. Undisturbed'
  BY DEF IdleInv, Undisturbed
<1>2. StandbyIdle'
  BY DEF IdleInv, StandbyIdle
<1> QED BY <1>1, <1>2

LEMMA PassIdle ==
  ASSUME IdleInv, NEW n \in Nodes, Pass(n)
  PROVE  Undisturbed' /\ StandbyIdle'
<1> DEFINE Right(what) == what.act \in {"resume", "start"} => role[n] = "primary"
<1>a. /\ Right(NoIntent) /\ Right([act |-> "stop", to |-> n])
      /\ Right([act |-> "promote", to |-> n])
  BY DEF NoIntent
<1>1. PICK what : Decide(n, what) /\ Right(what)
  <2>1. CASE role[n] = "primary"
    <3>1. \A what : Right(what)
      BY <2>1
    <3>2. \E what : Decide(n, what)
      BY DEF Pass, PassIdlePrimary, PassPrimary, PassFenced, PassStandby, PassStale
    <3> HIDE DEF Right
    <3> QED BY <3>1, <3>2
  <2>2. CASE role[n] # "primary"
    <3>1. PassStandby(n) \/ PassStale(n)
      BY <2>2 DEF Pass, PassIdlePrimary, PassPrimary, PassFenced, ActivePrimary
    <3>2. Decide(n, NoIntent) \/ Decide(n, [act |-> "stop", to |-> n])
          \/ Decide(n, [act |-> "promote", to |-> n])
      BY <3>1 DEF PassStandby, PassStale
    <3> HIDE DEF Right
    <3> QED BY <1>a, <3>2
  <2> QED BY <2>1, <2>2
<1>2. /\ intent' = [intent EXCEPT ![n] = what]
      /\ UNCHANGED <<role, running, op, serving, promotes, seen>>
  BY <1>1 DEF Decide, entries, history
<1>3. intent \in [Nodes -> [act : Decisions, to : Nodes]]
  BY TypeParts DEF IdleInv, TaskTypes
<1>4. \A m \in Nodes : intent'[m].act \in {"resume", "start"} =>
                         intent'[m] = intent[m] \/ role[m] = "primary"
  BY <1>1, <1>2, <1>3
<1> QED BY <1>2, <1>4, QuietStep

(* A node that promotes itself is a primary when it runs, one that yields  *)
(* does not run, and one that starts is a primary (Undisturbed).           *)
LEMMA ActIdle ==
  ASSUME IdleInv, NEW n \in Nodes, Acts(n)
  PROVE  Undisturbed' /\ StandbyIdle'
<1>0. EntryTypes /\ TaskTypes /\ WorldTypes
  BY TypeParts DEF IdleInv
<1>1. PICK what : Act(n, what)
  BY DEF Acts, SelfFence, FenceFails, StopFails, Supersede, Resume, StopDuplicate, AutoPromote,
         BootStart
<1>2. /\ intent' = [intent EXCEPT ![n] = NoIntent]
      /\ UNCHANGED <<op, serving, promotes>>
  BY <1>1 DEF Act
<1>3. /\ NoIntent.act = "none" /\ intent'[n] = NoIntent
      /\ \A m \in Nodes \ {n} : intent'[m] = intent[m]
  BY <1>0, <1>2 DEF TaskTypes, NoIntent
<1>4. \A m \in Nodes : intent'[m].act \in {"resume", "start"} =>
                         intent'[m] = intent[m] \/ role[m] = "primary"
  BY <1>3
<1>5. CASE SelfFence(n) \/ FenceFails(n)
  <2>1. role' = role /\ seen \subseteq seen'
    BY <1>5 DEF SelfFence, FenceFails
  <2>2. running' = [running EXCEPT ![n] = FALSE] \/ running' = running
    BY <1>5 DEF SelfFence, FenceFails
  <2>3. \A m \in Nodes : running'[m] => running[m]
    BY <1>0, <2>2 DEF WorldTypes
  <2> QED BY <1>2, <1>4, <2>1, <2>3, QuietStep
<1>6. CASE StopDuplicate(n)
  <2>1. role' = role /\ seen' = seen /\ running' = [running EXCEPT ![n] = FALSE]
    BY <1>6 DEF StopDuplicate, entries
  <2>2. \A m \in Nodes : running'[m] => running[m]
    BY <1>0, <2>1 DEF WorldTypes
  <2> QED BY <1>2, <1>4, <2>1, <2>2, QuietStep
<1>7. CASE StopFails(n)
  <2>1. role' = role /\ seen \subseteq seen' /\ running' = running
    BY <1>7 DEF StopFails, entries
  <2> QED BY <1>2, <1>4, <2>1, QuietStep
<1>8. CASE Resume(n) \/ BootStart(n)
  <2>1. /\ role' = role /\ seen' = seen /\ running' = [running EXCEPT ![n] = TRUE]
        /\ intent[n].act \in {"resume", "start"}
    BY <1>8 DEF Resume, BootStart, Act, entries
  <2>2. CASE promotes = 0
    <3>1. role[n] = "primary"
      BY <2>1, <2>2 DEF IdleInv, Undisturbed
    <3>2. \A m \in Nodes : running'[m] => running[m] \/ role[m] = "primary"
      BY <1>0, <2>1, <3>1 DEF WorldTypes
    <3> QED BY <1>2, <1>4, <2>1, <3>2, QuietStep
  <2>3. CASE promotes # 0
    BY <1>2, <2>3 DEF Undisturbed, StandbyIdle
  <2> QED BY <2>2, <2>3
<1>9. CASE Supersede(n)
  <2>1. /\ role' = [role EXCEPT ![n] = "replica"] /\ running' = [running EXCEPT ![n] = FALSE]
        /\ seen' = seen
    BY <1>9 DEF Supersede, DemoteLocal
  <2>2. Undisturbed'
    BY <1>0, <1>2, <1>3, <2>1 DEF IdleInv, Undisturbed, EntryTypes
  <2>3. ~running'[n] /\ \A m \in Nodes \ {n} : running'[m] = running[m] /\ role'[m] = role[m]
    BY <1>0, <2>1 DEF WorldTypes, EntryTypes
  <2>4. StandbyIdle'
    BY <1>2, <2>1, <2>3 DEF IdleInv, StandbyIdle
  <2> QED BY <2>2, <2>4
<1>10. CASE AutoPromote(n)
  <2>1. seen' = seen
    BY <1>10 DEF AutoPromote
  <2>2. CASE ActivePrimary(n)
    <3>1. role' = role /\ running' = running
      BY <1>10, <2>2 DEF AutoPromote, PromoteLocal, entries
    <3> QED BY <1>2, <1>4, <2>1, <3>1, QuietStep
  <2>3. CASE ~ActivePrimary(n)
    <3>1. /\ role' = [role EXCEPT ![n] = "primary"] /\ running' = [running EXCEPT ![n] = TRUE]
      BY <1>10, <2>3 DEF AutoPromote, PromoteLocal
    <3>2. role'[n] = "primary"
          /\ \A m \in Nodes \ {n} : running'[m] = running[m] /\ role'[m] = role[m]
      BY <1>0, <3>1 DEF WorldTypes, EntryTypes
    <3>3. Undisturbed'
      BY <1>2, <1>3, <3>2 DEF IdleInv, Undisturbed
    <3>4. StandbyIdle'
      BY <1>2, <2>1, <3>2 DEF IdleInv, StandbyIdle
    <3> QED BY <3>3, <3>4
  <2> QED BY <2>2, <2>3
<1> QED BY <1>5, <1>6, <1>7, <1>8, <1>9, <1>10 DEF Acts

LEMMA BootGuardIdle ==
  ASSUME IdleInv, NEW n \in Nodes, BootGuard(n)
  PROVE  Undisturbed' /\ StandbyIdle'
<1>0. TaskTypes
  BY TypeParts DEF IdleInv
<1>1. UNCHANGED <<role, running, op, serving, promotes, seen>>
  BY DEF BootGuard, entries, history
<1>2. \A m \in Nodes \ {n} : intent'[m] = intent[m]
  BY <1>0 DEF BootGuard, TaskTypes
<1>3. intent'[n].act \in {"resume", "start"} => role[n] = "primary"
  <2>1. CASE role[n] = "primary"
    BY <2>1
  <2>2. CASE role[n] # "primary"
    <3>1. intent'[n] = NoIntent
      BY <1>0, <2>2 DEF BootGuard, ActivePrimary, TaskTypes
    <3> QED BY <3>1 DEF NoIntent
  <2> QED BY <2>1, <2>2
<1> QED BY <1>1, <1>2, <1>3, QuietStep

LEMMA EnvironmentIdle ==
  ASSUME IdleInv, NEW n \in Nodes, Environment(n)
  PROVE  Undisturbed' /\ StandbyIdle'
<1>0. TaskTypes /\ WorldTypes
  BY TypeParts DEF IdleInv
<1>1. promotes' = promotes /\ role' = role /\ seen \subseteq seen'
  BY DEF Environment, Isolate, Crash, Reboot, Restart, StartByHand, CutLink, Fault, Seen, entries
<1>2. ASSUME Forget(n)
      PROVE  /\ \A m \in Nodes : op'[m] = op[m] \/ op'[m] = NoOp
             /\ \A m \in Nodes : serving'[m] = serving[m] \/ serving'[m] = "none"
             /\ \A m \in Nodes : intent'[m].act \in {"resume", "start"} =>
                                   intent'[m] = intent[m] \/ role[m] = "primary"
  <2>1. /\ \A m \in Nodes : op'[m] = op[m] \/ op'[m] = NoOp
        /\ \A m \in Nodes : serving'[m] = serving[m] \/ serving'[m] = "none"
    BY <1>0, <1>2 DEF Forget, TaskTypes
  <2>2. \A m \in Nodes : intent'[m] = intent[m] \/ intent'[m] = NoIntent
    BY <1>0, <1>2 DEF Forget, TaskTypes
  <2> QED BY <2>1, <2>2 DEF NoIntent
<1>3. CASE Isolate(n) \/ Reboot(n) \/ \E m \in Nodes : CutLink(n, m)
  <2>1. UNCHANGED <<running, op, serving, intent>>
    BY <1>3 DEF Isolate, Reboot, CutLink
  <2> QED BY <1>1, <2>1, QuietStep
<1>4. CASE Crash(n)
  <2>1. running' = [running EXCEPT ![n] = FALSE] /\ Forget(n)
    BY <1>4 DEF Crash
  <2>2. \A m \in Nodes : running'[m] => running[m]
    BY <1>0, <2>1 DEF WorldTypes
  <2> QED BY <1>1, <1>2, <2>1, <2>2, QuietStep
<1>5. ASSUME NEW guard \in BOOLEAN, Restart(n, guard) PROVE Undisturbed' /\ StandbyIdle'
  <2>1. running' = running /\ Forget(n)
    BY <1>5 DEF Restart
  <2> QED BY <1>1, <1>2, <2>1, QuietStep
<1>6. CASE StartByHand(n)
  <2>1. "byhand" \in seen' /\ UNCHANGED <<op, serving, intent>>
    BY <1>6 DEF StartByHand, Fault, Seen
  <2> QED BY <1>1, <2>1, QuietStep
<1> QED BY <1>3, <1>4, <1>5, <1>6 DEF Environment

(* Once somebody asks for a promotion nothing is claimed; before, no step  *)
(* of one is under way.                                                    *)
LEMMA OperatorIdle ==
  ASSUME IdleInv, NEW n \in Nodes, Operator(n)
  PROVE  Undisturbed' /\ StandbyIdle'
<1>0. promotes \in Nat
  BY TypeParts, TimeAssumption DEF IdleInv, WorldTypes
<1>1. CASE AskPromote(n)
  <2>1. promotes' # 0
    BY <1>0, <1>1 DEF AskPromote
  <2> QED BY <2>1 DEF Undisturbed, StandbyIdle
<1>2. CASE ~AskPromote(n)
  <2>1. op[n] # NoOp \/ serving[n] # "none"
    <3>1. HandoverStops(n) \/ HandoverRefused(n) \/ HandoverFails(n) \/ OperatorPromotes(n) =>
            op[n].step # "none"
      BY DEF HandoverStops, HandoverRefused, HandoverFails, OperatorPromotes
    <3>2. HandoverDone(n) => serving[n] # "none"
      BY DEF HandoverDone
    <3>3. NoOp.step = "none"
      BY DEF NoOp
    <3> QED BY <1>2, <3>1, <3>2, <3>3 DEF Operator
  <2>2. promotes # 0
    BY <2>1 DEF IdleInv, Undisturbed
  <2>3. promotes' = promotes
    BY <1>2 DEF Operator, HandoverStops, HandoverRefused, HandoverDone, HandoverFails,
                OperatorPromotes, history
  <2> QED BY <2>2, <2>3 DEF Undisturbed, StandbyIdle
<1> QED BY <1>1, <1>2

LEMMA IdleStep ==
  ASSUME IdleInv, [Next]_vars
  PROVE  IdleInv'
<1>1. TypeOK'
  BY TypeStep DEF IdleInv
<1>2. Undisturbed' /\ StandbyIdle'
  <2>1. ASSUME NEW n \in Nodes, Pass(n) \/ Acts(n) \/ BootGuard(n) \/ Operator(n) \/ Environment(n)
        PROVE  Undisturbed' /\ StandbyIdle'
    BY <2>1, PassIdle, ActIdle, BootGuardIdle, OperatorIdle, EnvironmentIdle
  <2>2. ASSUME NEW p \in Nodes, NEW n \in Nodes, Sync(p, n) PROVE Undisturbed' /\ StandbyIdle'
    <3>1. UNCHANGED <<role, running, op, serving, intent, promotes, seen>>
      BY <2>2 DEF Sync, history
    <3> QED BY <3>1, QuietStep
  <2>3. CASE Heal
    <3>1. UNCHANGED <<role, running, op, serving, intent, promotes>> /\ seen \subseteq seen'
      BY <2>3 DEF Heal, Seen, entries
    <3> QED BY <3>1, QuietStep
  <2>4. CASE Tick
    <3>1. UNCHANGED <<role, running, op, serving, intent, promotes, seen>>
      BY <2>4 DEF Tick, entries, history
    <3> QED BY <3>1, QuietStep
  <2>5. CASE UNCHANGED vars
    <3>1. UNCHANGED <<role, running, op, serving, intent, promotes, seen>>
      BY <2>5 DEF vars, entries, history
    <3> QED BY <3>1, QuietStep
  <2> QED BY <2>1, <2>2, <2>3, <2>4, <2>5 DEF Next
<1> QED BY <1>1, <1>2 DEF IdleInv

(* As long as no operator promotes a node and nobody starts a copy by      *)
(* hand, no standby runs, for any nodes, succession order and times and    *)
(* however many crashes, restarts and partitions: the monitor and the boot *)
(* guard start a copy only on a node that is primary by then.              *)
THEOREM StandbysStayIdle == Spec => []StandbyIdle
<1>1. Init => IdleInv
  BY IdleInit
<1>2. IdleInv /\ [Next]_vars => IdleInv'
  BY IdleStep
<1>3. IdleInv => StandbyIdle
  BY DEF IdleInv
<1> QED BY <1>1, <1>2, <1>3, PTL DEF Spec
=============================================================================
