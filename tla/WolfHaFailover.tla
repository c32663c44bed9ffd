---------------------------- MODULE WolfHaFailover ----------------------------
(***************************************************************************)
(* Who runs a WolfHA-protected container: automatic failover               *)
(* (wolfha::failover_monitor_forever), the boot guard and the operator's   *)
(* promotion.                                                              *)
(*                                                                         *)
(* There is no quorum.  Every node holds its own entry (role, stale flag,  *)
(* who it believes is the primary, the ordered replica list) and acts on   *)
(* what it can reach: the other nodes' status, a witness IP and the        *)
(* container's own IP.  Safety rests on time: a primary without its        *)
(* witness stops itself after Fence ticks, a standby waits FailoverAfter.  *)
(*                                                                         *)
(* Time is counted in monitor cycles of 15 seconds.  A pass of a node's    *)
(* monitor reads first and acts at the end, with network calls in between, *)
(* so it is two steps: one that decides (intent) and one that acts.        *)
(*                                                                         *)
(* Env names what the environment may do:                                  *)
(*   "crash"      a machine dies, and may boot again                       *)
(*   "restart"    WolfStack alone is restarted; the container runs on      *)
(*   "isolation"  a node is cut off from the witness and all other nodes   *)
(*   "partial"    single links are cut, not only whole nodes               *)
(*   "stuck"      a container refuses to stop                              *)
(*   "byhand"     somebody starts a standby outside WolfStack              *)
(* Any of it may come between a decision and its act, and passes of        *)
(* different nodes overlap in any way.                                     *)
(***************************************************************************)
EXTENDS Integers, Sequences, FiniteSets, SequencesExt

CONSTANTS
  Nodes,          \* the nodes that hold a copy
  Order,          \* the succession order: the replica list at enable time
  Home,           \* the primary at enable time
  FailoverAfter,  \* failover_after_secs, in monitor cycles
  Fence,          \* fence_secs(failover_after), in monitor cycles
  Window,         \* the cluster registry's online window, in cycles
  PassTicks,      \* bound: cycles between two passes of one node's monitor
  MaxFaults,      \* bound: partitions, crashes, service restarts
  MaxPromotes,    \* bound: promotions asked for by the operator
  MaxEvents,      \* bound: faults and promotions together
  Env             \* see above

ASSUME OrderAssumption ==
  /\ Home \in Nodes
  /\ Order \in Seq(Nodes \ {Home}) /\ IsInjective(Order) /\ Range(Order) = Nodes \ {Home}
ASSUME NamesAssumption == "none" \notin Nodes
ASSUME TimeAssumption ==
  /\ {FailoverAfter, Fence, Window, PassTicks} \subseteq Nat \ {0}
  /\ {MaxFaults, MaxPromotes, MaxEvents} \subseteq Nat

VARIABLES
  up,        \* the machine is powered
  role,      \* HaEntry.role
  stale,     \* HaEntry.stale
  primary,   \* HaEntry.primary; "none" on a primary
  replicas,  \* HaEntry.replicas
  running,   \* the container runs on the node
  booting,   \* cycles since the machine booting; -1 once the boot guard ran
  witFail,   \* the clock "witness:<c>" of FAIL_SINCE; -1 when not failing
  priFail,   \* the clock "primary:<c>"; -1 when not failing
  age,       \* cycles since the node's last monitor pass
  intent,    \* what the monitor pass has decided
  op,        \* the operator's promotion task on the node
  serving,   \* the promoting peer this node is handing over to, or "none"
  links,     \* the pairs of nodes that cannot reach each other
  blind,     \* the nodes that cannot reach the witness
  dark,      \* cycles since the two nodes of a pair last polled each other
  booted,    \* the machines that booted, perhaps within the last 10 minutes
  faults,    \* faults so far
  promotes,  \* operator promotions so far
  seen       \* history: what the environment has done

entries == <<role, stale, primary, replicas>>
clocks == <<witFail, priFail>>
network == <<links, blind>>
history == <<faults, promotes, seen>>
vars == <<up, entries, running, booting, clocks, age, intent, op, serving,
          network, dark, booted, history>>

Pairs == {{n, m} : n \in Nodes, m \in Nodes} \ {{n} : n \in Nodes}
NoIntent == [act |-> "none", to |-> Home]
NoOp == [step |-> "none", to |-> Home]

Init ==
  /\ up = [n \in Nodes |-> TRUE]
  /\ role = [n \in Nodes |-> IF n = Home THEN "primary" ELSE "replica"]
  /\ stale = [n \in Nodes |-> FALSE]
  /\ primary = [n \in Nodes |-> IF n = Home THEN "none" ELSE Home]
  /\ replicas = [n \in Nodes |-> Order]
  /\ running = [n \in Nodes |-> n = Home]
  /\ booting = [n \in Nodes |-> -1]
  /\ witFail = [n \in Nodes |-> -1]
  /\ priFail = [n \in Nodes |-> -1]
  /\ age = [n \in Nodes |-> 0]
  /\ intent = [n \in Nodes |-> NoIntent]
  /\ op = [n \in Nodes |-> NoOp]
  /\ serving = [n \in Nodes |-> "none"]
  /\ links = {} /\ blind = {}
  /\ dark = [pr \in Pairs |-> 0]
  /\ booted = {} /\ seen = {}
  /\ faults = 0 /\ promotes = 0

-----------------------------------------------------------------------------
ActivePrimary(n) == role[n] = "primary" /\ ~stale[n]

(* peer_status: the peer's service answers.                                *)
Reach(n, m) == up[n] /\ up[m] /\ {n, m} \notin links

(* ping_host on the witness.                                               *)
Witness(n) == n \notin blind

(* The container's own address answers on the bridge.                      *)
Answers(n) == \E m \in Nodes : running[m] /\ (m = n \/ Reach(n, m))

(* The peers that run the container or call themselves primary.            *)
Claimants == {m \in Nodes : running[m] \/ role[m] = "primary"}

(* The first peer of n's list that answers and is one of S.                *)
FirstOf(n, S) ==
  LET i == SelectInSeq(replicas[n], LAMBDA m : Reach(n, m) /\ m \in S)
  IN IF i = 0 THEN "none" ELSE replicas[n][i]

-----------------------------------------------------------------------------
(* The monitor: what a pass decides.                                       *)

(* A pass over an entry that needs nothing, or that has decided to act.    *)
Decide(n, what) ==
  /\ age' = [age EXCEPT ![n] = 0]
  /\ intent' = [intent EXCEPT ![n] = what]
  /\ UNCHANGED <<up, entries, running, booting, op, serving, network, dark, booted, history>>

PassDue(n) ==
  /\ up[n] /\ booting[n] = -1 /\ age[n] > 0 /\ intent[n] = NoIntent

Started(clock) == IF clock = -1 THEN 0 ELSE clock

(* The primary's own container does not run: a peer may have taken over.   *)
PassIdlePrimary(n) ==
  /\ PassDue(n) /\ ActivePrimary(n) /\ ~running[n]
  /\ LET peer == FirstOf(n, {m \in Nodes : running[m] /\ role[m] = "primary"})
     IN Decide(n, IF peer = "none" THEN NoIntent ELSE [act |-> "demote", to |-> peer])
  /\ witFail' = [witFail EXCEPT ![n] = -1]
  /\ UNCHANGED priFail

(* Mutant: every failed ping of the witness starts the clock anew.         *)
PassPrimaryForgetful(n) ==
  /\ PassDue(n) /\ ActivePrimary(n) /\ running[n]
  /\ witFail' = [witFail EXCEPT ![n] = IF Witness(n) THEN -1 ELSE 0]
  /\ Decide(n, IF /\ ~Witness(n) /\ witFail'[n] >= Fence
                  /\ \A m \in Range(replicas[n]) : ~Reach(n, m)
               THEN [act |-> "fence", to |-> n] ELSE NoIntent)
  /\ UNCHANGED priFail

(* A running primary fences itself when the witness is gone long enough    *)
(* and no replica answers either.                                          *)
PassPrimary(n) ==
  /\ PassDue(n) /\ ActivePrimary(n) /\ running[n]
  /\ witFail' = [witFail EXCEPT ![n] = IF Witness(n) THEN -1 ELSE Started(@)]
  /\ Decide(n, IF /\ ~Witness(n) /\ witFail'[n] >= Fence
                  /\ \A m \in Range(replicas[n]) : ~Reach(n, m)
               THEN [act |-> "fence", to |-> n] ELSE NoIntent)
  /\ UNCHANGED priFail

(* Mutant: a fenced primary only ever yields.                              *)
PassFencedWaits(n) ==
  /\ PassDue(n) /\ role[n] = "primary" /\ stale[n]
  /\ LET peer == FirstOf(n, Claimants)
     IN Decide(n, IF ~Witness(n) \/ peer = "none" THEN NoIntent
                  ELSE [act |-> "demote", to |-> peer])
  /\ UNCHANGED clocks

(* A fenced primary that sees its witness again: a peer has taken over, or *)
(* every replica answers and none has.                                     *)
PassFenced(n) ==
  /\ PassDue(n) /\ role[n] = "primary" /\ stale[n]
  /\ LET peer == FirstOf(n, Claimants)
     IN Decide(n,
          IF ~Witness(n) THEN NoIntent
          ELSE IF peer # "none" THEN [act |-> "demote", to |-> peer]
          ELSE IF \A m \in Range(replicas[n]) : Reach(n, m)
                 THEN [act |-> "resume", to |-> n] ELSE NoIntent)
  /\ UNCHANGED clocks

(* Peers listed before n that answer and are primary or fresh.             *)
Healthier(n) ==
  {m \in Range(replicas[n]) \ {n, primary[n]} :
     /\ \A i, j \in 1 .. Len(replicas[n]) :
          replicas[n][i] = m /\ replicas[n][j] = n => i < j
     /\ Reach(n, m) /\ (role[m] = "primary" \/ ~stale[m])}

(* The gates of a promotion: witness, registry, priority, bridge.  The     *)
(* freshness gate passes: no behaviour here is half an hour long.          *)
Gates(n) ==
  /\ Witness(n)
  /\ dark[{n, primary[n]}] >= Window
  /\ Healthier(n) = {}
  /\ ~Answers(n)

(* Mutant: a standby that runs is left alone.                              *)
PassStandbyIgnoresDuplicate(n) ==
  /\ PassDue(n) /\ role[n] = "replica" /\ ~stale[n]
  /\ IF running[n]
       THEN Decide(n, NoIntent) /\ UNCHANGED priFail
       ELSE /\ priFail' = [priFail EXCEPT ![n] =
                             IF Reach(n, primary[n]) THEN -1 ELSE Started(@)]
            /\ Decide(n, IF priFail'[n] >= FailoverAfter /\ Gates(n)
                           THEN [act |-> "promote", to |-> n] ELSE NoIntent)
  /\ UNCHANGED witFail

PassStandby(n) ==
  /\ PassDue(n) /\ role[n] = "replica" /\ ~stale[n]
  /\ IF running[n]
       THEN /\ Decide(n, IF Reach(n, primary[n]) /\ running[primary[n]]
                           THEN [act |-> "stop", to |-> n] ELSE NoIntent)
            /\ UNCHANGED priFail
       ELSE /\ priFail' = [priFail EXCEPT ![n] =
                             IF Reach(n, primary[n]) THEN -1 ELSE Started(@)]
            /\ Decide(n, IF priFail'[n] >= FailoverAfter /\ Gates(n)
                           THEN [act |-> "promote", to |-> n] ELSE NoIntent)
  /\ UNCHANGED witFail

PassStale(n) ==
  /\ PassDue(n) /\ role[n] = "replica" /\ stale[n]
  /\ Decide(n, NoIntent) /\ UNCHANGED clocks

-----------------------------------------------------------------------------
(* The monitor: what a pass does.                                          *)

(* Mutant: the demoted node does not record whose replica it is.           *)
DemoteToNobody(n, to) ==
  /\ running' = [running EXCEPT ![n] = FALSE]
  /\ role' = [role EXCEPT ![n] = "replica"]
  /\ stale' = [stale EXCEPT ![n] = TRUE]
  /\ replicas' = [replicas EXCEPT ![n] = << >>]
  /\ UNCHANGED primary

(* demote_local                                                            *)
DemoteLocal(n, to) ==
  /\ running' = [running EXCEPT ![n] = FALSE]
  /\ role' = [role EXCEPT ![n] = "replica"]
  /\ stale' = [stale EXCEPT ![n] = TRUE]
  /\ primary' = [primary EXCEPT ![n] = to]
  /\ replicas' = [replicas EXCEPT ![n] = << >>]

(* promote_local: the old primary joins the replica list, this node leaves *)
(* it.  A list names a node once (TypeOK), so one removal is all.          *)
PromoteLocal(n) ==
  IF ActivePrimary(n) THEN UNCHANGED <<entries, running>>
  ELSE
    /\ running' = [running EXCEPT ![n] = TRUE]
    /\ role' = [role EXCEPT ![n] = "primary"]
    /\ stale' = [stale EXCEPT ![n] = FALSE]
    /\ primary' = [primary EXCEPT ![n] = "none"]
    /\ replicas' = [replicas EXCEPT ![n] =
         RemoveFirst(IF primary[n] \in {"none"} \cup Range(@) THEN @ ELSE Append(@, primary[n]), n)]

Act(n, what) ==
  /\ up[n] /\ intent[n].act = what
  /\ intent' = [intent EXCEPT ![n] = NoIntent]
  /\ UNCHANGED <<up, booting, age, op, serving, network, dark, booted, faults, promotes>>

SelfFence(n) ==
  /\ Act(n, "fence")
  /\ running' = [running EXCEPT ![n] = FALSE]
  /\ stale' = [stale EXCEPT ![n] = TRUE]
  /\ witFail' = [witFail EXCEPT ![n] = -1]
  /\ UNCHANGED <<role, primary, replicas, priFail, seen>>

(* The container does not stop.  The node counts itself fenced all the     *)
(* same.                                                                   *)
FenceFails(n) ==
  /\ "stuck" \in Env /\ running[n]
  /\ Act(n, "fence")
  /\ stale' = [stale EXCEPT ![n] = TRUE]
  /\ witFail' = [witFail EXCEPT ![n] = -1]
  /\ seen' = seen \cup {"stuck"}
  /\ UNCHANGED <<role, primary, replicas, running, priFail>>

Supersede(n) ==
  /\ Act(n, "demote")
  /\ DemoteLocal(n, intent[n].to)
  /\ UNCHANGED <<clocks, seen>>

Resume(n) ==
  /\ Act(n, "resume")
  /\ stale' = [stale EXCEPT ![n] = FALSE]
  /\ running' = [running EXCEPT ![n] = TRUE]
  /\ UNCHANGED <<role, primary, replicas, clocks, seen>>

StopDuplicate(n) ==
  /\ Act(n, "stop")
  /\ running' = [running EXCEPT ![n] = FALSE]
  /\ UNCHANGED <<entries, clocks, seen>>

(* The container does not stop: demote_local gives up before it has        *)
(* changed the entry, and a duplicate runs on until the next pass.         *)
StopFails(n) ==
  /\ "stuck" \in Env /\ running[n]
  /\ Act(n, "demote") \/ Act(n, "stop")
  /\ seen' = seen \cup {"stuck"}
  /\ UNCHANGED <<entries, running, clocks>>

AutoPromote(n) ==
  /\ Act(n, "promote")
  /\ PromoteLocal(n)
  /\ priFail' = [priFail EXCEPT ![n] = -1]
  /\ UNCHANGED <<witFail, seen>>

-----------------------------------------------------------------------------
(* The boot guard, 30 seconds after a machine boot: an active primary      *)
(* yields to a peer that runs the container or calls itself primary, else  *)
(* it starts, also when its replicas are unreachable.  The monitor's first *)
(* pass comes 30 seconds later.                                            *)
BootTicks == 2

(* Mutant: the guard starts whatever is not running.                       *)
BootGuardStartsAll(n) ==
  /\ up[n] /\ booting[n] = BootTicks /\ intent[n] = NoIntent
  /\ booting' = [booting EXCEPT ![n] = -1]
  /\ age' = [age EXCEPT ![n] = -1]
  /\ LET peer == FirstOf(n, Claimants)
     IN intent' = [intent EXCEPT ![n] =
          IF running[n] THEN NoIntent
          ELSE IF peer # "none" THEN [act |-> "demote", to |-> peer]
          ELSE [act |-> "start", to |-> n]]
  /\ UNCHANGED <<up, entries, running, clocks, op, serving, network, dark, booted, history>>

BootGuard(n) ==
  /\ up[n] /\ booting[n] = BootTicks /\ intent[n] = NoIntent
  /\ booting' = [booting EXCEPT ![n] = -1]
  /\ age' = [age EXCEPT ![n] = -1]
  /\ LET peer == FirstOf(n, Claimants)
     IN intent' = [intent EXCEPT ![n] =
          IF ~ActivePrimary(n) \/ running[n] THEN NoIntent
          ELSE IF peer # "none" THEN [act |-> "demote", to |-> peer]
          ELSE [act |-> "start", to |-> n]]
  /\ UNCHANGED <<up, entries, running, clocks, op, serving, network, dark, booted, history>>

BootStart(n) ==
  /\ Act(n, "start")
  /\ running' = [running EXCEPT ![n] = TRUE]
  /\ UNCHANGED <<entries, clocks, seen>>

(* A delta round reaches a replica, or a fenced primary: it is fresh again *)
(* and takes over the sender's replica list, and a replica who the primary *)
(* is.                                                                     *)
Teach(p, n) ==
  /\ stale' = [stale EXCEPT ![n] = FALSE]
  /\ replicas' = [replicas EXCEPT ![n] = replicas[p]]
  /\ primary' = [primary EXCEPT ![n] = IF role[n] = "replica" THEN p ELSE @]

Sync(p, n) ==
  /\ up[p] /\ booting[p] = -1 /\ ActivePrimary(p) /\ n \in Range(replicas[p])
  /\ Reach(p, n) /\ ~ActivePrimary(n)
  /\ Teach(p, n)
  /\ UNCHANGED <<up, role, running, booting, clocks, age, intent, op, serving,
                 network, dark, booted, history>>

-----------------------------------------------------------------------------
(* The operator promotes node n: wolfha_promote asks the primary n knows   *)
(* to hand over (wolfha_demote) and promotes n whatever the answer is.     *)

AskPromote(n) ==
  /\ up[n] /\ ~ActivePrimary(n) /\ op[n] = NoOp
  /\ promotes < MaxPromotes /\ faults + promotes < MaxEvents
  /\ promotes' = promotes + 1
  /\ seen' = seen \cup {"promote"}
  /\ op' = [op EXCEPT ![n] = IF primary[n] = "none" THEN [step |-> "promote", to |-> n]
                             ELSE [step |-> "ask", to |-> primary[n]]]
  /\ UNCHANGED <<up, entries, running, booting, clocks, age, intent, serving,
                 network, dark, booted, faults>>

(* The asked node stops its container before anything else.                *)
HandoverStops(n) ==
  /\ up[n] /\ op[n].step = "ask" /\ Reach(n, op[n].to)
  /\ LET q == op[n].to IN
       /\ running' = [running EXCEPT ![q] = FALSE]
       /\ serving' = [serving EXCEPT ![q] = n]
  /\ op' = [op EXCEPT ![n].step = "wait"]
  /\ UNCHANGED <<up, entries, booting, clocks, age, intent, network, dark, booted, history>>

(* Its container does not stop: wolfha_demote answers with an error and    *)
(* nothing has changed.  The promoting node goes on.                       *)
HandoverRefused(n) ==
  /\ "stuck" \in Env
  /\ up[n] /\ op[n].step = "ask" /\ Reach(n, op[n].to) /\ running[op[n].to]
  /\ op' = [op EXCEPT ![n].step = "promote"]
  /\ seen' = seen \cup {"stuck"}
  /\ UNCHANGED <<up, entries, running, booting, clocks, age, intent, serving,
                 network, dark, booted, faults, promotes>>

(* A final delta to the promoting node if it can be reached, then          *)
(* demote_local.                                                           *)
HandoverDone(q) ==
  /\ up[q] /\ serving[q] # "none"
  /\ LET n == serving[q]
         lands == Reach(q, n) /\ ~ActivePrimary(n)
     IN /\ running' = [running EXCEPT ![q] = FALSE]
        /\ role' = [role EXCEPT ![q] = "replica"]
        /\ stale' = [stale EXCEPT ![q] = TRUE, ![n] = IF lands THEN FALSE ELSE @]
        /\ primary' = [primary EXCEPT ![q] = n,
                          ![n] = IF lands /\ role[n] = "replica" THEN q ELSE @]
        /\ replicas' = [replicas EXCEPT ![q] = << >>,
                          ![n] = IF lands THEN replicas[q] ELSE @]
        /\ op' = [op EXCEPT ![n].step =
                    IF @ = "wait" /\ op[n].to = q /\ Reach(q, n) THEN "promote" ELSE @]
  /\ serving' = [serving EXCEPT ![q] = "none"]
  /\ UNCHANGED <<up, booting, clocks, age, intent, network, dark, booted, history>>

(* The request fails: it is tried again while the node can be reached, and *)
(* then the promotion goes on without a handover.                          *)
HandoverFails(n) ==
  /\ up[n]
  /\ \/ /\ op[n].step = "wait"
        /\ serving[op[n].to] # n \/ ~Reach(n, op[n].to)
        /\ op' = [op EXCEPT ![n].step = "ask"]
     \/ /\ op[n].step = "ask" /\ ~Reach(n, op[n].to)
        /\ op' = [op EXCEPT ![n].step = "promote"]
  /\ UNCHANGED <<up, entries, running, booting, clocks, age, intent, serving,
                 network, dark, booted, history>>

OperatorPromotes(n) ==
  /\ up[n] /\ op[n].step = "promote"
  /\ PromoteLocal(n)
  /\ op' = [op EXCEPT ![n] = NoOp]
  /\ UNCHANGED <<up, booting, clocks, age, intent, serving, network, dark, booted, history>>

-----------------------------------------------------------------------------
(* The environment.                                                        *)

Seen(kind) == seen' = seen \cup {kind}

Fault(kind) ==
  /\ kind \in Env
  /\ faults < MaxFaults /\ faults + promotes < MaxEvents
  /\ faults' = faults + 1 /\ UNCHANGED promotes
  /\ Seen(kind)

(* A clean partition: the node loses the witness and every other node.     *)
Isolate(n) ==
  /\ Fault("isolation") /\ n \notin blind
  /\ blind' = blind \cup {n}
  /\ links' = links \cup {pr \in Pairs : n \in pr}
  /\ UNCHANGED <<up, entries, running, booting, clocks, age, intent, op, serving,
                 dark, booted>>

(* A partial one: the node loses the witness and one of its links.         *)
CutLink(n, m) ==
  /\ Fault("partial") /\ n # m
  /\ blind' = blind \cup {n}
  /\ links' = links \cup {{n, m}}
  /\ UNCHANGED <<up, entries, running, booting, clocks, age, intent, op, serving,
                 dark, booted>>

Heal ==
  /\ links \cup blind # {}
  /\ links' = {} /\ blind' = {}
  /\ Seen("heal")
  /\ UNCHANGED <<up, entries, running, booting, clocks, age, intent, op, serving,
                 dark, booted, faults, promotes>>

(* What a node's service had in memory is lost: FAIL_SINCE, the pass under *)
(* way, the promotion and the handover it was busy with.                   *)
Forget(n) ==
  /\ witFail' = [witFail EXCEPT ![n] = -1]
  /\ priFail' = [priFail EXCEPT ![n] = -1]
  /\ intent' = [intent EXCEPT ![n] = NoIntent]
  /\ op' = [op EXCEPT ![n] = NoOp]
  /\ serving' = [serving EXCEPT ![n] = "none"]

(* The machine dies.                                                       *)
Crash(n) ==
  /\ up[n] /\ Fault("crash")
  /\ up' = [up EXCEPT ![n] = FALSE]
  /\ running' = [running EXCEPT ![n] = FALSE]
  /\ booting' = [booting EXCEPT ![n] = -1]
  /\ age' = [age EXCEPT ![n] = 0]
  /\ Forget(n)
  /\ UNCHANGED <<entries, network, dark, booted>>

(* WolfStack is restarted on a machine that goes on running.  The guard    *)
(* acts (again) within 10 minutes of the machine's boot; the monitor's     *)
(* first pass comes a minute after the start.                              *)
Restart(n, guard) ==
  /\ up[n] /\ Fault("restart")
  /\ guard => n \in booted
  /\ booting[n] # -1 => guard
  /\ booting' = [booting EXCEPT ![n] = IF guard THEN 0 ELSE -1]
  /\ age' = [age EXCEPT ![n] = IF guard THEN 0 ELSE 1 - 2 * BootTicks]
  /\ Forget(n)
  /\ UNCHANGED <<up, running, entries, network, dark, booted>>

(* lxc-start on the node's own command line; WolfStack's start operations  *)
(* refuse a standby (container_lifecycle_guard).                           *)
StartByHand(n) ==
  /\ Fault("byhand")
  /\ up[n] /\ role[n] = "replica" /\ ~running[n]
  /\ running' = [running EXCEPT ![n] = TRUE]
  /\ UNCHANGED <<up, entries, booting, clocks, age, intent, op, serving, network,
                 dark, booted>>

Reboot(n) ==
  /\ ~up[n]
  /\ up' = [up EXCEPT ![n] = TRUE]
  /\ booting' = [booting EXCEPT ![n] = 0]
  /\ booted' = booted \cup {n}
  /\ Seen("reboot")
  /\ UNCHANGED <<entries, running, clocks, age, intent, op, serving, network,
                 dark, faults, promotes>>

(* A monitor cycle goes by.  Every monitor passes within PassTicks cycles, *)
(* and has acted upon a pass before the next.                              *)
Later(clock, most) == IF clock = -1 \/ clock = most THEN clock ELSE clock + 1

Tick ==
  /\ \A n \in Nodes : up[n] => age[n] < PassTicks /\ booting[n] < BootTicks
  /\ age' = [n \in Nodes |-> IF up[n] /\ booting[n] = -1 THEN age[n] + 1 ELSE 0]
  /\ booting' = [n \in Nodes |-> Later(booting[n], BootTicks)]
  /\ witFail' = [n \in Nodes |-> Later(witFail[n], Fence)]
  /\ priFail' = [n \in Nodes |-> Later(priFail[n], FailoverAfter)]
  /\ dark' = [pr \in Pairs |->
       IF pr \notin links /\ (\A n \in pr : up[n]) THEN 0 ELSE Later(dark[pr], Window)]
  /\ UNCHANGED <<up, entries, running, intent, op, serving, network, booted, history>>

-----------------------------------------------------------------------------
Pass(n) == PassIdlePrimary(n) \/ PassPrimary(n) \/ PassFenced(n) \/ PassStandby(n) \/ PassStale(n)
Acts(n) == SelfFence(n) \/ FenceFails(n) \/ Supersede(n) \/ Resume(n) \/ StopDuplicate(n)
           \/ StopFails(n) \/ AutoPromote(n) \/ BootStart(n)
Operator(n) ==
  \/ AskPromote(n) \/ HandoverStops(n) \/ HandoverRefused(n) \/ HandoverDone(n)
  \/ HandoverFails(n) \/ OperatorPromotes(n)
Environment(n) ==
  \/ Isolate(n) \/ Crash(n) \/ Reboot(n) \/ StartByHand(n)
  \/ \E m \in Nodes : CutLink(n, m)
  \/ \E guard \in BOOLEAN : Restart(n, guard)

Next ==
  \/ \E n \in Nodes : Pass(n) \/ Acts(n) \/ BootGuard(n) \/ Operator(n) \/ Environment(n)
  \/ \E p, n \in Nodes : Sync(p, n)
  \/ Heal \/ Tick

Spec == Init /\ [][Next]_vars

(* Fairness: the monitor, the boot guard, the scheduler's delta rounds and *)
(* the promotion task all run on their own, and time passes.  Nothing is   *)
(* assumed of the operator, of repairs and of reboots.                     *)
Fairness ==
  /\ WF_vars(Tick)
  /\ \A n \in Nodes :
       /\ WF_vars(Pass(n)) /\ WF_vars(Acts(n)) /\ WF_vars(BootGuard(n))
       /\ WF_vars(HandoverStops(n)) /\ WF_vars(HandoverDone(n))
       /\ WF_vars(HandoverFails(n)) /\ WF_vars(OperatorPromotes(n))
       /\ \A p \in Nodes : WF_vars(Sync(p, n))

LiveSpec == Spec /\ Fairness

-----------------------------------------------------------------------------
Peers == Nodes \cup {"none"}

(* Types of the variables.                                                 *)
TypeOK ==
  /\ up \in [Nodes -> BOOLEAN] /\ running \in [Nodes -> BOOLEAN]
  /\ booting \in [Nodes -> -1 .. BootTicks] /\ stale \in [Nodes -> BOOLEAN]
  /\ role \in [Nodes -> {"primary", "replica"}]
  /\ primary \in [Nodes -> Peers] /\ serving \in [Nodes -> Peers]
  /\ replicas \in [Nodes -> Seq(Nodes)]
  /\ \A n \in Nodes : /\ IsInjective(replicas[n])
                      /\ role[n] = "replica" => primary[n] # "none"
  /\ witFail \in [Nodes -> -1 .. Fence] /\ priFail \in [Nodes -> -1 .. FailoverAfter]
  /\ age \in [Nodes -> 1 - 2 * BootTicks .. PassTicks]
  /\ intent \in [Nodes -> [act : {"none", "fence", "demote", "resume", "stop", "start", "promote"},
                            to : Nodes]]
  /\ op \in [Nodes -> [step : {"none", "ask", "wait", "promote"}, to : Nodes]]
  /\ links \subseteq Pairs /\ blind \subseteq Nodes
  /\ dark \in [Pairs -> 0 .. Window]
  /\ booted \subseteq Nodes /\ seen \subseteq Env \cup {"heal", "reboot", "promote"}
  /\ faults \in 0 .. MaxFaults /\ promotes \in 0 .. MaxPromotes

(* The container never runs on two nodes: "If ANYTHING answers, the        *)
(* container is alive somewhere and promotion aborts. On a shared vSwitch  *)
(* the resource is its own lock." (wolfha/mod.rs:3153.)  The code does not *)
(* keep it: the answer is old when the promotion comes.                    *)
OneRunning == \A n, m \in Nodes : running[n] /\ running[m] => n = m

(* "on a clean partition the incumbent is stopped well before any standby  *)
(* starts" (wolfha/mod.rs:3159): until the first takeover and through it,  *)
(* whichever nodes crash and are cut off at whichever points of their      *)
(* passes; and through one crash with the reboot, one restart of the       *)
(* service or one promotion by the operator.  Not once a partition heals   *)
(* (OneRunning), nor after a takeover the others have not heard of.        *)
IncumbentStopsFirst ==
  /\ \/ seen \subseteq {"crash", "isolation"}
     \/ seen \subseteq {"crash", "reboot", "restart", "promote"} /\ faults + promotes = 1
  /\ Cardinality({n \in Nodes : role[n] = "primary"}) <= 2
  => OneRunning

(* No pass, boot guard, delta, restart or fault has a standby run: without *)
(* an operator a copy that is "somehow running" (wolfha/mod.rs:3469) was   *)
(* started by hand.  An operator's handover can be overtaken by the start  *)
(* a monitor or a boot guard has decided on before.                        *)
StandbyIdle ==
  promotes = 0 /\ "byhand" \notin seen => \A n \in Nodes : role[n] = "replica" => ~running[n]

(* After the last fault the container runs on some node for good: nobody   *)
(* waits for ever for somebody else to start it.                           *)
ServiceResumes == <>[](\E n \in Nodes : ActivePrimary(n) /\ running[n])

(* A standby never runs beside another copy for good: one that is "somehow *)
(* running while the primary also runs" is stopped, whoever started it     *)
(* ("the incumbent wins, this copy stops", wolfha/mod.rs:3469), over       *)
(* crashes, reboots, restarts and promotions.  A node that is cut off or   *)
(* whose container refuses to stop cannot do so.                           *)
HealsToOne ==
  []<>(seen \subseteq {"crash", "reboot", "restart", "byhand", "promote"} =>
         \A n, m \in Nodes : running[n] /\ running[m] /\ role[n] = "replica" => n = m)
=============================================================================
