----------------------------- MODULE WolfHaVmLive -----------------------------
(***************************************************************************)
(* Liveness of the VM replication epoch of WolfHaVmChain: what becomes of  *)
(* an outstanding delta when the faults stop.                              *)
(* Crashes, restarts and losses are drawn from a budget, so that every     *)
(* behaviour has finitely many of them, at any place.                      *)
(***************************************************************************)
EXTENDS WolfHaVmChain

CONSTANT MaxFaults  \* bound: crashes, restarts and losses in a behaviour

ASSUME MaxFaultsAssumption == MaxFaults \in Nat

VARIABLE budget

liveVars == <<vars, budget>>

LiveInit == Init /\ budget = MaxFaults

Unharmed(A) == A /\ UNCHANGED budget

LiveNext ==
  \/ \E n \in Nodes : Faults(n) /\ budget > 0 /\ budget' = budget - 1
  \/ \E n \in Nodes : Unharmed(Guest(n) \/ RoundStep(n))
  \/ \E m \in net : Unharmed(Receive(m))

(***************************************************************************)
(* Fairness.  scheduler_forever starts a round every interval for as long  *)
(* as the service lives and a round never waits for ever (every upload has *)
(* a timeout), so its steps are weakly fair.  A standby that is tried      *)
(* again and again is eventually reached, serves the request and its       *)
(* answer arrives: strong fairness, since each attempt may also fail.      *)
(* Nothing is assumed of the guest and of the operator.                    *)
(***************************************************************************)
Reached(n, r, kind) ==
  \E m \in net : /\ out[n] = m /\ m.to = r /\ m.kind = kind
                 /\ ReceiveDelta(m) \/ ApplyDelta(m) \/ InstallSeed(m) \/ RefuseSeed(m)
                 /\ reply'[n] # "none"

RoundAdvances(n) ==
  \/ BeginRound(n) \/ TakeDelta(n) \/ TakeRefused(n) \/ TakeNothing(n)
  \/ RecordPending(n) \/ Confirmed(n) \/ Refused(n) \/ Failed(n) \/ FinishRound(n)
  \/ \E r \in Nodes : VisitStopped(n, r) \/ Unreachable(n, r)

Fairness ==
  /\ WF_liveVars(Unharmed(RoundAdvances(Home)))
  /\ SF_liveVars(Unharmed(StageSeed(Home)))
  /\ SF_liveVars(Unharmed(SendSeed(Home)))
  /\ \A r \in Peers(Home) :
       /\ SF_liveVars(Unharmed(SendDelta(Home, r)))
       /\ \A kind \in {"delta", "seed"} : SF_liveVars(Unharmed(Reached(Home, r, kind)))

LiveSpec == LiveInit /\ [][LiveNext]_liveVars /\ Fairness

-----------------------------------------------------------------------------
(* A standby with the VM's definition and no entry for it: it asks for a   *)
(* seed in answer to every delta and refuses every seed.                   *)
Orphaned == \E n \in Nodes : role[n] = "orphan"

(* A delta the bitmap has given up is not forgotten: sync_container_now    *)
(* retries it until every standby holds it or its file is found missing -  *)
(* unless a first seed that failed half way orphans a standby, which then  *)
(* holds the delta up until somebody removes the VM there.                 *)
PendingResolves ==
  \A n \in Nodes : pending[n].token # 0 ~> pending[n].token = 0 \/ Orphaned
=============================================================================
