----------------------------- MODULE GrantLedger -----------------------------
(***************************************************************************)
(* What the MCP token store promises, with no memory, file, index, clock   *)
(* or crash in it: a ledger of grants.  A grant is opened once, renewed    *)
(* while it is live, each time under a newer refresh token, and once ended *)
(* it stays ended.  A request is admitted only on a live grant.            *)
(***************************************************************************)
EXTENDS Naturals

CONSTANTS Grants, Reqs, NoGrant

VARIABLES state,     \* state[g]: none, live or ended
          token,     \* token[g]: the refresh token that renews g, 0 unless live
          admitted   \* admitted[q]: the grant request q is being served under

ledger == <<state, token, admitted>>

Init ==
  /\ state = [g \in Grants |-> "none"]
  /\ token = [g \in Grants |-> 0]
  /\ admitted = [q \in Reqs |-> NoGrant]

Same(g)  == state'[g] = state[g] /\ token'[g] = token[g]
Open(g)  == state[g] = "none" /\ state'[g] = "live" /\ token'[g] > token[g]
Renew(g) == state[g] = "live" /\ state'[g] = "live" /\ token'[g] > token[g]
End(g)   == state[g] = "live" /\ state'[g] = "ended" /\ token'[g] = 0

(* A change of the books: several grants may end at once (a deleted user,  *)
(* a deleted client, expired ones), and requests may come to their end.    *)
Update ==
  /\ \A g \in Grants : Same(g) \/ Open(g) \/ Renew(g) \/ End(g)
  /\ \A q \in Reqs : admitted'[q] \in {admitted[q], NoGrant}

Admit(q, g) ==
  /\ state[g] = "live"
  /\ admitted[q] = NoGrant
  /\ admitted' = [admitted EXCEPT ![q] = g]
  /\ UNCHANGED <<state, token>>

Next == Update \/ \E q \in Reqs, g \in Grants : Admit(q, g)

Spec == Init /\ [][Next]_ledger
=============================================================================
