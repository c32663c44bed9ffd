---------------------------- MODULE SecretRotation ----------------------------
(***************************************************************************)
(* The coordinated rotation of the cluster secret (secret_rotation.rs).    *)
(*                                                                         *)
(* A node signs its calls with the secret it was started with (mem) and    *)
(* accepts that one and the one in its secret file (disk).  A coordinator  *)
(* pings every peer, hands each a new secret to set aside (pend), then     *)
(* tells each to make it the active one, keeping the old in a backup, and  *)
(* does the same itself last.  When a peer fails it takes the others back. *)
(* A node uses the new secret for its own calls after its next restart.    *)
(*                                                                         *)
(* The secret is also the key of the credentials a node stores (vault), so *)
(* a commit seals them again.                                              *)
(*                                                                         *)
(* A secret is a number; 0 is the built-in default, which stands for a     *)
(* missing secret file, and in pend and bak for a missing file.            *)
(***************************************************************************)
EXTENDS Integers

CONSTANTS
  Nodes,       \* the nodes of the cluster
  Start,       \* the secret at the beginning: 0 (the default) or 1
  MaxSecrets,  \* bound: secrets ever generated
  Concurrent   \* operators on different nodes do not wait for each other

ASSUME StartAssumption ==
  Start \in {0, 1} /\ MaxSecrets \in Nat /\ MaxSecrets >= Start /\ Concurrent \in BOOLEAN

VARIABLES
  mem,     \* AppState.cluster_secret
  disk,    \* the active secret file
  pend,    \* the .pending file
  bak,     \* the newest .bak file
  vault,   \* the secret the stored credentials are sealed under
  step,    \* where the node's coordinated rotation is
  new,     \* its new secret
  todo,    \* the peers it has still to visit in this step
  ok,      \* the peers that have acknowledged this step
  failed,  \* the peers that have not
  minted,  \* secrets generated so far
  unsealed,\* history: the nodes whose credentials could not be sealed again
  blame,   \* history: the nodes a request to which was lost or failed
  doubt,   \* history: something else went wrong during a rotation
  mixed    \* history: a rotation began before all nodes were restarted

files == <<disk, pend, bak, vault>>
rotation == <<step, new, todo, ok, failed>>
history == <<unsealed, blame, doubt, mixed>>
vars == <<mem, files, rotation, minted, history>>

Secrets == 0 .. MaxSecrets
Peers(c) == Nodes \ {c}
Idle == \A n \in Nodes : step[n] = "idle"

Init ==
  /\ mem = [n \in Nodes |-> Start] /\ disk = [n \in Nodes |-> Start]
  /\ pend = [n \in Nodes |-> 0] /\ bak = [n \in Nodes |-> 0]
  /\ vault = [n \in Nodes |-> Start]
  /\ step = [n \in Nodes |-> "idle"] /\ new = [n \in Nodes |-> 0]
  /\ todo = [n \in Nodes |-> {}] /\ ok = [n \in Nodes |-> {}]
  /\ failed = [n \in Nodes |-> {}]
  /\ minted = Start
  /\ unsealed = {} /\ blame = {} /\ doubt = FALSE /\ mixed = FALSE

(* validate_inter_node_secret_from: the default is accepted only by a node *)
(* that has no secret of its own on disk.                                  *)
Accepts(m, secret) ==
  IF secret = 0 THEN disk[m] = 0 ELSE secret \in {mem[m], disk[m]}

-----------------------------------------------------------------------------
(* The coordinator's bookkeeping.                                          *)

Enter(c, what, whom) ==
  /\ step' = [step EXCEPT ![c] = what]
  /\ todo' = [todo EXCEPT ![c] = whom]
  /\ ok' = [ok EXCEPT ![c] = {}]
  /\ failed' = [failed EXCEPT ![c] = {}]

Acked(c, p) ==
  /\ todo' = [todo EXCEPT ![c] = @ \ {p}]
  /\ ok' = [ok EXCEPT ![c] = @ \cup {p}]
  /\ UNCHANGED <<step, new, failed>>

NotAcked(c, p) ==
  /\ todo' = [todo EXCEPT ![c] = @ \ {p}]
  /\ failed' = [failed EXCEPT ![c] = @ \cup {p}]
  /\ UNCHANGED <<step, new, ok>>

(* A request to p that never reaches it or that it fails to carry out.     *)
Lost(c, p) ==
  /\ step[c] # "idle" /\ p \in todo[c]
  /\ NotAcked(c, p)
  /\ blame' = blame \cup {p}
  /\ UNCHANGED <<mem, files, minted, unsealed, doubt, mixed>>

(* The rotation lock is this node's own.  A node whose file is newer than  *)
(* the secret it signs with must be restarted first.                       *)
StartRotation(c) ==
  /\ IF Concurrent THEN step[c] = "idle" ELSE Idle
  /\ disk[c] = mem[c]
  /\ Enter(c, "preflight", Peers(c))
  /\ mixed' = (mixed \/ \E n \in Nodes : mem[n] # disk[n])
  /\ UNCHANGED <<mem, files, new, minted, unsealed, blame, doubt>>

Preflight(c, p) ==
  /\ step[c] = "preflight" /\ p \in todo[c]
  /\ IF Accepts(p, mem[c]) THEN Acked(c, p) ELSE NotAcked(c, p)
  /\ UNCHANGED <<mem, files, minted, history>>

(* Mutant: the secret is generated once to show and once to send.          *)
PreflightDoneGeneratesTwice(c) ==
  /\ step[c] = "preflight" /\ todo[c] = {} /\ failed[c] = {}
  /\ minted < MaxSecrets
  /\ minted' = minted + 2
  /\ new' = [new EXCEPT ![c] = minted + 2]
  /\ Enter(c, "receive", Peers(c))
  /\ UNCHANGED <<mem, files, history>>

PreflightDone(c) ==
  /\ step[c] = "preflight" /\ todo[c] = {}
  /\ IF failed[c] = {}
       THEN /\ minted < MaxSecrets
            /\ minted' = minted + 1
            /\ new' = [new EXCEPT ![c] = minted + 1]
            /\ Enter(c, "receive", Peers(c))
       ELSE /\ Enter(c, "idle", {})
            /\ UNCHANGED <<minted, new>>
  /\ UNCHANGED <<mem, files, history>>

(* api_rotate_receive: the secret is set aside.                            *)
Receive(c, p) ==
  /\ step[c] = "receive" /\ p \in todo[c]
  /\ IF Accepts(p, mem[c])
       THEN Acked(c, p) /\ pend' = [pend EXCEPT ![p] = new[c]]
       ELSE NotAcked(c, p) /\ UNCHANGED pend
  /\ UNCHANGED <<mem, disk, bak, vault, minted, history>>

(* The same, and the answer is lost.                                       *)
ReceiveUnanswered(c, p) ==
  /\ step[c] = "receive" /\ p \in todo[c] /\ Accepts(p, mem[c])
  /\ NotAcked(c, p)
  /\ pend' = [pend EXCEPT ![p] = new[c]]
  /\ blame' = blame \cup {p}
  /\ UNCHANGED <<mem, disk, bak, vault, minted, unsealed, doubt, mixed>>

(* Every peer has the secret, or those that have it are to drop it.        *)
ReceiveDone(c) ==
  /\ step[c] = "receive" /\ todo[c] = {}
  /\ IF failed[c] = {} THEN Enter(c, "self", {}) ELSE Enter(c, "abort", ok[c])
  /\ UNCHANGED <<mem, files, new, minted, history>>

(* The coordinator sets the secret aside itself; when it cannot, the peers *)
(* drop theirs.                                                            *)
SelfPending(c) ==
  /\ step[c] = "self"
  /\ \/ /\ pend' = [pend EXCEPT ![c] = new[c]]
        /\ Enter(c, "commit", Peers(c))
     \/ /\ Enter(c, "abortself", Peers(c))
        /\ UNCHANGED pend
  /\ UNCHANGED <<mem, disk, bak, vault, new, minted, history>>

(* api_rotate_rollback, stage "pending".  The coordinator does not look at *)
(* the answer.                                                             *)
DropPending(c, p) ==
  /\ step[c] \in {"abort", "abortself"} /\ p \in todo[c]
  /\ Acked(c, p)
  /\ pend' = [pend EXCEPT ![p] = IF Accepts(p, mem[c]) THEN 0 ELSE @]
  /\ UNCHANGED <<mem, disk, bak, vault, minted, history>>

AbortDone(c) ==
  /\ step[c] \in {"abort", "abortself"} /\ todo[c] = {}
  /\ pend' = [pend EXCEPT ![c] = IF step[c] = "abort" THEN 0 ELSE @]
  /\ Enter(c, "idle", {})
  /\ UNCHANGED <<mem, disk, bak, vault, new, minted, history>>

(* The active secret file gets a backup, if there is one.                  *)
Backup(n) == bak' = [bak EXCEPT ![n] = IF disk[n] # 0 THEN disk[n] ELSE @]

(* .pending becomes the active file.                                       *)
Promote(n) ==
  /\ disk' = [disk EXCEPT ![n] = pend[n]]
  /\ pend' = [pend EXCEPT ![n] = 0]

(* reencrypt_all_at_rest: a field that does not open under old is left.    *)
Rekeyed(n, old, to) == [vault EXCEPT ![n] = IF @ = old THEN to ELSE @]

(* A node does so once the new secret is active, and goes on if it fails.  *)
Seal(n, old, to) ==
  \/ vault' = Rekeyed(n, old, to) /\ UNCHANGED unsealed
  \/ unsealed' = unsealed \cup {n} /\ UNCHANGED vault

(* api_rotate_commit: only the secret the coordinator means.               *)
Committable(c, p) == Accepts(p, mem[c]) /\ pend[p] # 0 /\ pend[p] = new[c]

(* Mutant: the old secret is read after the rename.                        *)
CommitReadsOldLate(c, p) ==
  /\ step[c] = "commit" /\ p \in todo[c]
  /\ IF Committable(c, p)
       THEN /\ Backup(p) /\ Promote(p)
            /\ Seal(p, pend[p], pend[p])
            /\ Acked(c, p)
       ELSE NotAcked(c, p) /\ UNCHANGED <<files, unsealed>>
  /\ UNCHANGED <<mem, minted, blame, doubt, mixed>>

Commit(c, p) ==
  /\ step[c] = "commit" /\ p \in todo[c]
  /\ IF Committable(c, p)
       THEN /\ Backup(p) /\ Promote(p)
            /\ Seal(p, disk[p], pend[p])
            /\ Acked(c, p)
       ELSE NotAcked(c, p) /\ UNCHANGED <<files, unsealed>>
  /\ UNCHANGED <<mem, minted, blame, doubt, mixed>>

(* The peer commits and the coordinator does not hear of it.  A peer that  *)
(* died before the end of the handler has not sealed its credentials.      *)
CommitUnanswered(c, p) ==
  /\ step[c] = "commit" /\ p \in todo[c] /\ Committable(c, p)
  /\ Backup(p) /\ Promote(p)
  /\ Seal(p, disk[p], pend[p])
  /\ NotAcked(c, p)
  /\ doubt' = TRUE
  /\ UNCHANGED <<mem, minted, blame, mixed>>

(* Its rename fails: the old secret stays active, with one more backup.    *)
CommitFails(c, p) ==
  /\ step[c] = "commit" /\ p \in todo[c] /\ Committable(c, p)
  /\ Backup(p)
  /\ NotAcked(c, p)
  /\ blame' = blame \cup {p}
  /\ UNCHANGED <<mem, disk, pend, vault, minted, unsealed, doubt, mixed>>

(* Mutant: the coordinator commits whatever the peers said.                *)
CommitDoneRegardless(c) ==
  /\ step[c] = "commit" /\ todo[c] = {}
  /\ Enter(c, "selfcommit", {})
  /\ UNCHANGED <<mem, files, new, minted, history>>

CommitDone(c) ==
  /\ step[c] = "commit" /\ todo[c] = {}
  /\ IF failed[c] = {} THEN Enter(c, "selfcommit", {}) ELSE Enter(c, "undo", ok[c])
  /\ UNCHANGED <<mem, files, new, minted, history>>

(* Mutant: a peer that has committed is told to drop .pending.             *)
UndoDropsPending(c, p) ==
  /\ step[c] = "undo" /\ p \in todo[c]
  /\ pend' = [pend EXCEPT ![p] = IF Accepts(p, mem[c]) THEN 0 ELSE @]
  /\ Acked(c, p)
  /\ UNCHANGED <<mem, disk, bak, vault, minted, history>>

(* api_rotate_rollback, stage "committed": the newest backup is restored.  *)
(* The credentials stay as the commit sealed them.                         *)
Undo(c, p) ==
  /\ step[c] = "undo" /\ p \in todo[c]
  /\ disk' = [disk EXCEPT ![p] = IF Accepts(p, mem[c]) /\ bak[p] # 0 THEN bak[p] ELSE @]
  /\ Acked(c, p)
  /\ UNCHANGED <<mem, pend, bak, vault, minted, history>>

UndoDone(c) ==
  /\ step[c] = "undo" /\ todo[c] = {}
  /\ pend' = [pend EXCEPT ![c] = 0]
  /\ Enter(c, "idle", {})
  /\ UNCHANGED <<mem, disk, bak, vault, new, minted, history>>

(* The coordinator's own commit, after every peer's.                       *)
SelfCommit(c) ==
  /\ step[c] = "selfcommit" /\ pend[c] # 0
  /\ Backup(c) /\ Promote(c)
  /\ Enter(c, "rekey", {})
  /\ UNCHANGED <<mem, vault, new, minted, history>>

(* Its backup or its rename fails: the peers keep the new secret and the   *)
(* operator is told how to finish by hand.                                 *)
SelfCommitFails(c) ==
  /\ step[c] = "selfcommit"
  /\ bak' = bak \/ Backup(c)
  /\ doubt' = TRUE
  /\ Enter(c, "idle", {})
  /\ UNCHANGED <<mem, disk, pend, vault, new, minted, unsealed, blame, mixed>>

(* The coordinator seals its credentials again and reports success.        *)
Report(c) ==
  /\ step[c] = "rekey"
  /\ Seal(c, mem[c], new[c])
  /\ Enter(c, "idle", {})
  /\ UNCHANGED <<mem, disk, pend, bak, new, minted, blame, doubt, mixed>>

-----------------------------------------------------------------------------
(* api_rotate_propose: an operator has a secret generated and set aside.   *)
Propose(n) ==
  /\ Idle \/ Concurrent
  /\ minted < MaxSecrets
  /\ minted' = minted + 1
  /\ pend' = [pend EXCEPT ![n] = minted + 1]
  /\ UNCHANGED <<mem, disk, bak, vault, rotation, history>>

(* The service restarts, after a rotation or in the middle of one, its own *)
(* or another node's.                                                      *)
Restart(n) ==
  /\ mem[n] # disk[n] \/ step[n] # "idle"
  /\ mem' = [mem EXCEPT ![n] = disk[n]]
  /\ doubt' = (doubt \/ ~Idle)
  /\ Enter(n, "idle", {})
  /\ UNCHANGED <<files, new, minted, unsealed, blame, mixed>>

-----------------------------------------------------------------------------
Visit(c, p) ==
  \/ Lost(c, p) \/ Preflight(c, p) \/ Receive(c, p) \/ ReceiveUnanswered(c, p)
  \/ DropPending(c, p) \/ Commit(c, p) \/ CommitUnanswered(c, p) \/ CommitFails(c, p)
  \/ Undo(c, p)

Proceed(c) ==
  \/ PreflightDone(c) \/ ReceiveDone(c) \/ SelfPending(c) \/ AbortDone(c)
  \/ CommitDone(c) \/ UndoDone(c) \/ SelfCommit(c) \/ SelfCommitFails(c) \/ Report(c)

Next ==
  \/ \E c, p \in Nodes : Visit(c, p)
  \/ \E c \in Nodes : Proceed(c) \/ StartRotation(c)
  \/ \E n \in Nodes : Propose(n) \/ Restart(n)

Spec == Init /\ [][Next]_vars

-----------------------------------------------------------------------------
Steps == {"idle", "preflight", "receive", "self", "abort", "abortself", "commit",
          "undo", "selfcommit", "rekey"}

(* Types of the variables.                                                 *)
TypeOK ==
  /\ mem \in [Nodes -> Secrets] /\ disk \in [Nodes -> Secrets]
  /\ pend \in [Nodes -> Secrets] /\ bak \in [Nodes -> Secrets]
  /\ vault \in [Nodes -> Secrets] /\ new \in [Nodes -> Secrets]
  /\ step \in [Nodes -> Steps]
  /\ todo \in [Nodes -> SUBSET Nodes] /\ ok \in [Nodes -> SUBSET Nodes]
  /\ failed \in [Nodes -> SUBSET Nodes]
  /\ minted \in Secrets
  /\ unsealed \in SUBSET Nodes /\ blame \in SUBSET Nodes
  /\ doubt \in BOOLEAN /\ mixed \in BOOLEAN

(* When a coordinator reports success, its new secret is the active one on *)
(* every node, whatever was lost, refused or restarted on the way          *)
(* (api_coordinated_rotate: "the new secret has already committed on every *)
(* node").                                                                 *)
SuccessIsTotal ==
  \A c, n \in Nodes : step[c] = "rekey" => disk[n] = new[c]

Agree == \A n, m \in Nodes : disk[n] = disk[m]
OneFailedPeer == \A n, m \in blame : n = m

(* "A failed peer never leaves the cluster in a half-rotated state": when  *)
(* requests to one peer were lost and nothing else went wrong, all nodes   *)
(* have the same secret once the rotation is over.                         *)
FailedPeerHarmless == Idle /\ ~doubt /\ OneFailedPeer => Agree

(* The same where the rollback can work: the cluster has left the built-in *)
(* default, and every node was restarted between two rotations, so that a  *)
(* peer that has committed still accepts what the coordinator signs with.  *)
NotHalfRotated == Start # 0 /\ ~mixed => FailedPeerHarmless

(* While every request succeeds the stored credentials follow the secret:  *)
(* a node that could seal them again can open them after its next restart  *)
(* (api_rotate_commit: "without this ... credentials would be              *)
(* undecryptable after its restart").                                      *)
VaultFollows ==
  Idle /\ ~doubt /\ blame = {} => \A n \in Nodes \ unsealed : vault[n] = disk[n]
=============================================================================
