------------------------- MODULE SecretRotationProofs -------------------------
(***************************************************************************)
(* Proofs about SecretRotation, for every set of nodes and every number of *)
(* rotations, when operators wait for each other (Concurrent = FALSE).     *)
(***************************************************************************)
EXTENDS SecretRotation, TLAPS

(* One rotation at a time.                                                 *)
Single == \A c, d \in Nodes : step[c] # "idle" /\ step[d] # "idle" => c = d

(* A coordinator's books: in a step that visits all peers each of them is  *)
(* still to visit, has acknowledged or has not; and the coordinator signs  *)
(* with the secret in its own file until it commits.                       *)
Books(c) ==
  /\ todo[c] \cup ok[c] \subseteq Peers(c)
  /\ step[c] \in {"idle", "self", "selfcommit", "rekey"} => todo[c] = {}
  /\ step[c] \in {"preflight", "receive", "commit"} =>
       Peers(c) \subseteq todo[c] \cup ok[c] \cup failed[c]
  /\ step[c] \notin {"idle", "rekey"} => disk[c] = mem[c]
  /\ step[c] \in {"receive", "self", "commit", "selfcommit", "rekey"} => new[c] # 0
  /\ step[c] \in {"commit", "selfcommit"} => pend[c] = new[c]

(* What a peer has acknowledged, it has done.                              *)
Committed(c) ==
  /\ step[c] = "commit" => \A p \in ok[c] : disk[p] = new[c]
  /\ step[c] = "selfcommit" => \A p \in Peers(c) : disk[p] = new[c]
  /\ step[c] = "rekey" => \A n \in Nodes : disk[n] = new[c]

SuccessInv ==
  TypeOK /\ Single /\ \A c \in Nodes : Books(c) /\ Committed(c)

(* Nothing but requests to one peer has gone wrong, and the rollback can   *)
(* be authenticated.                                                       *)
Calm == Start # 0 /\ ~doubt /\ ~mixed /\ OneFailedPeer

OwnSecret == Start # 0 => \A n \in Nodes : disk[n] # 0

(* A calm rotation: every node still runs with the old secret, accepts it, *)
(* and either still has it on disk or has it as its newest backup.  Once   *)
(* the coordinator takes commits back, the peer that failed is not among   *)
(* those it visits, so that no second one may fail.                        *)
CalmRotation(c) ==
  /\ \A n \in Nodes : mem[n] = mem[c]
  /\ step[c] \in {"preflight", "receive", "self", "abort", "abortself"} =>
       \A n \in Nodes : disk[n] = mem[c]
  /\ step[c] = "receive" => \A p \in ok[c] : pend[p] = new[c]
  /\ step[c] = "self" => \A p \in Peers(c) : pend[p] = new[c]
  /\ step[c] = "commit" =>
       /\ \A p \in todo[c] : pend[p] = new[c]
       /\ \A n \in Nodes \ ok[c] : disk[n] = mem[c]
       /\ \A p \in ok[c] : bak[p] = mem[c]
       /\ failed[c] \subseteq blame
       /\ \A p \in failed[c] : p \notin ok[c] /\ p \notin todo[c]
       /\ \A p \in todo[c] : p \notin ok[c]
  /\ step[c] = "undo" =>
       /\ \A n \in Nodes \ todo[c] : disk[n] = mem[c]
       /\ \A p \in todo[c] : bak[p] = mem[c]
       /\ \E q \in blame : q \notin todo[c]

CalmInv ==
  Calm => /\ Idle => Agree
          /\ \A c \in Nodes : step[c] # "idle" => CalmRotation(c)

(* A rotation in which nothing has failed: what the peers accepted at the  *)
(* start they still accept, so they do all they are told, and every node   *)
(* but the coordinator has sealed its credentials with what is on disk.    *)
Quiet == ~doubt /\ blame = {}

QuietRotation(c) ==
  /\ step[c] \notin {"abort", "undo"}
  /\ step[c] = "preflight" => \A p \in ok[c] : Accepts(p, mem[c])
  /\ step[c] = "receive" => \A p \in Peers(c) : Accepts(p, mem[c])
  /\ step[c] = "receive" => \A p \in ok[c] : pend[p] = new[c]
  /\ step[c] = "self" => \A p \in Peers(c) : Accepts(p, mem[c]) /\ pend[p] = new[c]
  /\ step[c] = "commit" => \A p \in todo[c] : Accepts(p, mem[c]) /\ pend[p] = new[c]
  /\ step[c] = "commit" => \A p \in todo[c] : p \notin ok[c]
  /\ step[c] \in {"receive", "commit"} => failed[c] = {}
  /\ \A n \in Nodes \ unsealed : vault[n] = IF step[c] = "rekey" /\ n = c THEN mem[c] ELSE disk[n]

QuietInv ==
  Quiet => /\ Idle => \A n \in Nodes \ unsealed : vault[n] = disk[n]
           /\ \A c \in Nodes : step[c] # "idle" => QuietRotation(c)

-----------------------------------------------------------------------------
(* A step that visits a peer keeps the types.                              *)
LEMMA VisitTypes ==
  ASSUME TypeOK, NEW c \in Nodes, NEW p \in Nodes, Visit(c, p)
  PROVE  TypeOK'
<1>1. CASE Lost(c, p)
  BY <1>1 DEF TypeOK, Lost, NotAcked, files
<1>2. CASE Preflight(c, p)
  BY <1>2 DEF TypeOK, Preflight, Acked, NotAcked, files, history
<1>3. CASE Receive(c, p)
  BY <1>3 DEF TypeOK, Receive, Acked, NotAcked, history
<1>4. CASE ReceiveUnanswered(c, p)
  BY <1>4 DEF TypeOK, ReceiveUnanswered, NotAcked
<1>5. CASE DropPending(c, p)
  BY <1>5, StartAssumption DEF TypeOK, DropPending, Acked, history, Secrets
<1>6. CASE Commit(c, p)
  BY <1>6, StartAssumption
     DEF TypeOK, Commit, Acked, NotAcked, Backup, Promote, Seal, Rekeyed, files, Secrets
<1>7. CASE CommitUnanswered(c, p)
  BY <1>7, StartAssumption
     DEF TypeOK, CommitUnanswered, NotAcked, Backup, Promote, Seal, Rekeyed, Secrets
<1>9. CASE CommitFails(c, p)
  BY <1>9 DEF TypeOK, CommitFails, NotAcked, Backup
<1>8. CASE Undo(c, p)
  BY <1>8 DEF TypeOK, Undo, Acked, history
<1>. QED BY <1>1, <1>2, <1>3, <1>4, <1>5, <1>6, <1>7, <1>8, <1>9 DEF Visit

(* A step of the coordinator alone, an operator or a restart keeps them.   *)
LEMMA ProceedTypes ==
  ASSUME TypeOK, NEW c \in Nodes,
         Proceed(c) \/ StartRotation(c) \/ Propose(c) \/ Restart(c)
  PROVE  TypeOK'
<1>0. 0 \in Secrets /\ (minted < MaxSecrets => minted + 1 \in Secrets)
  BY StartAssumption DEF TypeOK, Secrets
<1>1. CASE PreflightDone(c)
  BY <1>0, <1>1 DEF TypeOK, PreflightDone, Enter, Peers, Steps, files, history
<1>2. CASE ReceiveDone(c)
  BY <1>2 DEF TypeOK, ReceiveDone, Enter, Steps, files, history
<1>3. CASE SelfPending(c)
  BY <1>3 DEF TypeOK, SelfPending, Enter, Peers, Steps, history
<1>4. CASE AbortDone(c)
  BY <1>0, <1>4 DEF TypeOK, AbortDone, Enter, Steps, history
<1>5. CASE CommitDone(c)
  BY <1>5 DEF TypeOK, CommitDone, Enter, Steps, files, history
<1>6. CASE UndoDone(c)
  BY <1>0, <1>6 DEF TypeOK, UndoDone, Enter, Steps, history
<1>7. CASE SelfCommit(c)
  BY <1>0, <1>7 DEF TypeOK, SelfCommit, Enter, Backup, Promote, Steps, history
<1>8. CASE SelfCommitFails(c)
  BY <1>8 DEF TypeOK, SelfCommitFails, Enter, Backup, Steps
<1>9. CASE Report(c)
  BY <1>9 DEF TypeOK, Report, Enter, Seal, Rekeyed, Steps
<1>10. CASE StartRotation(c)
  BY <1>10 DEF TypeOK, StartRotation, Enter, Peers, Steps, files
<1>11. CASE Propose(c)
  BY <1>0, <1>11 DEF TypeOK, Propose, rotation, history
<1>12. CASE Restart(c)
  BY <1>12 DEF TypeOK, Restart, Enter, Steps, files
<1>. QED BY <1>1, <1>2, <1>3, <1>4, <1>5, <1>6, <1>7, <1>8, <1>9, <1>10, <1>11, <1>12
         DEF Proceed

(* Every step keeps the types.                                             *)
LEMMA StepTypes == TypeOK /\ [Next]_vars => TypeOK'
<1>1. ASSUME TypeOK, Next PROVE TypeOK'
  BY <1>1, VisitTypes, ProceedTypes DEF Next
<1>2. ASSUME TypeOK, UNCHANGED vars PROVE TypeOK'
  BY <1>2 DEF TypeOK, vars, files, rotation, history
<1>. QED BY <1>1, <1>2

(* The initial state is typed.                                             *)
LEMMA InitTypes == Init => TypeOK
<1>1. 0 \in Secrets /\ Start \in Secrets
  BY StartAssumption DEF Secrets
<1>2. "idle" \in Steps
  BY DEF Steps
<1>3. (Init => doubt \in BOOLEAN /\ mixed \in BOOLEAN) /\ {} \in SUBSET Nodes
  BY DEF Init
<1>. QED BY <1>1, <1>2, <1>3 DEF Init, TypeOK

(* The rotation's state (files, coordinators' books, history) is always of *)
(* its type, whoever coordinates and whatever fails.                       *)
THEOREM RotationTypeCorrect == Spec => []TypeOK
BY InitTypes, StepTypes, PTL DEF Spec

-----------------------------------------------------------------------------
(* While c coordinates, nobody else does and it visits peers only.         *)
LEMMA OneCoordinator ==
  ASSUME SuccessInv, NEW c \in Nodes, step[c] # "idle"
  PROVE  /\ \A d \in Nodes : d # c => step[d] = "idle"
         /\ \A p \in todo[c] : p \in Nodes /\ p # c
BY DEF SuccessInv, Single, Books, Peers, TypeOK

(* A step that visits a peer keeps the coordinator's books right.          *)
LEMMA VisitSuccess ==
  ASSUME SuccessInv, NEW c \in Nodes, NEW p \in Nodes, Visit(c, p)
  PROVE  Single' /\ \A d \in Nodes : (Books(d) /\ Committed(d))'
<1>0. step[c] # "idle" /\ p \in todo[c]
  BY DEF Visit, Lost, Preflight, Receive, ReceiveUnanswered, DropPending, Commit,
         CommitUnanswered, CommitFails, Undo
<1>1. p # c /\ \A d \in Nodes : d # c => step[d] = "idle"
  BY <1>0, OneCoordinator
<1>2. TypeOK /\ Single /\ (\A d \in Nodes : Books(d)) /\ (\A d \in Nodes : Committed(d))
  BY DEF SuccessInv
<1>3. UNCHANGED <<mem, step, new>> /\ Single'
  BY <1>2 DEF Visit, Lost, Preflight, Receive, ReceiveUnanswered, DropPending, Commit,
         CommitUnanswered, CommitFails, Undo, Acked, NotAcked, Single
<1>4. /\ disk'[c] = disk[c] /\ pend'[c] = pend[c]
      /\ todo' = [todo EXCEPT ![c] = @ \ {p}]
      /\ \/ ok' = [ok EXCEPT ![c] = @ \cup {p}] /\ UNCHANGED failed
         \/ failed' = [failed EXCEPT ![c] = @ \cup {p}] /\ UNCHANGED ok
  BY <1>1, <1>2
     DEF Visit, Lost, Preflight, Receive, ReceiveUnanswered, DropPending, Commit,
         CommitUnanswered, CommitFails, Undo, Acked, NotAcked, Promote, files, TypeOK
<1>5. ASSUME NEW d \in Nodes PROVE Books(d)'
  BY <1>0, <1>1, <1>2, <1>3, <1>4, <1>5 DEF Books, Peers, TypeOK
<1>6. step[c] \notin {"selfcommit", "rekey"}
  BY <1>0, <1>2 DEF Books
<1>7. ASSUME step[c] = "commit"
      PROVE  \A q \in ok'[c] : disk'[q] = new[c]
  BY <1>1, <1>2, <1>7
     DEF Visit, Lost, Preflight, Receive, ReceiveUnanswered, DropPending, Commit,
         CommitUnanswered, CommitFails, Undo, Acked, NotAcked, Committable, Promote,
         files, TypeOK, Committed
<1>8. ASSUME NEW d \in Nodes PROVE Committed(d)'
  BY <1>1, <1>3, <1>6, <1>7 DEF Committed
<1>. QED BY <1>3, <1>5, <1>8

(* So does a step of the coordinator alone.                                *)
LEMMA ProceedSuccess ==
  ASSUME SuccessInv, NEW c \in Nodes, Proceed(c)
  PROVE  Single' /\ \A d \in Nodes : (Books(d) /\ Committed(d))'
<1>0. step[c] # "idle"
  BY DEF Proceed, PreflightDone, ReceiveDone, SelfPending, AbortDone, CommitDone, UndoDone,
         SelfCommit, SelfCommitFails, Report
<1>1. \A d \in Nodes : d # c => step[d] = "idle"
  BY <1>0, OneCoordinator
<1>2. TypeOK /\ (\A d \in Nodes : Books(d)) /\ (\A d \in Nodes : Committed(d))
  BY DEF SuccessInv
<1>3. ASSUME NEW d \in Nodes, d # c
      PROVE  step'[d] = "idle" /\ (Books(d) /\ Committed(d))'
  <2>1. step'[d] = step[d] /\ todo'[d] = todo[d] /\ ok'[d] = ok[d] /\ failed'[d] = failed[d]
    BY <1>2, <1>3
       DEF Proceed, PreflightDone, ReceiveDone, SelfPending, AbortDone, CommitDone, UndoDone,
           SelfCommit, SelfCommitFails, Report, Enter, TypeOK
  <2>. QED BY <1>1, <1>2, <1>3, <2>1 DEF Books, Committed, Peers
<1>4. Single'
  BY <1>3 DEF Single
<1>5. (Books(c) /\ Committed(c))'
  <2>1. CASE PreflightDone(c)
    BY <1>2, <2>1, StartAssumption
       DEF PreflightDone, Enter, Peers, files, TypeOK, Secrets, Books, Committed
  <2>2. CASE ReceiveDone(c)
    BY <1>2, <2>2 DEF ReceiveDone, Enter, Peers, files, TypeOK, Books, Committed
  <2>3. CASE SelfPending(c)
    BY <1>2, <2>3 DEF SelfPending, Enter, Peers, TypeOK, Books, Committed
  <2>4. CASE AbortDone(c)
    BY <1>2, <2>4 DEF AbortDone, Enter, Peers, TypeOK, Books, Committed
  <2>5. CASE CommitDone(c)
    BY <1>2, <2>5 DEF CommitDone, Enter, Peers, files, TypeOK, Books, Committed
  <2>6. CASE UndoDone(c)
    BY <1>2, <2>6 DEF UndoDone, Enter, Peers, TypeOK, Books, Committed
  <2>7. CASE SelfCommit(c)
    BY <1>2, <2>7 DEF SelfCommit, Enter, Promote, Peers, TypeOK, Books, Committed
  <2>8. CASE SelfCommitFails(c)
    BY <1>2, <2>8 DEF SelfCommitFails, Enter, Peers, TypeOK, Books, Committed
  <2>9. CASE Report(c)
    BY <1>2, <2>9 DEF Report, Enter, Peers, TypeOK, Books, Committed
  <2>. QED BY <2>1, <2>2, <2>3, <2>4, <2>5, <2>6, <2>7, <2>8, <2>9 DEF Proceed
<1>. QED BY <1>3, <1>4, <1>5

(* So does an operator's or the service manager's step.                    *)
LEMMA OtherSuccess ==
  ASSUME Concurrent = FALSE, SuccessInv, NEW c \in Nodes,
         StartRotation(c) \/ Propose(c) \/ Restart(c)
  PROVE  Single' /\ \A d \in Nodes : (Books(d) /\ Committed(d))'
<1>2. TypeOK /\ Single /\ (\A d \in Nodes : Books(d)) /\ (\A d \in Nodes : Committed(d))
  BY DEF SuccessInv
<1>3. CASE StartRotation(c)
  BY <1>2, <1>3
     DEF StartRotation, Idle, Enter, Peers, files, TypeOK, Single, Books, Committed
<1>4. CASE Propose(c)
  BY <1>2, <1>4 DEF Propose, Idle, rotation, Peers, TypeOK, Single, Books, Committed
<1>5. CASE Restart(c)
  BY <1>2, <1>5 DEF Restart, Enter, Peers, files, TypeOK, Single, Books, Committed
<1>. QED BY <1>3, <1>4, <1>5

(* The inductive step.                                                     *)
LEMMA StepSuccess ==
  ASSUME Concurrent = FALSE
  PROVE  SuccessInv /\ [Next]_vars => SuccessInv'
<1>1. ASSUME SuccessInv, Next PROVE SuccessInv'
  <2>1. TypeOK'
    BY <1>1, StepTypes DEF SuccessInv
  <2>2. Single' /\ \A d \in Nodes : (Books(d) /\ Committed(d))'
    BY <1>1, VisitSuccess, ProceedSuccess, OtherSuccess DEF Next
  <2>. QED BY <2>1, <2>2 DEF SuccessInv
<1>2. ASSUME SuccessInv, UNCHANGED vars PROVE SuccessInv'
  BY <1>2 DEF SuccessInv, TypeOK, Single, Books, Committed, Peers, vars, files, rotation, history
<1>. QED BY <1>1, <1>2

(* The initial state: nobody coordinates.                                  *)
LEMMA InitSuccess == Init => SuccessInv
BY InitTypes DEF Init, SuccessInv, Single, Books, Committed, Peers

(* When operators wait for each other, a rotation that reports success has *)
(* made its secret the active one on every node: every acknowledgement the *)
(* coordinator counted stands for a committed file, and nothing undoes it. *)
THEOREM SuccessfulRotationIsTotal ==
  ASSUME Concurrent = FALSE
  PROVE  Spec => []SuccessIsTotal
<1>1. SuccessInv => SuccessIsTotal
  BY DEF SuccessInv, Committed, SuccessIsTotal
<1>. QED BY <1>1, InitSuccess, StepSuccess, PTL DEF Spec

-----------------------------------------------------------------------------
HalfInv == SuccessInv /\ OwnSecret /\ CalmInv

(* What has gone wrong stays in the history.                               *)
LEMMA CalmBackwards == ASSUME TypeOK, Next, Calm' PROVE Calm
<1>1. /\ blame \subseteq blame'
      /\ doubt => doubt'
      /\ mixed => mixed'
  BY DEF TypeOK, Next, Visit, Lost, Preflight, Receive, ReceiveUnanswered, DropPending, Commit,
         CommitUnanswered, CommitFails, Undo, Proceed, PreflightDone, ReceiveDone, SelfPending,
         AbortDone, CommitDone, UndoDone, SelfCommit, SelfCommitFails, Report, StartRotation,
         Propose, Restart, history
<1>. QED BY <1>1 DEF Calm, OneFailedPeer

(* A secret file, once there, is never removed.                            *)
LEMMA StepOwnSecret == ASSUME TypeOK, OwnSecret, Next PROVE OwnSecret'
<1>1. SUFFICES ASSUME Start # 0, NEW n \in Nodes PROVE disk'[n] # 0
  BY DEF OwnSecret
<1>2. disk[n] # 0
  BY <1>1 DEF OwnSecret
<1>3. ASSUME NEW c \in Nodes, NEW p \in Nodes, Visit(c, p) PROVE disk'[n] # 0
  BY <1>2, <1>3
     DEF TypeOK, Visit, Lost, Preflight, Receive, ReceiveUnanswered, DropPending, Commit,
         CommitUnanswered, CommitFails, Undo, Committable, Promote, files
<1>4. ASSUME NEW c \in Nodes, Proceed(c) \/ StartRotation(c) \/ Propose(c) \/ Restart(c)
      PROVE  disk'[n] # 0
  BY <1>2, <1>4
     DEF TypeOK, Proceed, PreflightDone, ReceiveDone, SelfPending, AbortDone, CommitDone,
         UndoDone, SelfCommit, SelfCommitFails, Report, StartRotation, Propose, Restart,
         Promote, files
<1>. QED BY <1>3, <1>4 DEF Next

(* In a calm rotation every node accepts what the coordinator signs with.  *)
LEMMA CalmAccepts ==
  ASSUME HalfInv, Calm, NEW c \in Nodes, step[c] \notin {"idle", "rekey"}
  PROVE  CalmRotation(c) /\ mem[c] # 0 /\ \A n \in Nodes : Accepts(n, mem[c])
<1>1. CalmRotation(c) /\ disk[c] = mem[c] /\ disk[c] # 0
  BY DEF HalfInv, CalmInv, SuccessInv, Books, OwnSecret, Calm
<1>. QED BY <1>1 DEF CalmRotation, Accepts

(* A calm visit: an accepted commit leaves the old secret in the backup,   *)
(* and taking it back puts it on disk again.                               *)
LEMMA VisitCalm ==
  ASSUME HalfInv, NEW c \in Nodes, NEW p \in Nodes, Visit(c, p), Calm, Calm'
  PROVE  CalmInv'
<1>0. step[c] # "idle" /\ p \in todo[c]
  BY DEF Visit, Lost, Preflight, Receive, ReceiveUnanswered, DropPending, Commit,
         CommitUnanswered, CommitFails, Undo
<1>1. p # c /\ \A d \in Nodes : d # c => step[d] = "idle"
  BY <1>0, OneCoordinator DEF HalfInv
<1>2. TypeOK /\ Books(c)
  BY DEF HalfInv, SuccessInv
<1>3. /\ CalmRotation(c) /\ mem[c] # 0 /\ Accepts(p, mem[c])
      /\ step[c] \notin {"self", "selfcommit", "rekey"}
  BY <1>0, <1>2, CalmAccepts DEF Books
<1>4. UNCHANGED <<mem, step, new>>
  BY DEF Visit, Lost, Preflight, Receive, ReceiveUnanswered, DropPending, Commit,
         CommitUnanswered, CommitFails, Undo, Acked, NotAcked
<1>5. SUFFICES CalmRotation(c)'
  BY <1>0, <1>1, <1>4 DEF CalmInv, Idle
<1>6. CASE Lost(c, p)
  <2>1. step[c] # "undo"
    <3>1. ASSUME NEW q \in blame, q \notin todo[c] PROVE FALSE
      BY <1>0, <1>6, <3>1 DEF Lost, Calm, OneFailedPeer
    <3>. QED BY <1>3, <3>1 DEF CalmRotation
  <2>. QED BY <1>0, <1>1, <1>2, <1>3, <1>6, <2>1 DEF Lost, NotAcked, TypeOK, CalmRotation, files
<1>7. CASE Preflight(c, p)
  BY <1>1, <1>2, <1>3, <1>7 DEF Preflight, Acked, NotAcked, TypeOK, CalmRotation, files, history
<1>8. CASE Receive(c, p)
  BY <1>1, <1>2, <1>3, <1>8 DEF Receive, Acked, NotAcked, TypeOK, CalmRotation, history
<1>9. CASE ReceiveUnanswered(c, p)
  BY <1>1, <1>2, <1>3, <1>9 DEF ReceiveUnanswered, NotAcked, TypeOK, CalmRotation
<1>10. CASE DropPending(c, p)
  BY <1>1, <1>2, <1>3, <1>10 DEF DropPending, Acked, TypeOK, CalmRotation, history
<1>11. CASE Commit(c, p)
  <2>1. Committable(c, p) /\ disk[p] = mem[c]
    BY <1>0, <1>2, <1>3, <1>11 DEF Commit, Committable, CalmRotation, Books, TypeOK
  <2>2. /\ disk' = [disk EXCEPT ![p] = pend[p]] /\ pend' = [pend EXCEPT ![p] = 0]
        /\ bak' = [bak EXCEPT ![p] = mem[c]]
        /\ Acked(c, p) /\ UNCHANGED blame
    BY <1>2, <1>3, <1>11, <2>1 DEF Commit, Backup, Promote, TypeOK
  <2>. QED BY <1>0, <1>1, <1>2, <1>3, <1>4, <1>11, <2>1, <2>2 DEF Commit, Acked, TypeOK, CalmRotation
<1>12. CASE CommitUnanswered(c, p)
  BY <1>12 DEF CommitUnanswered, Calm
<1>13. CASE CommitFails(c, p)
  BY <1>0, <1>1, <1>2, <1>3, <1>13 DEF CommitFails, Backup, NotAcked, TypeOK, CalmRotation
<1>14. CASE Undo(c, p)
  BY <1>0, <1>1, <1>2, <1>3, <1>14 DEF Undo, Acked, TypeOK, CalmRotation, history
<1>. QED BY <1>6, <1>7, <1>8, <1>9, <1>10, <1>11, <1>12, <1>13, <1>14 DEF Visit

(* A calm step of the coordinator alone: when the rotation ends, all disks *)
(* hold the old secret or all hold the new one.                            *)
LEMMA ProceedCalm ==
  ASSUME HalfInv, NEW c \in Nodes, Proceed(c), Calm, Calm'
  PROVE  CalmInv'
<1>0. step[c] # "idle"
  BY DEF Proceed, PreflightDone, ReceiveDone, SelfPending, AbortDone, CommitDone, UndoDone,
         SelfCommit, SelfCommitFails, Report
<1>1. \A d \in Nodes : d # c => step[d] = "idle"
  BY <1>0, OneCoordinator DEF HalfInv
<1>2. TypeOK /\ Books(c) /\ Committed(c) /\ CalmRotation(c)
  BY <1>0 DEF HalfInv, SuccessInv, CalmInv
<1>3. \A d \in Nodes : d # c => step'[d] = "idle"
  BY <1>1, <1>2
     DEF Proceed, PreflightDone, ReceiveDone, SelfPending, AbortDone, CommitDone, UndoDone,
         SelfCommit, SelfCommitFails, Report, Enter, TypeOK
<1>4. SUFFICES IF step'[c] = "idle" THEN Agree' ELSE CalmRotation(c)'
  BY <1>3 DEF CalmInv, Idle
<1>5. CASE PreflightDone(c)
  BY <1>2, <1>5 DEF PreflightDone, Enter, TypeOK, CalmRotation, Agree, files, history
<1>6. CASE ReceiveDone(c)
  BY <1>2, <1>6 DEF ReceiveDone, Enter, TypeOK, CalmRotation, Books, Peers, files, history
<1>7. CASE SelfPending(c)
  BY <1>2, <1>7 DEF SelfPending, Enter, TypeOK, CalmRotation, Peers, history
<1>8. CASE AbortDone(c)
  BY <1>2, <1>8 DEF AbortDone, Enter, TypeOK, CalmRotation, Agree, history
<1>9. CASE CommitDone(c)
  BY <1>2, <1>9 DEF CommitDone, Enter, TypeOK, CalmRotation, files, history
<1>10. CASE UndoDone(c)
  BY <1>2, <1>10 DEF UndoDone, Enter, TypeOK, CalmRotation, Agree, history
<1>11. CASE SelfCommit(c)
  BY <1>2, <1>11 DEF SelfCommit, Enter, TypeOK, CalmRotation, history
<1>12. CASE SelfCommitFails(c)
  BY <1>12 DEF SelfCommitFails, Calm
<1>13. CASE Report(c)
  BY <1>2, <1>13 DEF Report, Enter, TypeOK, Committed, Agree
<1>. QED BY <1>5, <1>6, <1>7, <1>8, <1>9, <1>10, <1>11, <1>12, <1>13 DEF Proceed

(* A calm start, proposal or restart.                                      *)
LEMMA OtherCalm ==
  ASSUME Concurrent = FALSE, HalfInv, NEW c \in Nodes,
         StartRotation(c) \/ Propose(c) \/ Restart(c), Calm, Calm'
  PROVE  CalmInv'
<1>1. TypeOK /\ CalmInv
  BY DEF HalfInv, SuccessInv
<1>2. CASE StartRotation(c)
  <2>1. Idle /\ Agree /\ \A n \in Nodes : mem[n] = disk[n]
    BY <1>1, <1>2 DEF StartRotation, CalmInv, Calm
  <2>2. ASSUME NEW d \in Nodes PROVE step'[d] = IF d = c THEN "preflight" ELSE "idle"
    BY <1>1, <1>2, <2>1 DEF StartRotation, Enter, Idle, TypeOK
  <2>3. CalmRotation(c)'
    BY <1>2, <2>1, <2>2 DEF StartRotation, Agree, CalmRotation, files
  <2>. QED BY <2>2, <2>3 DEF CalmInv, Idle
<1>3. CASE Propose(c)
  BY <1>1, <1>3 DEF Propose, CalmInv, Idle, Agree, rotation
<1>4. CASE Restart(c)
  <2>1. Idle
    BY <1>4 DEF Restart, Calm
  <2>. QED BY <1>1, <1>4, <2>1 DEF Restart, Enter, CalmInv, Idle, Agree, TypeOK, files
<1>. QED BY <1>2, <1>3, <1>4

(* The inductive step.                                                     *)
LEMMA StepHalf ==
  ASSUME Concurrent = FALSE
  PROVE  HalfInv /\ [Next]_vars => HalfInv'
<1>1. ASSUME HalfInv, Next PROVE HalfInv'
  <2>1. SuccessInv' /\ OwnSecret'
    BY <1>1, StepSuccess, StepOwnSecret DEF HalfInv, SuccessInv
  <2>2. ASSUME Calm' PROVE CalmInv'
    <3>1. Calm
      BY <1>1, <2>2, CalmBackwards DEF HalfInv, SuccessInv
    <3>. QED BY <1>1, <2>2, <3>1, VisitCalm, ProceedCalm, OtherCalm DEF Next
  <2>3. CalmInv'
    BY <2>2 DEF CalmInv
  <2>. QED BY <2>1, <2>3 DEF HalfInv
<1>2. ASSUME HalfInv, UNCHANGED vars PROVE HalfInv'
  <2>1. SuccessInv'
    BY <1>2, StepSuccess DEF HalfInv
  <2>. QED BY <1>2, <2>1
           DEF HalfInv, OwnSecret, CalmInv, Calm, OneFailedPeer, CalmRotation, Agree, Idle,
               Peers, vars, files, rotation, history
<1>. QED BY <1>1, <1>2

(* The initial state: the cluster agrees.                                  *)
LEMMA InitHalf == Init => HalfInv
BY InitSuccess DEF Init, HalfInv, OwnSecret, CalmInv, Agree

(* When operators wait for each other, restart every node between two      *)
(* rotations and the cluster has left the built-in default, a peer that    *)
(* fails at any point of a rotation leaves all nodes with one secret.      *)
THEOREM FailedPeerNeverHalfRotates ==
  ASSUME Concurrent = FALSE
  PROVE  Spec => []NotHalfRotated
<1>1. HalfInv => NotHalfRotated
  BY DEF HalfInv, CalmInv, Calm, NotHalfRotated, FailedPeerHarmless
<1>. QED BY <1>1, InitHalf, StepHalf, PTL DEF Spec

-----------------------------------------------------------------------------
SealedInv == SuccessInv /\ QuietInv

(* What has failed stays in the history.                                   *)
LEMMA QuietBackwards == ASSUME TypeOK, Next, Quiet' PROVE Quiet
<1>1. /\ blame \subseteq blame'
      /\ doubt => doubt'
  BY DEF TypeOK, Next, Visit, Lost, Preflight, Receive, ReceiveUnanswered, DropPending, Commit,
         CommitUnanswered, CommitFails, Undo, Proceed, PreflightDone, ReceiveDone, SelfPending,
         AbortDone, CommitDone, UndoDone, SelfCommit, SelfCommitFails, Report, StartRotation,
         Propose, Restart, history
<1>. QED BY <1>1 DEF Quiet

(* A visit in which nothing fails.                                         *)
LEMMA VisitQuiet ==
  ASSUME SealedInv, NEW c \in Nodes, NEW p \in Nodes, Visit(c, p), Quiet, Quiet'
  PROVE  QuietInv'
<1>0. step[c] # "idle" /\ p \in todo[c]
  BY DEF Visit, Lost, Preflight, Receive, ReceiveUnanswered, DropPending, Commit,
         CommitUnanswered, CommitFails, Undo
<1>1. p # c /\ \A d \in Nodes : d # c => step[d] = "idle"
  BY <1>0, OneCoordinator DEF SealedInv
<1>2. TypeOK /\ Books(c) /\ QuietRotation(c)
  BY <1>0 DEF SealedInv, SuccessInv, QuietInv
<1>3. UNCHANGED <<mem, step, new>> /\ step[c] # "rekey"
  BY <1>0, <1>2
     DEF Visit, Lost, Preflight, Receive, ReceiveUnanswered, DropPending, Commit,
         CommitUnanswered, CommitFails, Undo, Acked, NotAcked, Books
<1>4. SUFFICES QuietRotation(c)'
  BY <1>0, <1>1, <1>3 DEF QuietInv, Idle
<1>5. ~Lost(c, p) /\ ~ReceiveUnanswered(c, p) /\ ~CommitUnanswered(c, p) /\ ~CommitFails(c, p)
  BY DEF Lost, ReceiveUnanswered, CommitUnanswered, CommitFails, Quiet
<1>6. CASE Preflight(c, p)
  BY <1>1, <1>2, <1>6
     DEF Preflight, Acked, NotAcked, TypeOK, QuietRotation, Accepts, files, history
<1>7. CASE Receive(c, p)
  BY <1>0, <1>1, <1>2, <1>7
     DEF Receive, Acked, NotAcked, TypeOK, QuietRotation, Accepts, Peers, history
<1>8. CASE DropPending(c, p)
  BY <1>1, <1>2, <1>8 DEF DropPending, Acked, TypeOK, QuietRotation, history
<1>9. CASE Commit(c, p)
  <2>1. Committable(c, p)
    BY <1>0, <1>2, <1>9 DEF Commit, Committable, QuietRotation, Books
  <2>2. /\ disk' = [disk EXCEPT ![p] = pend[p]] /\ pend' = [pend EXCEPT ![p] = 0]
        /\ Seal(p, disk[p], pend[p])
        /\ Acked(c, p) /\ step[c] = "commit"
    BY <1>9, <2>1 DEF Commit, Promote
  <2>3. ASSUME NEW n \in Nodes \ unsealed' PROVE vault'[n] = disk'[n]
    BY <1>2, <1>3, <2>2, <2>3 DEF Seal, Rekeyed, QuietRotation, TypeOK
  <2>4. ASSUME NEW q \in todo'[c]
        PROVE  q \in todo[c] /\ q # p /\ Accepts(q, mem[c])' /\ pend'[q] = new[c] /\ q \notin ok'[c]
    BY <1>1, <1>2, <1>3, <2>2, <2>4 DEF Acked, TypeOK, QuietRotation, Accepts
  <2>5. failed'[c] = {}
    BY <1>2, <2>2 DEF Acked, QuietRotation
  <2>. QED BY <1>3, <2>2, <2>3, <2>4, <2>5 DEF QuietRotation
<1>10. CASE Undo(c, p)
  BY <1>2, <1>10 DEF Undo, QuietRotation
<1>. QED BY <1>5, <1>6, <1>7, <1>8, <1>9, <1>10 DEF Visit

(* A step of the coordinator alone in which nothing fails.                 *)
LEMMA ProceedQuiet ==
  ASSUME SealedInv, NEW c \in Nodes, Proceed(c), Quiet, Quiet'
  PROVE  QuietInv'
<1>0. step[c] # "idle"
  BY DEF Proceed, PreflightDone, ReceiveDone, SelfPending, AbortDone, CommitDone, UndoDone,
         SelfCommit, SelfCommitFails, Report
<1>1. \A d \in Nodes : d # c => step[d] = "idle"
  BY <1>0, OneCoordinator DEF SealedInv
<1>2. TypeOK /\ Books(c) /\ Committed(c) /\ QuietRotation(c)
  BY <1>0 DEF SealedInv, SuccessInv, QuietInv
<1>3. \A d \in Nodes : d # c => step'[d] = "idle"
  BY <1>1, <1>2
     DEF Proceed, PreflightDone, ReceiveDone, SelfPending, AbortDone, CommitDone, UndoDone,
         SelfCommit, SelfCommitFails, Report, Enter, TypeOK
<1>4. SUFFICES IF step'[c] = "idle"
                 THEN (\A n \in Nodes \ unsealed : vault[n] = disk[n])'
                 ELSE QuietRotation(c)'
  BY <1>3 DEF QuietInv, Idle
<1>5. CASE PreflightDone(c)
  BY <1>2, <1>5
     DEF PreflightDone, Enter, TypeOK, QuietRotation, Accepts, Books, Peers, files, history
<1>6. CASE ReceiveDone(c)
  BY <1>2, <1>6
     DEF ReceiveDone, Enter, TypeOK, QuietRotation, Accepts, Books, Peers, files, history
<1>7. CASE SelfPending(c)
  BY <1>2, <1>7 DEF SelfPending, Enter, TypeOK, QuietRotation, Accepts, Peers, history
<1>8. CASE AbortDone(c)
  BY <1>2, <1>8 DEF AbortDone, Enter, TypeOK, QuietRotation, history
<1>9. CASE CommitDone(c)
  BY <1>2, <1>9 DEF CommitDone, Enter, TypeOK, QuietRotation, files, history
<1>10. CASE UndoDone(c)
  BY <1>2, <1>10 DEF UndoDone, QuietRotation
<1>11. CASE SelfCommit(c)
  BY <1>2, <1>11 DEF SelfCommit, Enter, Promote, TypeOK, QuietRotation, Books, history
<1>12. CASE SelfCommitFails(c)
  BY <1>12 DEF SelfCommitFails, Quiet
<1>13. CASE Report(c)
  BY <1>2, <1>13 DEF Report, Enter, Seal, Rekeyed, TypeOK, QuietRotation, Committed
<1>. QED BY <1>5, <1>6, <1>7, <1>8, <1>9, <1>10, <1>11, <1>12, <1>13 DEF Proceed

(* A start, a proposal, or a restart between two rotations.                *)
LEMMA OtherQuiet ==
  ASSUME Concurrent = FALSE, SealedInv, NEW c \in Nodes,
         StartRotation(c) \/ Propose(c) \/ Restart(c), Quiet, Quiet'
  PROVE  QuietInv'
<1>1. TypeOK /\ QuietInv
  BY DEF SealedInv, SuccessInv
<1>2. CASE StartRotation(c)
  <2>1. Idle /\ \A n \in Nodes \ unsealed : vault[n] = disk[n]
    BY <1>1, <1>2 DEF StartRotation, QuietInv
  <2>2. ASSUME NEW d \in Nodes PROVE step'[d] = IF d = c THEN "preflight" ELSE "idle"
    BY <1>1, <1>2, <2>1 DEF StartRotation, Enter, Idle, TypeOK
  <2>3. QuietRotation(c)'
    BY <1>1, <1>2, <2>1, <2>2 DEF StartRotation, Enter, TypeOK, QuietRotation, files
  <2>. QED BY <2>2, <2>3 DEF QuietInv, Idle
<1>3. CASE Propose(c)
  BY <1>1, <1>3 DEF Propose, QuietInv, Idle, rotation, history
<1>4. CASE Restart(c)
  <2>1. Idle
    BY <1>4 DEF Restart, Quiet
  <2>. QED BY <1>1, <1>4, <2>1 DEF Restart, Enter, QuietInv, Idle, TypeOK, files
<1>. QED BY <1>2, <1>3, <1>4

(* The inductive step.                                                     *)
LEMMA StepSealed ==
  ASSUME Concurrent = FALSE
  PROVE  SealedInv /\ [Next]_vars => SealedInv'
<1>1. ASSUME SealedInv, Next PROVE SealedInv'
  <2>1. SuccessInv'
    BY <1>1, StepSuccess DEF SealedInv
  <2>2. ASSUME Quiet' PROVE QuietInv'
    <3>1. Quiet
      BY <1>1, <2>2, QuietBackwards DEF SealedInv, SuccessInv
    <3>. QED BY <1>1, <2>2, <3>1, VisitQuiet, ProceedQuiet, OtherQuiet DEF Next
  <2>3. QuietInv'
    BY <2>2 DEF QuietInv
  <2>. QED BY <2>1, <2>3 DEF SealedInv
<1>2. ASSUME SealedInv, UNCHANGED vars PROVE SealedInv'
  <2>1. SuccessInv'
    BY <1>2, StepSuccess DEF SealedInv
  <2>. QED BY <1>2, <2>1
           DEF SealedInv, QuietInv, Quiet, QuietRotation, Accepts, Idle,
               Peers, vars, files, rotation, history
<1>. QED BY <1>1, <1>2

(* The initial state: the credentials are sealed under the secret on disk. *)
LEMMA InitSealed == Init => SealedInv
BY InitSuccess DEF Init, SealedInv, QuietInv

(* When operators wait for each other and every request is carried out, a  *)
(* node whose re-keying did not fail can open its credentials with the     *)
(* secret it will be restarted with.                                       *)
THEOREM CredentialsFollowTheSecret ==
  ASSUME Concurrent = FALSE
  PROVE  Spec => []VaultFollows
<1>1. SealedInv => VaultFollows
  BY DEF SealedInv, QuietInv, Quiet, VaultFollows
<1>. QED BY <1>1, InitSealed, StepSealed, PTL DEF Spec
=============================================================================
