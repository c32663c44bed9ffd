---------------------------- MODULE WolfHaVmChain ----------------------------
(***************************************************************************)
(* Incremental disk replication of a WolfHA-protected virtual machine.     *)
(*                                                                         *)
(* The primary records guest writes in a QEMU dirty bitmap.  A sync round  *)
(* (wolfha::sync_container_now) copies the dirty blocks into a staged      *)
(* delta, which clears the bitmap, and uploads the delta to every standby. *)
(* A delta carries the chain token of the disk state it was taken against  *)
(* (prev) and the token of the state it leads to (next); a standby applies *)
(* it only when its own token is prev.  Everything else ends in a full     *)
(* image, the seed.                                                        *)
(*                                                                         *)
(* This module is one epoch of that protocol: one node is the primary      *)
(* throughout.                                                             *)
(*                                                                         *)
(* A disk is a function from blocks to versions: the version of a block is *)
(* the number of the guest write that produced it, 0 for the content both  *)
(* sides had when protection began.  A token is a number; 0 is the empty   *)
(* string that stands for "no token" in the code.                          *)
(***************************************************************************)
EXTENDS Integers, FiniteSets

CONSTANTS
  Nodes,      \* the nodes that hold a copy of the VM
  Home,       \* the node WolfHA was enabled on
  Blocks,     \* the clusters of the virtual disk
  MaxToken,   \* bound: chain tokens ever minted
  MaxWrites,  \* bound: guest writes
  MaxNet      \* bound: uploads in flight, the abandoned ones included

ASSUME HomeAssumption == Home \in Nodes
ASSUME BoundsAssumption ==
  MaxToken \in Nat \ {0} /\ MaxWrites \in Nat /\ MaxNet \in Nat \ {0}

VARIABLES
  role,      \* HaEntry.role of each node; "none": no entry and no VM of that
             \* name, "orphan": a VM definition and no entry for it
  stale,     \* HaEntry.stale
  chain,     \* HaEntry.vm_chain
  pending,   \* HaEntry.pending_vm_delta
  running,   \* whether a QEMU process runs the copy on the node
  disk,      \* the qcow2 of each copy
  dirty,     \* the dirty bitmap of each copy
  tracking,  \* "recording", or "bad" after QEMU was killed
  pc,        \* where the node's sync round is
  work,      \* the delta the round ships; token 0 for none
  todo,      \* the standbys the round still has to visit
  out,       \* the upload the round waits for
  reply,     \* the answer to that upload, once it has arrived
  seed,      \* the full image staged for the round
  net,       \* uploads that may still reach their standby
  content,   \* the disk state each token was minted for
  minted,    \* tokens minted so far
  writes     \* guest writes so far

store == <<role, stale, chain, pending>>
images == <<running, disk, dirty, tracking>>
round == <<pc, work, todo, out, reply, seed>>
vars == <<store, images, round, net, content, minted, writes>>

Versions == 0 .. MaxWrites
Tokens == 0 .. MaxToken
Disks == [Blocks -> Versions]

Deltas == [token : Tokens, blocks : SUBSET Blocks, applied : SUBSET Nodes,
           staged : BOOLEAN]
NoDelta == [token |-> 0, blocks |-> {}, applied |-> {}, staged |-> FALSE]

Works == [token : Tokens, blocks : SUBSET Blocks]
NoWork == [token |-> 0, blocks |-> {}]

Seeds == [token : Tokens, image : Disks]
ZeroDisk == [b \in Blocks |-> 0]
NoSeed == [token |-> 0, image |-> ZeroDisk]

(* A seed is an upload that overwrites every block and asks for no base.   *)
Uploads == [kind : {"none", "delta", "seed"}, from : Nodes, to : Nodes,
            prev : Tokens, next : Tokens, blocks : SUBSET Blocks,
            image : Disks]
NoUpload == [kind |-> "none", from |-> Home, to |-> Home, prev |-> 0,
             next |-> 0, blocks |-> {}, image |-> ZeroDisk]

Peers(n) == Nodes \ {n}
ActivePrimary(n) == role[n] = "primary" /\ ~stale[n]

(***************************************************************************)
(* wolfha_enable has just succeeded: the bitmap was attached first, every  *)
(* standby holds the seed image and the seed's token.                      *)
(***************************************************************************)
Init ==
  /\ role = [n \in Nodes |-> IF n = Home THEN "primary" ELSE "replica"]
  /\ stale = [n \in Nodes |-> FALSE]
  /\ chain = [n \in Nodes |-> 1]
  /\ pending = [n \in Nodes |-> NoDelta]
  /\ running = [n \in Nodes |-> n = Home]
  /\ disk = [n \in Nodes |-> ZeroDisk]
  /\ dirty = [n \in Nodes |-> {}]
  /\ tracking = [n \in Nodes |-> "recording"]
  /\ pc = [n \in Nodes |-> "idle"]
  /\ work = [n \in Nodes |-> NoWork]
  /\ todo = [n \in Nodes |-> {}]
  /\ out = [n \in Nodes |-> NoUpload]
  /\ reply = [n \in Nodes |-> "none"]
  /\ seed = [n \in Nodes |-> NoSeed]
  /\ net = {}
  /\ content = [t \in Tokens |-> ZeroDisk]
  /\ minted = 1
  /\ writes = 0

-----------------------------------------------------------------------------
(* The guest and its QEMU process.                                         *)

(* A guest write; a recording bitmap marks the block.                      *)
GuestWrite(n, b) ==
  /\ running[n] /\ writes < MaxWrites
  /\ writes' = writes + 1
  /\ disk' = [disk EXCEPT ![n][b] = writes + 1]
  /\ dirty' = [dirty EXCEPT ![n] =
                 IF tracking[n] = "recording" THEN @ \cup {b} ELSE @]
  /\ UNCHANGED <<store, running, tracking, round, net, content, minted>>

(* A clean shutdown saves the persistent bitmap in the image.              *)
VmStop(n) ==
  /\ running[n]
  /\ running' = [running EXCEPT ![n] = FALSE]
  /\ UNCHANGED <<store, disk, dirty, tracking, round, net, content, minted, writes>>

(* The operator or the boot guard starts the primary's copy.               *)
VmStart(n) ==
  /\ ActivePrimary(n) /\ ~running[n]
  /\ running' = [running EXCEPT ![n] = TRUE]
  /\ UNCHANGED <<store, disk, dirty, tracking, round, net, content, minted, writes>>

(* What a round keeps in memory is gone when its process ends.             *)
RoundOver(n) ==
  /\ pc' = [pc EXCEPT ![n] = "idle"]
  /\ work' = [work EXCEPT ![n] = NoWork]
  /\ todo' = [todo EXCEPT ![n] = {}]
  /\ out' = [out EXCEPT ![n] = NoUpload]
  /\ reply' = [reply EXCEPT ![n] = "none"]
  /\ seed' = [seed EXCEPT ![n] = NoSeed]

(* The machine loses power: the persistent bitmap was never written back   *)
(* (BitmapState::Inconsistent) and the sync task dies with the service.    *)
MachineCrash(n) ==
  /\ running[n] /\ pc[n] # "record"
  /\ running' = [running EXCEPT ![n] = FALSE]
  /\ tracking' = [tracking EXCEPT ![n] = "bad"]
  /\ RoundOver(n)
  /\ UNCHANGED <<store, disk, dirty, net, content, minted, writes>>

(* Only the wolfstack service restarts: QEMU keeps running.                *)
ServiceRestart(n) ==
  /\ pc[n] \notin {"idle", "record"}
  /\ RoundOver(n)
  /\ UNCHANGED <<store, images, net, content, minted, writes>>

(* The service dies after QEMU cleared the bitmap and before the delta is  *)
(* in the store.  Not a step of Next: see SpecTakeCrash.                   *)
TakeCrash(n) ==
  /\ pc[n] = "record"
  /\ RoundOver(n)
  /\ UNCHANGED <<store, images, net, content, minted, writes>>

(* The staging directory is emptied under the primary.                     *)
LoseStaged(n) ==
  /\ pending[n].token # 0 /\ pending[n].staged
  /\ pending' = [pending EXCEPT ![n].staged = FALSE]
  /\ UNCHANGED <<role, stale, chain, images, round, net, content, minted, writes>>

(* A standby's copy and its entry are wiped (a reinstalled node).          *)
LoseCopy(n) ==
  /\ role[n] \in {"replica", "orphan"} /\ ~running[n]
  /\ role' = [role EXCEPT ![n] = "none"]
  /\ stale' = [stale EXCEPT ![n] = FALSE]
  /\ chain' = [chain EXCEPT ![n] = 0]
  /\ pending' = [pending EXCEPT ![n] = NoDelta]
  /\ disk' = [disk EXCEPT ![n] = ZeroDisk]
  /\ UNCHANGED <<running, dirty, tracking, round, net, content, minted, writes>>

-----------------------------------------------------------------------------
(* The sync round on the primary.                                          *)

(* Mutant: a lost delta is forgotten, the chain it broke is kept.          *)
BeginRoundKeepsChain(n) ==
  /\ pc[n] = "idle" /\ ActivePrimary(n)
  /\ IF pending[n].token # 0 /\ pending[n].staged
       THEN /\ pc' = [pc EXCEPT ![n] = "ship"]
            /\ work' = [work EXCEPT ![n] = [token |-> pending[n].token,
                                             blocks |-> pending[n].blocks]]
            /\ todo' = [todo EXCEPT ![n] = Peers(n) \ pending[n].applied]
            /\ UNCHANGED pending
       ELSE /\ pc' = [pc EXCEPT ![n] = "take"]
            /\ pending' = [pending EXCEPT ![n] = NoDelta]
            /\ UNCHANGED <<work, todo>>
  /\ UNCHANGED <<role, stale, chain, images, out, reply, seed, net, content, minted, writes>>

(* Mutant: a retried round visits the standbys that have confirmed.        *)
BeginRoundRetriesDone(n) ==
  /\ pc[n] = "idle" /\ ActivePrimary(n)
  /\ IF pending[n].token # 0 /\ pending[n].staged
       THEN /\ pc' = [pc EXCEPT ![n] = "ship"]
            /\ work' = [work EXCEPT ![n] = [token |-> pending[n].token,
                                             blocks |-> pending[n].blocks]]
            /\ todo' = [todo EXCEPT ![n] = pending[n].applied]
            /\ UNCHANGED <<pending, chain>>
       ELSE /\ pc' = [pc EXCEPT ![n] = "take"]
            /\ chain' = [chain EXCEPT ![n] = IF pending[n].token # 0 THEN 0 ELSE @]
            /\ pending' = [pending EXCEPT ![n] = NoDelta]
            /\ UNCHANGED <<work, todo>>
  /\ UNCHANGED <<role, stale, images, out, reply, seed, net, content, minted, writes>>

(* The round's entry checks.  An outstanding delta whose file is still     *)
(* there is shipped again; one whose file is gone breaks the chain.        *)
BeginRound(n) ==
  /\ pc[n] = "idle" /\ ActivePrimary(n)
  /\ IF pending[n].token # 0 /\ pending[n].staged
       THEN /\ pc' = [pc EXCEPT ![n] = "ship"]
            /\ work' = [work EXCEPT ![n] = [token |-> pending[n].token,
                                             blocks |-> pending[n].blocks]]
            /\ todo' = [todo EXCEPT ![n] = Peers(n) \ pending[n].applied]
            /\ UNCHANGED <<pending, chain>>
       ELSE /\ pc' = [pc EXCEPT ![n] = "take"]
            /\ chain' = [chain EXCEPT ![n] = IF pending[n].token # 0 THEN 0 ELSE @]
            /\ pending' = [pending EXCEPT ![n] = NoDelta]
            /\ UNCHANGED <<work, todo>>
  /\ UNCHANGED <<role, stale, images, out, reply, seed, net, content, minted, writes>>

(* A running VM: blockdev-backup copies the dirty blocks and, on success,  *)
(* clears them from the bitmap.                                            *)
TakeDelta(n) ==
  /\ pc[n] = "take" /\ running[n] /\ tracking[n] = "recording"
  /\ minted < MaxToken
  /\ minted' = minted + 1
  /\ content' = [content EXCEPT ![minted + 1] = disk[n]]
  /\ work' = [work EXCEPT ![n] = [token |-> minted + 1, blocks |-> dirty[n]]]
  /\ dirty' = [dirty EXCEPT ![n] = {}]
  /\ pc' = [pc EXCEPT ![n] = "record"]
  /\ UNCHANGED <<store, running, disk, tracking, todo, out, reply, seed, net, writes>>

(* take_incremental refuses a bitmap it cannot trust, and the round ends.  *)
TakeRefused(n) ==
  /\ pc[n] = "take" /\ running[n] /\ tracking[n] = "bad"
  /\ RoundOver(n)
  /\ UNCHANGED <<store, images, net, content, minted, writes>>

(* A stopped VM has nothing to take; the round still visits the standbys.  *)
TakeNothing(n) ==
  /\ pc[n] = "take" /\ ~running[n]
  /\ pc' = [pc EXCEPT ![n] = "ship"]
  /\ todo' = [todo EXCEPT ![n] = Peers(n)]
  /\ UNCHANGED <<store, images, work, out, reply, seed, net, content, minted, writes>>

(* The delta enters the store before anything is uploaded.                 *)
RecordPending(n) ==
  /\ pc[n] = "record"
  /\ pending' = [pending EXCEPT ![n] =
                   [token |-> work[n].token, blocks |-> work[n].blocks,
                    applied |-> {}, staged |-> TRUE]]
  /\ todo' = [todo EXCEPT ![n] = Peers(n)]
  /\ pc' = [pc EXCEPT ![n] = "ship"]
  /\ UNCHANGED <<role, stale, chain, images, work, out, reply, seed, net,
                 content, minted, writes>>

Upload(n, m) ==
  /\ Cardinality(net \cup {m}) <= MaxNet
  /\ net' = net \cup {m}
  /\ out' = [out EXCEPT ![n] = m]
  /\ reply' = [reply EXCEPT ![n] = "none"]
  /\ pc' = [pc EXCEPT ![n] = "wait"]

DeltaFor(n, r) ==
  [kind |-> "delta", from |-> n, to |-> r, prev |-> chain[n],
   next |-> work[n].token, blocks |-> work[n].blocks,
   image |-> content[work[n].token]]

(* The base is read from the store at each upload, not once per round.     *)
SendDelta(n, r) ==
  /\ pc[n] = "ship" /\ r \in todo[n] /\ work[n].token # 0
  /\ pending[n].staged
  /\ Upload(n, DeltaFor(n, r))
  /\ UNCHANGED <<store, images, work, todo, seed, content, minted, writes>>

(* A round without a delta only looks for a broken chain: the marker that  *)
(* last_sync is searched for was replaced by the re-seed's own outcome.    *)
VisitStopped(n, r) ==
  /\ pc[n] = "ship" /\ r \in todo[n] /\ work[n].token = 0
  /\ IF chain[n] = 0
       THEN /\ pc' = [pc EXCEPT ![n] = "reseed"]
            /\ out' = [out EXCEPT ![n] = [NoUpload EXCEPT !.to = r]]
            /\ UNCHANGED todo
       ELSE /\ todo' = [todo EXCEPT ![n] = @ \ {r}]
            /\ UNCHANGED <<pc, out>>
  /\ UNCHANGED <<store, images, work, reply, seed, net, content, minted, writes>>

(* The full image, staged once per round, and the token handed out with    *)
(* it: the outstanding delta's, else the chain's, else a new one.          *)
SeedToken(n) == IF pending[n].token # 0 THEN pending[n].token
                ELSE IF chain[n] # 0 THEN chain[n] ELSE minted + 1

StageSeed(n) ==
  /\ pc[n] = "reseed" /\ seed[n].token = 0 /\ role[n] \notin {"none", "orphan"}
  /\ seed' = [seed EXCEPT ![n] = [token |-> SeedToken(n), image |-> disk[n]]]
  /\ IF SeedToken(n) = minted + 1
       THEN /\ minted < MaxToken
            /\ minted' = minted + 1
            /\ content' = [content EXCEPT ![minted + 1] = disk[n]]
            /\ chain' = [chain EXCEPT ![n] = minted + 1]
       ELSE UNCHANGED <<minted, content, chain>>
  /\ UNCHANGED <<role, stale, pending, images, pc, work, todo, out, reply, net, writes>>

SeedFor(n, r) ==
  [kind |-> "seed", from |-> n, to |-> r, prev |-> 0, next |-> seed[n].token,
   blocks |-> Blocks, image |-> seed[n].image]

SendSeed(n) ==
  /\ pc[n] = "reseed" /\ seed[n].token # 0 /\ role[n] = "primary"
  /\ Upload(n, SeedFor(n, out[n].to))
  /\ UNCHANGED <<store, images, work, todo, seed, content, minted, writes>>

(* Done with standby r, whatever came of it.                               *)
NextPeer(n, r) ==
  /\ todo' = [todo EXCEPT ![n] = @ \ {r}]
  /\ out' = [out EXCEPT ![n] = NoUpload]
  /\ reply' = [reply EXCEPT ![n] = "none"]
  /\ pc' = [pc EXCEPT ![n] = "ship"]

(* A success is recorded in the outstanding delta, if there still is one.  *)
Confirmed(n) ==
  /\ pc[n] = "wait" /\ reply[n] = "ok"
  /\ pending' = [pending EXCEPT ![n].applied =
                   IF pending[n].token # 0 THEN @ \cup {out[n].to} ELSE @]
  /\ NextPeer(n, out[n].to)
  /\ UNCHANGED <<role, stale, chain, images, work, seed, net, content, minted, writes>>

(* The standby asked for a seed in place of the delta.                     *)
Refused(n) ==
  /\ pc[n] = "wait" /\ reply[n] = "needs_seed"
  /\ pc' = [pc EXCEPT ![n] = "reseed"]
  /\ reply' = [reply EXCEPT ![n] = "none"]
  /\ UNCHANGED <<store, images, work, todo, out, seed, net, content, minted, writes>>

(* The upload or the staging failed, or its answer never came: the standby *)
(* is left for the next round.  The request may still be on its way.       *)
Failed(n) ==
  /\ \/ pc[n] = "wait" /\ reply[n] \in {"none", "error"}
     \/ pc[n] = "reseed"
  /\ NextPeer(n, out[n].to)
  /\ UNCHANGED <<store, images, work, seed, net, content, minted, writes>>

(* The connection is refused, or the staged file is gone.                  *)
Unreachable(n, r) ==
  /\ pc[n] = "ship" /\ r \in todo[n] /\ work[n].token # 0
  /\ NextPeer(n, r)
  /\ UNCHANGED <<store, images, work, seed, net, content, minted, writes>>

(* The delta is dropped only when every standby has confirmed it; its      *)
(* token is then the base of the next one.                                 *)
FinishRound(n) ==
  /\ pc[n] = "ship" /\ todo[n] = {}
  /\ IF work[n].token # 0 /\ pending[n].token # 0 /\ Peers(n) \subseteq pending[n].applied
       THEN /\ chain' = [chain EXCEPT ![n] = pending[n].token]
            /\ pending' = [pending EXCEPT ![n] = NoDelta]
       ELSE UNCHANGED <<chain, pending>>
  /\ RoundOver(n)
  /\ UNCHANGED <<role, stale, images, net, content, minted, writes>>

-----------------------------------------------------------------------------
(* The standby.                                                            *)

(* What wolfha_apply_vm_delta and vm_apply_delta make of a delta.          *)
DeltaVerdict(m) ==
  IF role[m.to] \in {"none", "orphan"} THEN "needs_seed"
  ELSE IF ActivePrimary(m.to) \/ running[m.to] THEN "error"
  ELSE IF m.prev = 0 \/ m.next = 0 \/ chain[m.to] \notin {m.prev, m.next} THEN "needs_seed"
  ELSE IF chain[m.to] = m.next THEN "ok" ELSE "apply"

(* install_vm_seed overwrites nothing but a dormant WolfHA copy: a VM of   *)
(* that name without an entry is somebody else's.                          *)
SeedVerdict(m) ==
  IF m.next # 0 /\ role[m.to] # "orphan" /\ ~ActivePrimary(m.to) /\ ~running[m.to]
  THEN "install" ELSE "error"

Overlay(old, m) == [b \in Blocks |-> IF b \in m.blocks THEN m.image[b] ELSE old[b]]

(* The answer reaches the round only if it still waits for this upload;    *)
(* it may be lost, and the upload may be repeated on the other URL.        *)
Answer(m, v) ==
  /\ reply' \in {reply} \cup
       (IF out[m.from] = m /\ pc[m.from] = "wait"
          THEN {[reply EXCEPT ![m.from] = v]} ELSE {})
  /\ net' \in {net, net \ {m}}

(* Mutant: every delta is answered, also one that has to be applied first. *)
AnswerEveryDelta(m) ==
  /\ m.kind = "delta"
  /\ stale' = [stale EXCEPT ![m.to] = IF DeltaVerdict(m) = "ok" THEN FALSE ELSE @]
  /\ Answer(m, DeltaVerdict(m))
  /\ UNCHANGED <<role, chain, pending, images, pc, work, todo, out, seed,
                 content, minted, writes>>

ReceiveDelta(m) ==
  /\ m.kind = "delta" /\ DeltaVerdict(m) # "apply"
  /\ stale' = [stale EXCEPT ![m.to] = IF DeltaVerdict(m) = "ok" THEN FALSE ELSE @]
  /\ Answer(m, DeltaVerdict(m))
  /\ UNCHANGED <<role, chain, pending, images, pc, work, todo, out, seed,
                 content, minted, writes>>

(* The commit lands, then the token is advanced.                           *)
ApplyDelta(m) ==
  /\ m.kind = "delta" /\ DeltaVerdict(m) = "apply"
  /\ disk' = [disk EXCEPT ![m.to] = Overlay(@, m)]
  /\ chain' = [chain EXCEPT ![m.to] = m.next]
  /\ stale' = [stale EXCEPT ![m.to] = FALSE]
  /\ Answer(m, "ok")
  /\ UNCHANGED <<role, pending, running, dirty, tracking, pc, work, todo, out,
                 seed, content, minted, writes>>

(* The standby dies during qemu-img commit, or fails after it: some blocks *)
(* are written, the token is not advanced.                                 *)
TornDelta(m) ==
  /\ m.kind = "delta" /\ DeltaVerdict(m) = "apply"
  /\ \E done \in SUBSET m.blocks :
       disk' = [disk EXCEPT ![m.to] = Overlay(@, [m EXCEPT !.blocks = done])]
  /\ Answer(m, "error")
  /\ UNCHANGED <<store, running, dirty, tracking, pc, work, todo, out, seed,
                 content, minted, writes>>

(* The seed replaces disk, definition and entry.                           *)
InstallSeed(m) ==
  /\ m.kind = "seed" /\ SeedVerdict(m) = "install"
  /\ disk' = [disk EXCEPT ![m.to] = Overlay(@, m)]
  /\ role' = [role EXCEPT ![m.to] = "replica"]
  /\ stale' = [stale EXCEPT ![m.to] = FALSE]
  /\ chain' = [chain EXCEPT ![m.to] = m.next]
  /\ pending' = [pending EXCEPT ![m.to] = NoDelta]
  /\ Answer(m, "ok")
  /\ UNCHANGED <<running, dirty, tracking, pc, work, todo, out, seed,
                 content, minted, writes>>

(* The image is in place but the entry is not saved: the definition could  *)
(* not be written, or what comes after it failed, or the standby died.  A  *)
(* first seed may so leave a definition without an entry.  A copy that has *)
(* an entry keeps it; that case only while the primary waits.              *)
TornSeed(m) ==
  /\ m.kind = "seed" /\ SeedVerdict(m) = "install"
  /\ role[m.to] # "none" => out[m.from] = m /\ pc[m.from] = "wait"
  /\ disk' = [disk EXCEPT ![m.to] = Overlay(@, m)]
  /\ role' \in {role} \cup
       (IF role[m.to] = "none" THEN {[role EXCEPT ![m.to] = "orphan"]} ELSE {})
  /\ Answer(m, "error")
  /\ UNCHANGED <<stale, chain, pending, running, dirty, tracking, pc, work, todo, out,
                 seed, content, minted, writes>>

RefuseSeed(m) ==
  /\ m.kind = "seed" /\ SeedVerdict(m) = "error"
  /\ Answer(m, "error")
  /\ UNCHANGED <<store, images, pc, work, todo, out, seed, content, minted, writes>>

(* The network or the standby drops an upload.                             *)
Drop(m) ==
  /\ net' = net \ {m}
  /\ UNCHANGED <<store, images, round, content, minted, writes>>

-----------------------------------------------------------------------------
Guest(n) == VmStop(n) \/ VmStart(n) \/ (\E b \in Blocks : GuestWrite(n, b))

Faults(n) == MachineCrash(n) \/ ServiceRestart(n) \/ LoseStaged(n) \/ LoseCopy(n)

RoundStep(n) ==
  \/ BeginRound(n) \/ TakeDelta(n) \/ TakeRefused(n) \/ TakeNothing(n)
  \/ RecordPending(n) \/ StageSeed(n) \/ SendSeed(n)
  \/ Confirmed(n) \/ Refused(n) \/ Failed(n) \/ FinishRound(n)
  \/ \E r \in Nodes : SendDelta(n, r) \/ VisitStopped(n, r) \/ Unreachable(n, r)

Receive(m) ==
  ReceiveDelta(m) \/ ApplyDelta(m) \/ TornDelta(m) \/ InstallSeed(m)
  \/ TornSeed(m) \/ RefuseSeed(m) \/ Drop(m)

Next ==
  \/ \E n \in Nodes : Guest(n) \/ Faults(n) \/ RoundStep(n)
  \/ \E m \in net : Receive(m)

Spec == Init /\ [][Next]_vars

(* The same system in which the service may also die in the window between *)
(* the backup job's success and the save of the pending delta.             *)
SpecTakeCrash == Init /\ [][Next \/ \E n \in Nodes : TakeCrash(n)]_vars

-----------------------------------------------------------------------------
(* Types of the variables.                                                 *)
TypeOK ==
  /\ role \in [Nodes -> {"primary", "replica", "none", "orphan"}]
  /\ stale \in [Nodes -> BOOLEAN]
  /\ chain \in [Nodes -> Tokens]
  /\ pending \in [Nodes -> Deltas]
  /\ running \in [Nodes -> BOOLEAN]
  /\ disk \in [Nodes -> Disks]
  /\ dirty \in [Nodes -> SUBSET Blocks]
  /\ tracking \in [Nodes -> {"recording", "bad"}]
  /\ pc \in [Nodes -> {"idle", "take", "record", "ship", "wait", "reseed"}]
  /\ work \in [Nodes -> Works]
  /\ todo \in [Nodes -> SUBSET Nodes]
  /\ out \in [Nodes -> Uploads]
  /\ reply \in [Nodes -> {"none", "ok", "needs_seed", "error"}]
  /\ seed \in [Nodes -> Seeds]
  /\ net \in SUBSET Uploads
  /\ content \in [Tokens -> Disks]
  /\ minted \in Tokens
  /\ writes \in Versions

(* The blocks a delta taken now would carry: all of them where QEMU has    *)
(* lost the bitmap, since no delta can be taken until it is replaced.      *)
Covered(n) == IF tracking[n] = "recording" THEN dirty[n] ELSE Blocks

(* The token of the newest disk state a standby can have been given.       *)
Newest(n) == IF pc[n] = "record" THEN work[n].token
             ELSE IF pending[n].token # 0 THEN pending[n].token ELSE chain[n]

(* Blocks of the delta that is between the bitmap and the standbys.        *)
Outstanding(n) == IF pc[n] = "record" THEN work[n].blocks ELSE pending[n].blocks

(* A block of a standby may be older than the primary's only if the        *)
(* primary still has it to send: in the bitmap, or in the delta the        *)
(* standby's token says it has not applied.  A standby that is behind and  *)
(* whose token would nevertheless accept the next delta has diverged in    *)
(* silence (vm_apply_delta: "LOOKS healthy and is silently corrupt").      *)
StandbyFits ==
  \A p, r \in Nodes :
    (ActivePrimary(p) /\ role[r] = "replica" /\ chain[r] # 0) =>
      /\ chain[r] = Newest(p) =>
           \A b \in Blocks \ Covered(p) : disk[r][b] = disk[p][b]
      /\ chain[r] = chain[p] =>
           \A b \in Blocks \ (Covered(p) \cup Outstanding(p)) : disk[r][b] = disk[p][b]
=============================================================================
