------------------------- MODULE WolfHaVmChainProofs -------------------------
(***************************************************************************)
(* Proofs about WolfHaVmChain: for every set of nodes and blocks and every *)
(* bound, a standby's copy fits the chain (StandbyFits).                   *)
(*                                                                         *)
(* The argument is about the disk state each token was minted for.  A copy *)
(* with token t need not BE that state (a seed of a running VM holds later *)
(* writes too), but where it differs, the primary has written the block    *)
(* since, so the block is in the bitmap or in the outstanding delta.       *)
(***************************************************************************)
EXTENDS WolfHaVmChain, TLAPS

(* The image agrees with token t's state except where the primary's disk   *)
(* has moved on from it.                                                   *)
Fits(image, t) ==
  \A b \in Blocks : image[b] = content[t][b] \/ disk[Home][b] # content[t][b]

(* The blocks lead from t's state to u's.                                  *)
Leads(t, u, blocks) == \A b \in Blocks \ blocks : content[t][b] = content[u][b]

(* Only the home node is ever a primary, runs the VM and has a round.      *)
OnlyHome ==
  /\ role[Home] = "primary" /\ ~stale[Home]
  /\ \A n \in Nodes \ {Home} :
       /\ role[n] # "primary" /\ ~running[n] /\ pc[n] = "idle"
       /\ pending[n] = NoDelta /\ (role[n] # "replica" => chain[n] = 0)

(* No token is in use before it was minted.                                *)
MintedTokens ==
  /\ minted >= 1
  /\ \A n \in Nodes : /\ chain[n] <= minted /\ pending[n].token <= minted
                      /\ work[n].token <= minted /\ seed[n].token <= minted
  /\ \A m \in net : m.prev <= m.next /\ m.next <= minted

(* Versions only grow along the chain, and the primary has the newest.     *)
Growing ==
  /\ \A b \in Blocks : disk[Home][b] <= writes
  /\ \A t \in 1 .. minted, b \in Blocks : content[t][b] <= disk[Home][b]
  /\ \A t, u \in 1 .. minted, b \in Blocks : t <= u => content[t][b] <= content[u][b]

(* The delta a round ships is the one in the store.                        *)
RoundShape ==
  /\ pending[Home].token = 0 => pending[Home].blocks = {}
  /\ pending[Home].token # 0 => chain[Home] <= pending[Home].token
  /\ pc[Home] \in {"take", "record"} => pending[Home].token = 0
  /\ pc[Home] \in {"idle", "take"} => work[Home] = NoWork
  /\ pc[Home] = "record" => work[Home].token # 0 /\ chain[Home] <= work[Home].token
  /\ pc[Home] \in {"ship", "wait", "reseed"} =>
       pending[Home].token = work[Home].token /\ pending[Home].blocks = work[Home].blocks

(* What the bitmap does not mark is as the newest token says.              *)
BitmapCovers ==
  (tracking[Home] = "recording" /\ Newest(Home) # 0) =>
    \A b \in Blocks \ dirty[Home] : disk[Home][b] = content[Newest(Home)][b]

(* The outstanding delta leads from the chain's state to its own.          *)
DeltaLeads ==
  chain[Home] # 0 => Leads(chain[Home], Newest(Home), Outstanding(Home))

CopiesFit == \A r \in Nodes \ {Home} : chain[r] # 0 => Fits(disk[r], chain[r])

(* The seed staged for the round is not older than any token.              *)
SeedIsNew ==
  /\ seed[Home].token # 0 =>
       \A b \in Blocks :
         /\ seed[Home].image[b] <= disk[Home][b]
         /\ \A t \in 1 .. minted : content[t][b] <= seed[Home].image[b]
  /\ pc[Home] \in {"idle", "take", "record"} => seed[Home].token = 0
  /\ pc[Home] = "wait" /\ out[Home].kind = "seed" =>
       seed[Home].token # 0 /\ out[Home].image = seed[Home].image

UploadsFit ==
  \A m \in net :
    /\ m.next # 0
    /\ m.kind = "seed" => m.blocks = Blocks /\ Fits(m.image, m.next)
    /\ m.kind = "delta" => m.image = content[m.next]
    /\ m.kind = "delta" /\ m.prev # 0 => Leads(m.prev, m.next, m.blocks)

IndInv ==
  /\ TypeOK /\ OnlyHome /\ MintedTokens /\ Growing /\ RoundShape
  /\ BitmapCovers /\ DeltaLeads /\ CopiesFit /\ SeedIsNew /\ UploadsFit

-----------------------------------------------------------------------------
(* The empty values are values.                                            *)
LEMMA EmptyValues ==
  /\ NoWork \in Works /\ NoUpload \in Uploads /\ NoSeed \in Seeds
  /\ NoDelta \in Deltas /\ ZeroDisk \in Disks /\ 0 \in Tokens /\ 1 \in Tokens
  /\ \A r \in Nodes : [NoUpload EXCEPT !.to = r] \in Uploads
BY HomeAssumption, BoundsAssumption
   DEF NoWork, Works, NoUpload, Uploads, NoSeed, Seeds, NoDelta, Deltas,
       ZeroDisk, Disks, Tokens, Versions

(* A guest write, a shutdown or a start keeps the types.                   *)
LEMMA GuestTypes ==
  ASSUME TypeOK, NEW n \in Nodes, Guest(n)
  PROVE  TypeOK'
<1>1. CASE VmStop(n) \/ VmStart(n)
  BY <1>1 DEF TypeOK, VmStop, VmStart, store, round
<1>2. ASSUME NEW b \in Blocks, GuestWrite(n, b) PROVE TypeOK'
  <2>1. writes + 1 \in Versions
    BY <1>2, BoundsAssumption DEF GuestWrite, TypeOK, Versions
  <2>2. disk' \in [Nodes -> Disks]
    BY <1>2, <2>1 DEF GuestWrite, TypeOK, Disks
  <2>3. dirty' \in [Nodes -> SUBSET Blocks]
    BY <1>2 DEF GuestWrite, TypeOK
  <2>. QED BY <1>2, <2>1, <2>2, <2>3 DEF GuestWrite, TypeOK, store, round
<1>. QED BY <1>1, <1>2 DEF Guest

(* A crash, a restart or a loss keeps the types.                           *)
LEMMA FaultTypes ==
  ASSUME TypeOK, NEW n \in Nodes, Faults(n)
  PROVE  TypeOK'
<1>1. CASE MachineCrash(n)
  BY EmptyValues, <1>1 DEF TypeOK, MachineCrash, RoundOver, store
<1>2. CASE ServiceRestart(n)
  BY EmptyValues, <1>2 DEF TypeOK, ServiceRestart, RoundOver, store, images
<1>3. CASE LoseStaged(n)
  <2>1. pending[n] \in Deltas
    BY DEF TypeOK
  <2>2. [pending[n] EXCEPT !.staged = FALSE] \in Deltas
    BY <2>1 DEF Deltas
  <2>. QED BY <1>3, <2>2 DEF TypeOK, LoseStaged, images, round
<1>4. CASE LoseCopy(n)
  BY EmptyValues, <1>4 DEF TypeOK, LoseCopy, round
<1>. QED BY <1>1, <1>2, <1>3, <1>4 DEF Faults

(* A step of a sync round keeps the types.                                 *)
LEMMA RoundTypes ==
  ASSUME TypeOK, NEW n \in Nodes, RoundStep(n)
  PROVE  TypeOK'
<1>0. /\ pending[n] \in Deltas /\ work[n] \in Works /\ seed[n] \in Seeds
      /\ out[n] \in Uploads /\ out[n].to \in Nodes
  BY DEF TypeOK, Uploads
<1>0a. minted < MaxToken => minted + 1 \in Tokens
  BY BoundsAssumption DEF TypeOK, Tokens
<1>1. CASE BeginRound(n)
  <2>1. [token |-> pending[n].token, blocks |-> pending[n].blocks] \in Works
    BY <1>0 DEF Deltas, Works
  <2>. QED BY <1>1, <2>1, EmptyValues DEF TypeOK, BeginRound, Peers, images
<1>2. CASE TakeDelta(n)
  <2>1. [token |-> minted + 1, blocks |-> dirty[n]] \in Works
    BY <1>2, <1>0a DEF TakeDelta, TypeOK, Works
  <2>. QED BY <1>2, <2>1, <1>0a DEF TypeOK, TakeDelta, store
<1>3. CASE TakeRefused(n)
  BY <1>3, EmptyValues DEF TypeOK, TakeRefused, RoundOver, store, images
<1>4. CASE TakeNothing(n)
  BY <1>4 DEF TypeOK, TakeNothing, Peers, store, images
<1>5. CASE RecordPending(n)
  <2>1. [token |-> work[n].token, blocks |-> work[n].blocks, applied |-> {},
         staged |-> TRUE] \in Deltas
    BY <1>0 DEF Deltas, Works
  <2>. QED BY <1>5, <2>1 DEF TypeOK, RecordPending, Peers, images
<1>6. CASE StageSeed(n)
  <2>1. SeedToken(n) \in Tokens
    <3>1. pending[n].token \in Tokens /\ chain[n] \in Tokens
      BY <1>0 DEF Deltas, TypeOK
    <3>2. SeedToken(n) = minted + 1 => minted + 1 \in Tokens
      BY <1>6, <1>0a DEF StageSeed
    <3>. QED BY <3>1, <3>2 DEF SeedToken
  <2>2. [token |-> SeedToken(n), image |-> disk[n]] \in Seeds
    BY <2>1 DEF Seeds, TypeOK
  <2>3. chain' \in [Nodes -> Tokens] /\ minted' \in Tokens /\ content' \in [Tokens -> Disks]
    BY <1>6, <1>0a DEF StageSeed, TypeOK
  <2>. QED BY <1>6, <2>2, <2>3 DEF TypeOK, StageSeed, images
<1>7. CASE SendSeed(n)
  <2>1. SeedFor(n, out[n].to) \in Uploads
    BY <1>0, EmptyValues DEF SeedFor, Uploads, Seeds, TypeOK
  <2>. QED BY <1>7, <2>1 DEF TypeOK, SendSeed, Upload, store, images
<1>8. CASE Confirmed(n)
  <2>1. \A S \in SUBSET Nodes : [pending[n] EXCEPT !.applied = S] \in Deltas
    BY <1>0 DEF Deltas
  <2>2. pending[n].applied \cup {out[n].to} \in SUBSET Nodes /\ pending[n].applied \in SUBSET Nodes
    BY <1>0 DEF Deltas
  <2>3. pending' \in [Nodes -> Deltas]
    BY <1>8, <2>1, <2>2 DEF Confirmed, TypeOK
  <2>. QED BY <1>8, <2>3, EmptyValues DEF TypeOK, Confirmed, NextPeer, images
<1>9. CASE Refused(n)
  BY <1>9 DEF TypeOK, Refused, store, images
<1>10. CASE Failed(n)
  BY <1>10, EmptyValues DEF TypeOK, Failed, NextPeer, store, images
<1>11. CASE FinishRound(n)
  <2>1. pending[n].token \in Tokens
    BY <1>0 DEF Deltas
  <2>. QED BY <1>11, <2>1, EmptyValues DEF TypeOK, FinishRound, RoundOver, images
<1>12. ASSUME NEW r \in Nodes, SendDelta(n, r) PROVE TypeOK'
  <2>1. /\ chain[n] \in Tokens /\ work[n].token \in Tokens
        /\ work[n].blocks \in SUBSET Blocks /\ content[work[n].token] \in Disks
    BY <1>0 DEF Works, TypeOK
  <2>2. DeltaFor(n, r) \in Uploads
    BY <2>1 DEF DeltaFor, Uploads
  <2>. QED BY <1>12, <2>2 DEF TypeOK, SendDelta, Upload, store, images
<1>13. ASSUME NEW r \in Nodes, VisitStopped(n, r) PROVE TypeOK'
  BY <1>13, EmptyValues DEF TypeOK, VisitStopped, store, images
<1>14. ASSUME NEW r \in Nodes, Unreachable(n, r) PROVE TypeOK'
  BY <1>14, EmptyValues DEF TypeOK, Unreachable, NextPeer, store, images
<1>. QED BY <1>1, <1>2, <1>3, <1>4, <1>5, <1>6, <1>7, <1>8, <1>9, <1>10, <1>11,
            <1>12, <1>13, <1>14 DEF RoundStep

(* Whatever a standby does with an upload keeps the types.                 *)
LEMMA ReceiveTypes ==
  ASSUME TypeOK, NEW m \in net, Receive(m)
  PROVE  TypeOK'
<1>0. m \in Uploads /\ m.to \in Nodes /\ m.from \in Nodes /\ m.next \in Tokens
  BY DEF TypeOK, Uploads
<1>1. \A v : v \in {"ok", "needs_seed", "error"} /\ Answer(m, v) =>
        /\ reply' \in [Nodes -> {"none", "ok", "needs_seed", "error"}]
        /\ net' \in SUBSET Uploads
  BY <1>0 DEF Answer, TypeOK
<1>2. \A S \in SUBSET Blocks :
        Overlay(disk[m.to], [m EXCEPT !.blocks = S]) \in Disks
  <2>. SUFFICES ASSUME NEW S \in SUBSET Blocks
                PROVE  Overlay(disk[m.to], [m EXCEPT !.blocks = S]) \in Disks
    OBVIOUS
  <2>1. disk[m.to] \in Disks /\ m.image \in Disks
    BY <1>0 DEF TypeOK, Uploads
  <2>2. [m EXCEPT !.blocks = S].image = m.image /\ [m EXCEPT !.blocks = S].blocks = S
    BY <1>0 DEF Uploads
  <2>. QED BY <2>1, <2>2 DEF Overlay, Disks
<1>3. Overlay(disk[m.to], m) \in Disks
  <2>1. disk[m.to] \in Disks /\ m.image \in Disks
    BY <1>0 DEF TypeOK, Uploads
  <2>. QED BY <2>1 DEF Overlay, Disks
<1>4. CASE ReceiveDelta(m)
  <2>1. DeltaVerdict(m) \in {"ok", "needs_seed", "error"}
    BY <1>4 DEF ReceiveDelta, DeltaVerdict
  <2>. QED BY <1>0, <1>1, <1>4, <2>1 DEF TypeOK, ReceiveDelta, images
<1>5. CASE ApplyDelta(m)
  BY <1>0, <1>1, <1>3, <1>5 DEF TypeOK, ApplyDelta
<1>6. CASE TornDelta(m)
  <2>1. m.blocks \subseteq Blocks
    BY <1>0 DEF Uploads
  <2>2. disk' \in [Nodes -> Disks]
    <3>1. PICK done \in SUBSET m.blocks :
            disk' = [disk EXCEPT ![m.to] =
                       Overlay(disk[m.to], [m EXCEPT !.blocks = done])]
      BY <1>6 DEF TornDelta
    <3>. QED BY <1>0, <1>2, <2>1, <3>1 DEF TypeOK
  <2>. QED BY <1>0, <1>1, <1>6, <2>2 DEF TypeOK, TornDelta, store
<1>7. CASE InstallSeed(m)
  BY <1>0, <1>1, <1>3, <1>7, EmptyValues DEF TypeOK, InstallSeed
<1>8. CASE TornSeed(m)
  BY <1>0, <1>1, <1>3, <1>8 DEF TypeOK, TornSeed, store
<1>9. CASE RefuseSeed(m)
  BY <1>0, <1>1, <1>9 DEF TypeOK, RefuseSeed, store, images
<1>10. CASE Drop(m)
  BY <1>10 DEF TypeOK, Drop, store, images, round
<1>. QED BY <1>4, <1>5, <1>6, <1>7, <1>8, <1>9, <1>10 DEF Receive

(* Type correctness of the replication protocol.                           *)
THEOREM TypeCorrect == Spec => []TypeOK
<1>1. Init => TypeOK
  BY EmptyValues, HomeAssumption, BoundsAssumption DEF Init, TypeOK, Tokens, Versions
<1>2. TypeOK /\ [Next]_vars => TypeOK'
  <2>1. TypeOK /\ UNCHANGED vars => TypeOK'
    BY DEF TypeOK, vars, store, images, round
  <2>. QED BY <2>1, GuestTypes, FaultTypes, RoundTypes, ReceiveTypes DEF Next
<1>. QED BY <1>1, <1>2, PTL DEF Spec

-----------------------------------------------------------------------------
(* The step leaves every disk, every token's state and every upload alone. *)
Still == UNCHANGED <<disk, content, minted, net, writes>>

(* Then versions still grow and what fitted still fits.                    *)
LEMMA StillFits ==
  ASSUME Still
  PROVE  /\ Growing => Growing'
         /\ UploadsFit => UploadsFit'
         /\ \A image, t : Fits(image, t) => Fits(image, t)'
         /\ \A t, u, blocks : Leads(t, u, blocks) => Leads(t, u, blocks)'
BY DEF Still, Growing, UploadsFit, Fits, Leads

(* Only the home node's round has a step to take.                          *)
LEMMA HomeOnly ==
  ASSUME IndInv, NEW n \in Nodes, pc[n] # "idle" \/ running[n] \/ ActivePrimary(n)
                                  \/ pending[n].token # 0
  PROVE  n = Home
BY DEF IndInv, OnlyHome, ActivePrimary, NoDelta

(* Tokens and versions are numbers.                                        *)
LEMMA Numbers ==
  ASSUME TypeOK
  PROVE  /\ writes \in Nat /\ minted \in Nat
         /\ \A n \in Nodes : /\ disk[n] \in [Blocks -> Nat]
                             /\ seed[n].image \in [Blocks -> Nat]
                             /\ chain[n] \in Nat /\ pending[n].token \in Nat
                             /\ work[n].token \in Nat /\ seed[n].token \in Nat
         /\ \A t \in Tokens : content[t] \in [Blocks -> Nat]
         /\ \A m \in net : /\ m.image \in [Blocks -> Nat]
                           /\ m.prev \in Nat /\ m.next \in Nat
         /\ \A t \in 1 .. minted : t \in Tokens
<1>1. Disks \subseteq [Blocks -> Nat]
  BY BoundsAssumption DEF Disks, Versions
<1>2. Tokens \subseteq Nat
  BY BoundsAssumption DEF Tokens
<1>3. writes \in Nat /\ minted \in Nat /\ \A t \in 1 .. minted : t \in Tokens
  BY BoundsAssumption DEF TypeOK, Versions, Tokens
<1>4. \A n \in Nodes : /\ disk[n] \in Disks /\ seed[n].image \in Disks
                       /\ chain[n] \in Tokens /\ pending[n].token \in Tokens
                       /\ work[n].token \in Tokens /\ seed[n].token \in Tokens
  BY DEF TypeOK, Seeds, Deltas, Works
<1>5. \A t \in Tokens : content[t] \in Disks
  BY DEF TypeOK
<1>6. \A m \in net : m.image \in Disks /\ m.prev \in Tokens /\ m.next \in Tokens
  BY DEF TypeOK, Uploads
<1>. QED BY <1>1, <1>2, <1>3, <1>4, <1>5, <1>6

(* A token in use is one of those minted.                                  *)
LEMMA MintedInUse ==
  ASSUME IndInv
  PROVE  /\ \A n \in Nodes : /\ chain[n] # 0 => chain[n] \in 1 .. minted
                             /\ pending[n].token # 0 => pending[n].token \in 1 .. minted
                             /\ work[n].token # 0 => work[n].token \in 1 .. minted
                             /\ seed[n].token # 0 => seed[n].token \in 1 .. minted
         /\ \A m \in net : /\ m.next \in 1 .. minted
                           /\ m.prev # 0 => m.prev \in 1 .. minted
BY Numbers DEF IndInv, MintedTokens, UploadsFit

(* The guest's own steps.                                                  *)
LEMMA GuestKeeps ==
  ASSUME IndInv, TypeOK', NEW n \in Nodes, Guest(n)
  PROVE  IndInv'
<1>0. n = Home
  BY HomeOnly DEF Guest, VmStop, VmStart, GuestWrite
<1>1. CASE VmStop(n) \/ VmStart(n)
  <2>1. Still /\ UNCHANGED <<store, dirty, tracking, round>>
    BY <1>1 DEF VmStop, VmStart, Still
  <2>2. OnlyHome'
    BY <1>0, <1>1 DEF VmStop, VmStart, IndInv, OnlyHome, store, round, TypeOK
  <2>3. MintedTokens' /\ RoundShape' /\ BitmapCovers' /\ SeedIsNew'
    BY <2>1 DEF IndInv, Still, store, round, MintedTokens, RoundShape, BitmapCovers,
                Newest, SeedIsNew
  <2>4. DeltaLeads' /\ CopiesFit'
    BY <2>1 DEF IndInv, Still, store, round, DeltaLeads, CopiesFit, Newest,
                Outstanding, Fits, Leads
  <2>. QED BY <2>1, <2>2, <2>3, <2>4, StillFits DEF IndInv
<1>2. ASSUME NEW b \in Blocks, GuestWrite(n, b) PROVE IndInv'
  <2>. USE <1>0
  <2>0. UNCHANGED <<store, running, tracking, round, net, content, minted>>
    BY <1>2 DEF GuestWrite
  <2>1. /\ disk'[Home] = [disk[Home] EXCEPT ![b] = writes + 1]
        /\ \A r \in Nodes \ {Home} : disk'[r] = disk[r]
        /\ writes' = writes + 1
    BY <1>2 DEF GuestWrite, IndInv, TypeOK
  <2>2. disk[Home] \in [Blocks -> Nat] /\ writes \in Nat /\ minted \in Nat
        /\ \A t \in Tokens : content[t] \in [Blocks -> Nat]
    BY HomeAssumption, Numbers DEF IndInv
  <2>2a. \A t \in 1 .. minted : t \in Tokens
    BY Numbers DEF IndInv
  <2>3. \A c \in Blocks : disk[Home][c] <= disk'[Home][c]
    BY <2>1, <2>2 DEF IndInv, Growing
  <2>4. \A t \in 1 .. minted : content[t][b] # disk'[Home][b]
    BY <2>1, <2>2, <2>2a DEF IndInv, Growing
  <2>5. Growing'
    BY <2>0, <2>1, <2>2, <2>2a, <2>3 DEF IndInv, Growing
  <2>6. \A t \in 1 .. minted : \A image : Fits(image, t) => Fits(image, t)'
    BY <2>0, <2>1, <2>2, <2>4 DEF Fits
  <2>7. OnlyHome' /\ MintedTokens' /\ RoundShape'
    BY <2>0 DEF IndInv, OnlyHome, MintedTokens, RoundShape, store, round
  <2>8. BitmapCovers'
    <3>1. tracking[Home] = "recording" => dirty'[Home] = dirty[Home] \cup {b}
      BY <1>2 DEF GuestWrite, IndInv, TypeOK
    <3>. QED BY <2>0, <2>1, <2>2, <3>1 DEF IndInv, BitmapCovers, Newest, store, round
  <2>9. DeltaLeads'
    BY <2>0 DEF IndInv, DeltaLeads, Leads, Newest, Outstanding, store, round
  <2>10. CopiesFit'
    <3>. SUFFICES ASSUME NEW r \in Nodes \ {Home}, chain[r] # 0
                  PROVE  Fits(disk[r], chain[r])'
      BY <2>0 DEF CopiesFit, store
    <3>1. chain[r] \in 1 .. minted
      BY MintedInUse
    <3>2. Fits(disk[r], chain[r])
      BY DEF IndInv, CopiesFit
    <3>. QED BY <2>0, <2>1, <2>6, <3>1, <3>2 DEF Fits, store
  <2>11. SeedIsNew'
    <3>1. seed[Home].image \in [Blocks -> Nat]
      BY HomeAssumption, Numbers DEF IndInv
    <3>. QED BY <2>0, <2>2, <2>3, <3>1, <1>2 DEF IndInv, SeedIsNew, store, round, TypeOK, Disks, GuestWrite
  <2>12. UploadsFit'
    <3>. SUFFICES ASSUME NEW m \in net, m.kind = "seed" PROVE Fits(m.image, m.next)'
      BY <2>0 DEF IndInv, UploadsFit, Leads
    <3>1. m.next \in 1 .. minted
      BY MintedInUse
    <3>. QED BY <2>6, <3>1 DEF IndInv, UploadsFit, Fits
  <2>. QED BY <2>5, <2>7, <2>8, <2>9, <2>10, <2>11, <2>12 DEF IndInv
<1>. QED BY <1>1, <1>2 DEF Guest

(* A round that ends leaves nothing behind but the store.                  *)
LEMMA RoundOverKeeps ==
  ASSUME IndInv, TypeOK', Still, UNCHANGED store, UNCHANGED dirty,
         \A n \in Nodes : running'[n] => running[n],
         tracking'[Home] \in {tracking[Home], "bad"},
         pc[Home] # "record", RoundOver(Home)
  PROVE  IndInv'
<1>1. pc'[Home] = "idle" /\ work'[Home] = NoWork /\ seed'[Home] = NoSeed
      /\ \A n \in Nodes \ {Home} : pc'[n] = pc[n] /\ work'[n] = work[n] /\ seed'[n] = seed[n]
  BY HomeAssumption DEF RoundOver, IndInv, TypeOK
<1>2. Newest(Home)' = Newest(Home) /\ Outstanding(Home)' = Outstanding(Home)
  BY <1>1 DEF Newest, Outstanding, store
<1>3. OnlyHome'
  BY <1>1 DEF IndInv, OnlyHome, store
<1>4. MintedTokens'
  BY <1>1, HomeAssumption, Numbers DEF IndInv, MintedTokens, store, Still, NoWork, NoSeed
<1>5. RoundShape'
  BY <1>1 DEF IndInv, RoundShape, store
<1>6. BitmapCovers'
  BY <1>2 DEF IndInv, BitmapCovers, Still
<1>7. DeltaLeads' /\ CopiesFit'
  BY <1>2 DEF IndInv, DeltaLeads, CopiesFit, Fits, Leads, store, Still
<1>8. SeedIsNew'
  BY <1>1 DEF SeedIsNew, NoSeed
<1>. QED BY <1>3, <1>4, <1>5, <1>6, <1>7, <1>8, StillFits DEF IndInv

(* Crashes, restarts and losses.                                           *)
LEMMA FaultKeeps ==
  ASSUME IndInv, TypeOK', NEW n \in Nodes, Faults(n)
  PROVE  IndInv'
<1>1. CASE MachineCrash(n)
  <2>1. n = Home
    BY <1>1, HomeOnly DEF MachineCrash
  <2>2. tracking'[Home] = "bad" /\ \A k \in Nodes : running'[k] => running[k]
    BY <1>1, <2>1 DEF MachineCrash, IndInv, TypeOK
  <2>. QED BY <1>1, <2>1, <2>2, RoundOverKeeps DEF MachineCrash, Still
<1>2. CASE ServiceRestart(n)
  <2>1. n = Home
    BY <1>2, HomeOnly DEF ServiceRestart
  <2>. QED BY <1>2, <2>1, RoundOverKeeps DEF ServiceRestart, Still, images
<1>3. CASE LoseStaged(n)
  <2>1. n = Home
    BY <1>3, HomeOnly DEF LoseStaged
  <2>2. /\ pending'[Home].token = pending[Home].token
        /\ pending'[Home].blocks = pending[Home].blocks /\ pending[Home].token # 0
        /\ \A k \in Nodes \ {Home} : pending'[k] = pending[k]
    BY <1>3, <2>1 DEF LoseStaged, IndInv, TypeOK, Deltas
  <2>3. Still /\ UNCHANGED <<role, stale, chain, images, round>>
    BY <1>3 DEF LoseStaged, Still, images
  <2>4. Newest(Home)' = Newest(Home) /\ Outstanding(Home)' = Outstanding(Home)
    BY <2>2, <2>3 DEF Newest, Outstanding, round
  <2>5. OnlyHome' /\ MintedTokens' /\ RoundShape' /\ SeedIsNew'
    BY <2>2, <2>3 DEF IndInv, OnlyHome, MintedTokens, RoundShape, SeedIsNew, Still, round, images
  <2>6. BitmapCovers' /\ DeltaLeads' /\ CopiesFit'
    BY <2>3, <2>4 DEF IndInv, BitmapCovers, DeltaLeads, CopiesFit, Fits, Leads, Still, images
  <2>. QED BY <2>3, <2>5, <2>6, StillFits DEF IndInv
<1>4. CASE LoseCopy(n)
  <2>1. n # Home
    BY <1>4 DEF LoseCopy, IndInv, OnlyHome
  <2>2. /\ disk'[Home] = disk[Home] /\ chain'[Home] = chain[Home] /\ chain'[n] = 0
        /\ pending'[Home] = pending[Home] /\ role'[Home] = role[Home]
        /\ role'[n] = "none" /\ pending'[n] = NoDelta
        /\ \A k \in Nodes \ {n} : /\ disk'[k] = disk[k] /\ chain'[k] = chain[k]
                                  /\ pending'[k] = pending[k] /\ role'[k] = role[k]
    BY <1>4, <2>1, HomeAssumption DEF LoseCopy, IndInv, TypeOK
  <2>2a. stale'[Home] = stale[Home]
    BY <1>4, <2>1, HomeAssumption DEF LoseCopy, IndInv, TypeOK
  <2>3. UNCHANGED <<running, dirty, tracking, round, net, content, minted, writes>>
    BY <1>4 DEF LoseCopy
  <2>4. Newest(Home)' = Newest(Home) /\ Outstanding(Home)' = Outstanding(Home)
    BY <2>2, <2>3 DEF Newest, Outstanding, round
  <2>5. OnlyHome' /\ RoundShape' /\ SeedIsNew' /\ Growing'
    BY <2>1, <2>2, <2>2a, <2>3 DEF IndInv, OnlyHome, RoundShape, SeedIsNew, Growing, round
  <2>6. MintedTokens'
    BY <2>2, <2>3, Numbers DEF IndInv, MintedTokens, round, NoDelta
  <2>7. BitmapCovers' /\ DeltaLeads' /\ CopiesFit' /\ UploadsFit'
    BY <2>2, <2>3, <2>4 DEF IndInv, BitmapCovers, DeltaLeads, CopiesFit, UploadsFit, Fits, Leads
  <2>. QED BY <2>5, <2>6, <2>7 DEF IndInv
<1>. QED BY <1>1, <1>2, <1>3, <1>4 DEF Faults

(* The steps of a round that neither take nor stage nor upload anything.   *)
LEMMA WalkKeeps ==
  ASSUME IndInv, TypeOK', Still, UNCHANGED <<role, stale, chain, images, work, seed>>,
         NEW S, pending'[Home] = [pending[Home] EXCEPT !.applied = S],
         \A n \in Nodes \ {Home} : pending'[n] = pending[n] /\ pc'[n] = pc[n],
         pc[Home] \in {"ship", "wait", "reseed"},
         pc'[Home] \in {"ship", "reseed"}
  PROVE  IndInv'
<1>1. pending'[Home].token = pending[Home].token /\ pending'[Home].blocks = pending[Home].blocks
  BY HomeAssumption DEF IndInv, TypeOK, Deltas
<1>2. Newest(Home)' = Newest(Home) /\ Outstanding(Home)' = Outstanding(Home)
  BY <1>1 DEF Newest, Outstanding
<1>3. OnlyHome' /\ SeedIsNew'
  BY DEF IndInv, OnlyHome, SeedIsNew, Still, images
<1>4. MintedTokens'
  BY <1>1 DEF IndInv, MintedTokens, Still
<1>5. RoundShape'
  BY <1>1 DEF IndInv, RoundShape
<1>6. BitmapCovers' /\ DeltaLeads' /\ CopiesFit'
  BY <1>2 DEF IndInv, BitmapCovers, DeltaLeads, CopiesFit, Fits, Leads, Still, images
<1>. QED BY <1>3, <1>4, <1>5, <1>6, StillFits DEF IndInv

(* An upload that fits may be sent, by the round that waits for it.        *)
LEMMA UploadKeeps ==
  ASSUME IndInv, TypeOK', NEW m \in Uploads, Upload(Home, m),
         UNCHANGED <<store, images, work, seed, content, minted, writes>>,
         pc[Home] \in {"ship", "reseed"},
         m.prev <= m.next, m.next <= minted, m.next # 0,
         m.kind = "seed" => /\ m.blocks = Blocks /\ Fits(m.image, m.next)
                            /\ seed[Home].token # 0 /\ m.image = seed[Home].image,
         m.kind = "delta" => m.image = content[m.next],
         m.kind = "delta" /\ m.prev # 0 => Leads(m.prev, m.next, m.blocks)
  PROVE  IndInv'
<1>1. /\ pc'[Home] = "wait" /\ out'[Home] = m /\ net' = net \cup {m}
      /\ \A n \in Nodes \ {Home} : pc'[n] = pc[n]
  BY HomeAssumption DEF Upload, IndInv, TypeOK
<1>2. Newest(Home)' = Newest(Home) /\ Outstanding(Home)' = Outstanding(Home)
  BY <1>1 DEF Newest, Outstanding, store
<1>3. OnlyHome' /\ MintedTokens' /\ Growing' /\ RoundShape' /\ SeedIsNew'
  BY <1>1 DEF IndInv, OnlyHome, MintedTokens, Growing, RoundShape, SeedIsNew, store, images
<1>4. BitmapCovers' /\ DeltaLeads' /\ CopiesFit'
  BY <1>2 DEF IndInv, BitmapCovers, DeltaLeads, CopiesFit, Fits, Leads, store, images
<1>5. UploadsFit'
  BY <1>1 DEF IndInv, UploadsFit, Fits, Leads, images
<1>. QED BY <1>3, <1>4, <1>5 DEF IndInv

(* Taking a delta moves the dirty blocks from the bitmap to the delta.     *)
LEMMA TakeKeeps ==
  ASSUME IndInv, TypeOK', TakeDelta(Home)
  PROVE  IndInv'
<1>. DEFINE t == minted + 1
<1>0. /\ minted \in Nat /\ t \in Tokens /\ t \notin 1 .. minted /\ t # 0
      /\ pending[Home].token = 0 /\ pending[Home].blocks = {}
  <2>1. minted \in Nat
    BY Numbers DEF IndInv
  <2>2. minted < MaxToken
    BY DEF TakeDelta
  <2>3. pending[Home].token = 0 /\ pending[Home].blocks = {}
    BY DEF TakeDelta, IndInv, RoundShape
  <2>. QED BY <2>1, <2>2, <2>3, BoundsAssumption DEF Tokens
<1>1. /\ content'[t] = disk[Home] /\ \A u \in Tokens \ {t} : content'[u] = content[u]
      /\ minted' = t /\ pc'[Home] = "record" /\ pc[Home] = "take"
      /\ work'[Home] = [token |-> t, blocks |-> dirty[Home]] /\ dirty'[Home] = {}
      /\ \A n \in Nodes \ {Home} : pc'[n] = pc[n] /\ work'[n] = work[n]
      /\ tracking[Home] = "recording"
  BY <1>0, HomeAssumption DEF TakeDelta, IndInv, TypeOK
<1>2. UNCHANGED <<store, running, disk, tracking, out, seed, net, writes>>
  BY DEF TakeDelta
<1>3. \A u \in 1 .. minted : u \in Tokens \ {t}
  BY <1>0, Numbers DEF IndInv
<1>4. Newest(Home) = chain[Home] /\ Newest(Home)' = t /\ Outstanding(Home)' = dirty[Home]
  BY <1>0, <1>1 DEF Newest, Outstanding
<1>5. OnlyHome' /\ RoundShape'
  <2>1. chain[Home] \in Nat /\ chain[Home] <= minted
    BY Numbers, HomeAssumption DEF IndInv, MintedTokens
  <2>2. chain[Home] <= t
    BY <1>0, <2>1
  <2>3. OnlyHome'
    BY <1>1, <1>2 DEF IndInv, OnlyHome, store
  <2>4. RoundShape'
    BY <1>0, <1>1, <1>2, <2>2 DEF RoundShape, store
  <2>. QED BY <2>3, <2>4
<1>6. MintedTokens'
  <2>1. \A n \in Nodes : chain[n] \in Nat /\ pending[n].token \in Nat /\ work[n].token \in Nat /\ seed[n].token \in Nat
    BY Numbers DEF IndInv
  <2>2. \A m \in net : m.next \in Nat
    BY Numbers DEF IndInv
  <2>. QED BY <1>0, <1>1, <1>2, <2>1, <2>2 DEF IndInv, MintedTokens, store
<1>7. Growing'
  <2>1. \A b \in Blocks : disk[Home][b] \in Nat
    BY Numbers, HomeAssumption DEF IndInv
  <2>2. \A u \in 1 .. minted' : u = t \/ u \in 1 .. minted
    BY <1>0, <1>1
  <2>3. \A u \in 1 .. minted : \A b \in Blocks : content'[u][b] = content[u][b]
    BY <1>1, <1>3
  <2>. QED BY <1>0, <1>1, <1>2, <2>1, <2>2, <2>3 DEF IndInv, Growing
<1>8. \A u \in 1 .. minted : \A image : Fits(image, u) => Fits(image, u)'
  BY <1>1, <1>2, <1>3 DEF Fits
<1>9. BitmapCovers'
  BY <1>1, <1>2, <1>4 DEF BitmapCovers
<1>10. DeltaLeads'
  BY <1>1, <1>2, <1>3, <1>4, MintedInUse, HomeAssumption
     DEF IndInv, DeltaLeads, BitmapCovers, Leads, store
<1>11. CopiesFit'
  BY <1>2, <1>8, MintedInUse DEF IndInv, CopiesFit, Fits, store
<1>12. SeedIsNew'
  BY <1>1, <1>2 DEF IndInv, SeedIsNew
<1>13. UploadsFit'
  BY <1>1, <1>2, <1>3, <1>8, MintedInUse DEF IndInv, UploadsFit, Fits, Leads
<1>. QED BY <1>5, <1>6, <1>7, <1>9, <1>10, <1>11, <1>12, <1>13 DEF IndInv

(* A round that finds its last delta outstanding, or lost.                 *)
LEMMA BeginKeeps ==
  ASSUME IndInv, TypeOK', BeginRound(Home)
  PROVE  IndInv'
<1>1. /\ Still /\ UNCHANGED <<role, stale, images, seed, out>>
      /\ pc[Home] = "idle" /\ work[Home] = NoWork /\ seed[Home].token = 0
  BY DEF BeginRound, Still, images, IndInv, RoundShape, SeedIsNew
<1>2. \A n \in Nodes \ {Home} : /\ pc'[n] = pc[n] /\ work'[n] = work[n]
                                /\ pending'[n] = pending[n] /\ chain'[n] = chain[n]
  BY DEF BeginRound, IndInv, TypeOK
<1>3. CASE pending[Home].token # 0 /\ pending[Home].staged
  <2>1. /\ pc'[Home] = "ship" /\ UNCHANGED <<pending, chain>>
        /\ work'[Home] = [token |-> pending[Home].token, blocks |-> pending[Home].blocks]
    BY <1>3, HomeAssumption DEF BeginRound, IndInv, TypeOK
  <2>2. Newest(Home)' = Newest(Home) /\ Outstanding(Home)' = Outstanding(Home)
    BY <1>1, <2>1 DEF Newest, Outstanding
  <2>3. OnlyHome' /\ RoundShape' /\ SeedIsNew'
    BY <1>1, <1>2, <2>1 DEF IndInv, OnlyHome, RoundShape, SeedIsNew, images
  <2>4. MintedTokens'
    BY <1>1, <1>2, <2>1 DEF IndInv, MintedTokens, Still
  <2>5. BitmapCovers' /\ DeltaLeads' /\ CopiesFit'
    BY <1>1, <2>1, <2>2 DEF IndInv, BitmapCovers, DeltaLeads, CopiesFit, Fits, Leads,
                            Still, images
  <2>. QED BY <1>1, <2>3, <2>4, <2>5, StillFits DEF IndInv
<1>4. CASE ~(pending[Home].token # 0 /\ pending[Home].staged)
  <2>1. /\ pc'[Home] = "take" /\ UNCHANGED work /\ pending'[Home] = NoDelta
        /\ chain'[Home] = IF pending[Home].token # 0 THEN 0 ELSE chain[Home]
    BY <1>4, HomeAssumption DEF BeginRound, IndInv, TypeOK
  <2>2. NoDelta.token = 0 /\ NoDelta.blocks = {}
    BY DEF NoDelta
  <2>3. OnlyHome' /\ RoundShape' /\ SeedIsNew'
    BY <1>1, <1>2, <2>1, <2>2 DEF IndInv, OnlyHome, RoundShape, SeedIsNew, images
  <2>4. MintedTokens'
    BY <1>1, <1>2, <2>1, <2>2, Numbers, HomeAssumption DEF IndInv, MintedTokens, Still
  <2>5. /\ Newest(Home)' = chain'[Home] /\ Outstanding(Home)' = {}
        /\ chain'[Home] # 0 => /\ Newest(Home) = chain[Home] /\ chain'[Home] = chain[Home]
                              /\ Outstanding(Home) = {}
    BY <1>1, <2>1, <2>2 DEF Newest, Outstanding, IndInv, RoundShape
  <2>6. BitmapCovers' /\ DeltaLeads'
    BY <1>1, <2>1, <2>5 DEF IndInv, BitmapCovers, DeltaLeads, Leads, Still, images
  <2>7. CopiesFit'
    BY <1>1, <1>2 DEF IndInv, CopiesFit, Fits, Still
  <2>. QED BY <1>1, <2>3, <2>4, <2>6, <2>7, StillFits DEF IndInv
<1>. QED BY <1>3, <1>4

(* A stopped VM's round goes straight to the standbys.                     *)
LEMMA NothingKeeps ==
  ASSUME IndInv, TypeOK', TakeNothing(Home)
  PROVE  IndInv'
<1>1. Still /\ UNCHANGED <<store, images, work, seed, out>>
  BY DEF TakeNothing, Still, images
<1>2. /\ pc[Home] = "take" /\ pc'[Home] = "ship"
      /\ \A n \in Nodes \ {Home} : pc'[n] = pc[n]
  BY HomeAssumption DEF TakeNothing, IndInv, TypeOK
<1>3. Newest(Home)' = Newest(Home) /\ Outstanding(Home)' = Outstanding(Home)
  BY <1>1, <1>2 DEF Newest, Outstanding, store
<1>4. NoWork.token = 0 /\ NoWork.blocks = {}
  BY DEF NoWork
<1>5. OnlyHome' /\ MintedTokens' /\ SeedIsNew'
  BY <1>1, <1>2 DEF IndInv, OnlyHome, MintedTokens, SeedIsNew, Still, store, images
<1>6. RoundShape'
  BY <1>1, <1>2, <1>4 DEF IndInv, RoundShape, store
<1>7. BitmapCovers' /\ DeltaLeads' /\ CopiesFit'
  BY <1>1, <1>3 DEF IndInv, BitmapCovers, DeltaLeads, CopiesFit, Fits, Leads, Still,
                    store, images
<1>. QED BY <1>1, <1>5, <1>6, <1>7, StillFits DEF IndInv

(* The taken delta enters the store.                                       *)
LEMMA RecordKeeps ==
  ASSUME IndInv, TypeOK', RecordPending(Home)
  PROVE  IndInv'
<1>1. Still /\ UNCHANGED <<role, stale, chain, images, work, seed, out>>
  BY DEF RecordPending, Still, images
<1>2. /\ pc[Home] = "record" /\ pc'[Home] = "ship"
      /\ pending'[Home].token = work[Home].token
      /\ pending'[Home].blocks = work[Home].blocks
      /\ \A n \in Nodes \ {Home} : pc'[n] = pc[n] /\ pending'[n] = pending[n]
  BY HomeAssumption DEF RecordPending, IndInv, TypeOK
<1>3. Newest(Home)' = Newest(Home) /\ Outstanding(Home)' = Outstanding(Home)
  BY <1>1, <1>2 DEF Newest, Outstanding, IndInv, RoundShape
<1>4. OnlyHome' /\ SeedIsNew' /\ RoundShape'
  BY <1>1, <1>2 DEF IndInv, OnlyHome, SeedIsNew, RoundShape, Still, images
<1>5. MintedTokens'
  BY <1>1, <1>2, HomeAssumption DEF IndInv, MintedTokens, Still
<1>6. BitmapCovers' /\ DeltaLeads' /\ CopiesFit'
  BY <1>1, <1>3 DEF IndInv, BitmapCovers, DeltaLeads, CopiesFit, Fits, Leads, Still, images
<1>. QED BY <1>1, <1>4, <1>5, <1>6, StillFits DEF IndInv

(* The round ends; a delta every standby confirmed becomes the chain.      *)
LEMMA FinishKeeps ==
  ASSUME IndInv, TypeOK', FinishRound(Home)
  PROVE  IndInv'
<1>1. Still /\ UNCHANGED <<role, stale, images>> /\ pc[Home] = "ship"
  BY DEF FinishRound, Still, images
<1>2. CASE UNCHANGED <<chain, pending>>
  BY <1>1, <1>2, RoundOverKeeps DEF FinishRound, store, images
<1>3. CASE ~UNCHANGED <<chain, pending>>
  <2>1. /\ chain'[Home] = pending[Home].token /\ pending[Home].token # 0
        /\ pending'[Home] = NoDelta
        /\ \A n \in Nodes \ {Home} : chain'[n] = chain[n] /\ pending'[n] = pending[n]
    BY <1>3, HomeAssumption DEF FinishRound, IndInv, TypeOK
  <2>2. /\ pc'[Home] = "idle" /\ work'[Home] = NoWork /\ seed'[Home] = NoSeed
        /\ \A n \in Nodes \ {Home} : /\ pc'[n] = pc[n] /\ work'[n] = work[n]
                                      /\ seed'[n] = seed[n]
    BY HomeAssumption DEF FinishRound, RoundOver, IndInv, TypeOK
  <2>3. /\ NoDelta.token = 0 /\ NoDelta.blocks = {} /\ NoWork.token = 0
        /\ NoSeed.token = 0
    BY DEF NoDelta, NoWork, NoSeed
  <2>4. Newest(Home)' = Newest(Home) /\ Newest(Home) = chain'[Home]
    BY <1>1, <2>1, <2>2, <2>3 DEF Newest
  <2>5. OnlyHome' /\ RoundShape' /\ SeedIsNew'
    BY <1>1, <2>1, <2>2, <2>3 DEF IndInv, OnlyHome, RoundShape, SeedIsNew, images
  <2>6. MintedTokens'
    BY <1>1, <2>1, <2>2, <2>3, Numbers, HomeAssumption DEF IndInv, MintedTokens, Still
  <2>7. BitmapCovers' /\ CopiesFit'
    BY <1>1, <2>1, <2>4 DEF IndInv, BitmapCovers, CopiesFit, Fits, Still, images
  <2>8. DeltaLeads'
    BY <2>4 DEF DeltaLeads, Leads
  <2>. QED BY <1>1, <2>5, <2>6, <2>7, <2>8, StillFits DEF IndInv
<1>. QED BY <1>2, <1>3

(* A seed is staged: it is the newest state there is.                      *)
LEMMA StageKeeps ==
  ASSUME IndInv, TypeOK', StageSeed(Home)
  PROVE  IndInv'
<1>. DEFINE t == minted + 1
<1>1. /\ pc[Home] = "reseed" /\ seed'[Home].image = disk[Home]
      /\ \A n \in Nodes \ {Home} : seed'[n] = seed[n]
      /\ seed'[Home].token = SeedToken(Home)
  BY HomeAssumption DEF StageSeed, IndInv, TypeOK
<1>2. UNCHANGED <<role, stale, pending, images, pc, work, out, net, writes>>
  BY DEF StageSeed
<1>3. minted \in Nat /\ \A b \in Blocks : disk[Home][b] \in Nat
  BY Numbers, HomeAssumption DEF IndInv
<1>4. CASE SeedToken(Home) = t
  <2>1. /\ minted < MaxToken /\ minted' = t /\ chain'[Home] = t
        /\ content' = [content EXCEPT ![t] = disk[Home]]
        /\ \A n \in Nodes \ {Home} : chain'[n] = chain[n]
    BY <1>4, HomeAssumption DEF StageSeed, IndInv, TypeOK
  <2>2. t \in Tokens /\ t # 0 /\ t \notin 1 .. minted
    BY <1>3, <2>1, BoundsAssumption DEF Tokens
  <2>3. content'[t] = disk[Home] /\ \A u \in 1 .. minted : content'[u] = content[u]
    BY <1>3, <2>1, <2>2, Numbers DEF IndInv, TypeOK
  <2>4. pending[Home].token = 0 /\ chain[Home] = 0 /\ pending[Home].blocks = {}
    BY <1>4, <2>2, MintedInUse, HomeAssumption DEF SeedToken, IndInv, RoundShape
  <2>5. Newest(Home)' = t
    BY <1>1, <1>2, <2>1, <2>4 DEF Newest
  <2>6. OnlyHome' /\ RoundShape'
    BY <1>1, <1>2, <2>1, <2>4 DEF IndInv, OnlyHome, RoundShape, images
  <2>7. MintedTokens'
    <3>1. \A n \in Nodes : /\ chain[n] \in Nat /\ pending[n].token \in Nat
                           /\ work[n].token \in Nat /\ seed[n].token \in Nat
      BY Numbers DEF IndInv
    <3>2. \A m \in net : m.next \in Nat
      BY Numbers DEF IndInv
    <3>. QED BY <1>1, <1>2, <1>3, <1>4, <2>1, <3>1, <3>2 DEF IndInv, MintedTokens
  <2>8. Growing'
    <3>1. \A u \in 1 .. minted' : u = t \/ u \in 1 .. minted
      BY <1>3, <2>1
    <3>. QED BY <1>2, <1>3, <2>1, <2>2, <2>3, <3>1 DEF IndInv, Growing, images
  <2>9. \A u \in 1 .. minted : \A image : Fits(image, u) => Fits(image, u)'
    BY <1>2, <2>3 DEF Fits, images
  <2>10. BitmapCovers' /\ DeltaLeads'
    BY <1>2, <2>1, <2>3, <2>5 DEF BitmapCovers, DeltaLeads, Leads, images
  <2>11. CopiesFit'
    BY <1>2, <2>1, <2>9, MintedInUse DEF IndInv, CopiesFit, Fits, images
  <2>12. SeedIsNew'
    <3>1. \A u \in 1 .. minted' : u = t \/ u \in 1 .. minted
      BY <1>3, <2>1
    <3>. QED BY <1>1, <1>2, <1>3, <2>3, <3>1 DEF IndInv, SeedIsNew, Growing, images
  <2>13. UploadsFit'
    BY <1>2, <2>3, <2>9, MintedInUse DEF IndInv, UploadsFit, Fits, Leads
  <2>. QED BY <2>6, <2>7, <2>8, <2>10, <2>11, <2>12, <2>13 DEF IndInv
<1>5. CASE SeedToken(Home) # t
  <2>1. Still /\ UNCHANGED chain
    BY <1>5, <1>2 DEF StageSeed, Still, images
  <2>2. Newest(Home)' = Newest(Home) /\ Outstanding(Home)' = Outstanding(Home)
    BY <1>2, <2>1 DEF Newest, Outstanding
  <2>3. OnlyHome' /\ RoundShape'
    BY <1>2, <2>1 DEF IndInv, OnlyHome, RoundShape, images
  <2>4. SeedToken(Home) <= minted
    BY <1>5, HomeAssumption DEF SeedToken, IndInv, MintedTokens
  <2>5. MintedTokens'
    BY <1>1, <1>2, <2>1, <2>4 DEF IndInv, MintedTokens, Still
  <2>6. BitmapCovers' /\ DeltaLeads' /\ CopiesFit'
    BY <1>2, <2>1, <2>2 DEF IndInv, BitmapCovers, DeltaLeads, CopiesFit, Fits, Leads,
                            Still, images
  <2>7. SeedIsNew'
    BY <1>1, <1>2, <1>3, <2>1 DEF IndInv, SeedIsNew, Growing, Still
  <2>. QED BY <2>1, <2>3, <2>5, <2>6, <2>7, StillFits DEF IndInv
<1>. QED BY <1>4, <1>5

(* The uploads of a round fit.                                             *)
LEMMA SendKeeps ==
  ASSUME IndInv, TypeOK', NEW r \in Nodes, SendDelta(Home, r) \/ SendSeed(Home)
  PROVE  IndInv'
<1>1. CASE SendDelta(Home, r)
  <2>. DEFINE m == DeltaFor(Home, r)
  <2>1. /\ m.kind = "delta" /\ m.prev = chain[Home] /\ m.next = work[Home].token
        /\ m.blocks = work[Home].blocks /\ m.image = content[work[Home].token]
    BY DEF DeltaFor
  <2>2. m \in Uploads
    <3>1. net' = net \cup {m}
      BY <1>1 DEF SendDelta, Upload
    <3>. QED BY <3>1 DEF TypeOK
  <2>3. /\ pc[Home] = "ship" /\ work[Home].token # 0 /\ Upload(Home, m)
        /\ UNCHANGED <<store, images, work, seed, content, minted, writes>>
    BY <1>1 DEF SendDelta
  <2>4. /\ pending[Home].token = work[Home].token /\ pending[Home].blocks = work[Home].blocks
        /\ m.prev <= m.next
    BY <2>1, <2>3 DEF IndInv, RoundShape
  <2>5. m.next <= minted
    BY <2>1, HomeAssumption DEF IndInv, MintedTokens
  <2>6. m.prev # 0 => Leads(m.prev, m.next, m.blocks)
    BY <2>1, <2>3, <2>4 DEF IndInv, DeltaLeads, Newest, Outstanding
  <2>. HIDE DEF m
  <2>. QED BY <2>1, <2>2, <2>3, <2>4, <2>5, <2>6, UploadKeeps
<1>2. CASE SendSeed(Home)
  <2>. DEFINE m == SeedFor(Home, out[Home].to)
  <2>1. /\ m.kind = "seed" /\ m.prev = 0 /\ m.next = seed[Home].token
        /\ m.blocks = Blocks /\ m.image = seed[Home].image
    BY DEF SeedFor
  <2>2. m \in Uploads
    <3>1. net' = net \cup {m}
      BY <1>2 DEF SendSeed, Upload
    <3>. QED BY <3>1 DEF TypeOK
  <2>3. /\ pc[Home] = "reseed" /\ seed[Home].token # 0 /\ Upload(Home, m)
        /\ UNCHANGED <<store, images, work, seed, content, minted, writes>>
    BY <1>2 DEF SendSeed
  <2>4. m.next \in 1 .. minted /\ m.next \in Nat
    BY <2>1, <2>3, MintedInUse, Numbers, HomeAssumption DEF IndInv
  <2>5. m.prev <= m.next /\ m.next <= minted
    BY <2>1, <2>3, <2>4, Numbers, HomeAssumption DEF IndInv, MintedTokens
  <2>6. Fits(m.image, m.next)
    <3>1. /\ m.image \in [Blocks -> Nat] /\ disk[Home] \in [Blocks -> Nat]
          /\ content[m.next] \in [Blocks -> Nat]
      BY <2>1, <2>4, Numbers, HomeAssumption DEF IndInv
    <3>2. \A b \in Blocks : m.image[b] <= disk[Home][b] /\ content[m.next][b] <= m.image[b]
      BY <2>1, <2>3, <2>4 DEF IndInv, SeedIsNew
    <3>. QED BY <3>1, <3>2 DEF Fits
  <2>. HIDE DEF m
  <2>. QED BY <2>1, <2>2, <2>3, <2>4, <2>5, <2>6, UploadKeeps
<1>. QED BY <1>1, <1>2

(* Every step of a sync round.                                             *)
LEMMA RoundKeeps ==
  ASSUME IndInv, TypeOK', NEW n \in Nodes, RoundStep(n)
  PROVE  IndInv'
<1>0. n = Home
  BY HomeOnly DEF RoundStep, BeginRound, TakeDelta, TakeRefused, TakeNothing,
     RecordPending, StageSeed, SendSeed, Confirmed, Refused, Failed, FinishRound,
     SendDelta, VisitStopped, Unreachable
<1>. USE <1>0
<1>1. pending[Home] = [pending[Home] EXCEPT !.applied = pending[Home].applied]
  BY HomeAssumption DEF IndInv, TypeOK, Deltas
<1>2. CASE TakeRefused(n)
  BY <1>2, RoundOverKeeps DEF TakeRefused, Still, images
<1>3. CASE Confirmed(n)
  <2>1. PICK S : pending' = [pending EXCEPT ![Home] = [pending[Home] EXCEPT !.applied = S]]
    BY <1>3 DEF Confirmed
  <2>2. /\ pending'[Home] = [pending[Home] EXCEPT !.applied = S]
        /\ pc'[Home] = "ship" /\ pc[Home] = "wait"
        /\ \A k \in Nodes \ {Home} : pending'[k] = pending[k] /\ pc'[k] = pc[k]
    <3>1. pc[Home] = "wait" /\ pc' = [pc EXCEPT ![Home] = "ship"]
      BY <1>3 DEF Confirmed, NextPeer
    <3>2. pc \in [Nodes -> {"idle", "take", "record", "ship", "wait", "reseed"}]
          /\ pending \in [Nodes -> Deltas]
      BY DEF IndInv, TypeOK
    <3>. QED BY <2>1, <3>1, <3>2, HomeAssumption
  <2>. QED BY <1>3, <2>2, WalkKeeps DEF Confirmed, Still, images
<1>4. CASE Refused(n)
  <2>1. /\ pc'[Home] = "reseed" /\ pc[Home] = "wait"
        /\ \A k \in Nodes \ {Home} : pc'[k] = pc[k]
    BY <1>4, HomeAssumption DEF Refused, IndInv, TypeOK
  <2>. QED BY <1>1, <1>4, <2>1, WalkKeeps DEF Refused, Still, store, images
<1>5. CASE Failed(n)
  <2>1. /\ pc'[Home] = "ship" /\ pc[Home] \in {"wait", "reseed"}
        /\ \A k \in Nodes \ {Home} : pc'[k] = pc[k]
    BY <1>5, HomeAssumption DEF Failed, NextPeer, IndInv, TypeOK
  <2>. QED BY <1>1, <1>5, <2>1, WalkKeeps DEF Failed, Still, store, images
<1>6. ASSUME NEW r \in Nodes, VisitStopped(n, r) \/ Unreachable(n, r)
      PROVE  IndInv'
  <2>1. /\ pc'[Home] \in {"ship", "reseed"} /\ pc[Home] = "ship"
        /\ \A k \in Nodes \ {Home} : pc'[k] = pc[k]
    BY <1>6, HomeAssumption DEF VisitStopped, Unreachable, NextPeer, IndInv, TypeOK
  <2>2. Still /\ UNCHANGED <<store, images, work, seed>>
    BY <1>6 DEF VisitStopped, Unreachable, Still, images
  <2>. QED BY <1>1, <2>1, <2>2, WalkKeeps DEF store
<1>. QED BY <1>2, <1>3, <1>4, <1>5, <1>6, BeginKeeps, TakeKeeps, NothingKeeps, RecordKeeps,
            StageKeeps, SendKeeps, FinishKeeps DEF RoundStep

(* A standby that clears its stale flag leaves the others' alone.          *)
LEMMA StaleElsewhere ==
  ASSUME TypeOK, NEW r, stale' = [stale EXCEPT ![r] = FALSE]
  PROVE  \A k \in Nodes \ {r} : stale'[k] = stale[k]
BY DEF TypeOK

(* A standby may change its copy to one that fits its token.               *)
LEMMA CopyKeeps ==
  ASSUME IndInv, TypeOK', NEW r \in Nodes \ {Home},
         role'[r] # "primary", pending'[r] = NoDelta, chain'[r] <= minted,
         role'[r] # "replica" => chain'[r] = 0,
         chain'[r] # 0 => Fits(disk'[r], chain'[r]),
         \A n \in Nodes \ {r} : /\ role'[n] = role[n] /\ stale'[n] = stale[n]
                                /\ chain'[n] = chain[n] /\ pending'[n] = pending[n]
                                /\ disk'[n] = disk[n],
         net' \subseteq net,
         UNCHANGED <<running, dirty, tracking, pc, work, out, seed, content, minted, writes>>
  PROVE  IndInv'
<1>1. /\ disk'[Home] = disk[Home] /\ chain'[Home] = chain[Home]
      /\ pending'[Home] = pending[Home] /\ role'[Home] = role[Home]
      /\ stale'[Home] = stale[Home]
  BY HomeAssumption
<1>2. Newest(Home)' = Newest(Home) /\ Outstanding(Home)' = Outstanding(Home)
  BY <1>1 DEF Newest, Outstanding
<1>3. OnlyHome' /\ RoundShape' /\ SeedIsNew' /\ Growing'
  BY <1>1 DEF IndInv, OnlyHome, RoundShape, SeedIsNew, Growing
<1>4. MintedTokens'
  BY Numbers DEF IndInv, MintedTokens, NoDelta
<1>5. BitmapCovers' /\ DeltaLeads' /\ UploadsFit'
  BY <1>1, <1>2 DEF IndInv, BitmapCovers, DeltaLeads, UploadsFit, Fits, Leads
<1>6. CopiesFit'
  <2>. SUFFICES ASSUME NEW k \in Nodes \ {Home}, chain'[k] # 0
                PROVE  Fits(disk[k], chain[k])'
    BY DEF CopiesFit
  <2>1. CASE k = r
    BY <1>1, <2>1 DEF Fits
  <2>2. CASE k # r
    BY <1>1, <2>2 DEF IndInv, CopiesFit, Fits
  <2>. QED BY <2>1, <2>2
<1>. QED BY <1>3, <1>4, <1>5, <1>6 DEF IndInv

(* Whatever a standby does with an upload.                                 *)
LEMMA ReceiveKeeps ==
  ASSUME IndInv, TypeOK', NEW m \in net, Receive(m)
  PROVE  IndInv'
<1>0. m \in Uploads /\ m.to \in Nodes /\ m.from \in Nodes
  BY DEF IndInv, TypeOK, Uploads
<1>1. \A v : Answer(m, v) => net' \subseteq net
  BY DEF Answer
<1>2. ASSUME DeltaVerdict(m) \in {"ok", "apply"} \/ SeedVerdict(m) = "install"
      PROVE  m.to \in Nodes \ {Home} /\ role[m.to] # "primary" /\ pending[m.to] = NoDelta
  <2>1. m.to # Home
    BY <1>2 DEF DeltaVerdict, SeedVerdict, ActivePrimary, IndInv, OnlyHome
  <2>. QED BY <1>0, <2>1 DEF IndInv, OnlyHome
<1>3. /\ m.next \in 1 .. minted /\ m.next \in Nat /\ minted \in Nat
      /\ disk[Home] \in [Blocks -> Nat] /\ m.image \in [Blocks -> Nat]
      /\ \A t \in 1 .. minted : content[t] \in [Blocks -> Nat]
  BY Numbers, MintedInUse, HomeAssumption DEF IndInv
<1>4. CASE ReceiveDelta(m)
  <2>1. \A k \in Nodes : chain[k] <= minted /\ (chain[k] # 0 /\ k # Home => Fits(disk[k], chain[k]))
    BY DEF IndInv, MintedTokens, CopiesFit
  <2>1a. \A k \in Nodes \ {Home} : role[k] # "replica" => chain[k] = 0
    BY DEF IndInv, OnlyHome
  <2>2. CASE DeltaVerdict(m) = "ok"
    BY <1>1, <1>2, <1>4, <2>1, <2>1a, <2>2, CopyKeeps DEF ReceiveDelta, images, IndInv, TypeOK
  <2>3. CASE DeltaVerdict(m) # "ok"
    <3>1. UNCHANGED <<store, images>>
      BY <1>0, <1>4, <2>3 DEF ReceiveDelta, IndInv, TypeOK, store
    <3>2. UNCHANGED <<pc, work, out, seed, content, minted, writes>> /\ net' \subseteq net
      BY <1>1, <1>4 DEF ReceiveDelta
    <3>3. OnlyHome' /\ MintedTokens' /\ Growing' /\ RoundShape' /\ SeedIsNew'
      BY <3>1, <3>2 DEF IndInv, OnlyHome, MintedTokens, Growing, RoundShape, SeedIsNew,
                        store, images
    <3>4. BitmapCovers' /\ DeltaLeads' /\ CopiesFit' /\ UploadsFit'
      BY <3>1, <3>2 DEF IndInv, BitmapCovers, DeltaLeads, CopiesFit, UploadsFit, Fits,
                        Leads, Newest, Outstanding, store, images
    <3>. QED BY <3>3, <3>4 DEF IndInv
  <2>. QED BY <2>2, <2>3
<1>5. CASE ApplyDelta(m)
  <2>1. /\ DeltaVerdict(m) = "apply" /\ m.kind = "delta"
        /\ chain[m.to] = m.prev /\ m.prev # 0
    BY <1>5 DEF ApplyDelta, DeltaVerdict
  <2>2. Fits(disk[m.to], m.prev) /\ Leads(m.prev, m.next, m.blocks) /\ m.image = content[m.next]
    BY <1>2, <2>1 DEF IndInv, CopiesFit, UploadsFit
  <2>3. Fits(Overlay(disk[m.to], m), m.next)
    BY <2>2 DEF Fits, Leads, Overlay
  <2>4. /\ disk'[m.to] = Overlay(disk[m.to], m) /\ chain'[m.to] = m.next
        /\ UNCHANGED <<role, pending>>
        /\ \A k \in Nodes \ {m.to} : disk'[k] = disk[k] /\ chain'[k] = chain[k]
    BY <1>0, <1>5 DEF ApplyDelta, IndInv, TypeOK
  <2>5. \A k \in Nodes \ {m.to} : stale'[k] = stale[k]
    BY <1>5, StaleElsewhere DEF ApplyDelta, IndInv
  <2>6. net' \subseteq net /\ m.next <= minted /\ UNCHANGED <<running, dirty, tracking, pc,
          work, out, seed, content, minted, writes>>
    BY <1>1, <1>3, <1>5 DEF ApplyDelta
  <2>7. role[m.to] = "replica"
    BY <1>2, <2>1 DEF IndInv, OnlyHome
  <2>. QED BY <1>2, <2>1, <2>3, <2>4, <2>5, <2>6, <2>7, CopyKeeps
<1>6. CASE TornDelta(m)
  <2>1. /\ DeltaVerdict(m) = "apply" /\ m.kind = "delta"
        /\ chain[m.to] = m.prev /\ m.prev # 0
    BY <1>6 DEF TornDelta, DeltaVerdict
  <2>2. PICK done \in SUBSET m.blocks :
          disk' = [disk EXCEPT ![m.to] = Overlay(disk[m.to], [m EXCEPT !.blocks = done])]
    BY <1>6 DEF TornDelta
  <2>3. [m EXCEPT !.blocks = done].image = m.image /\ [m EXCEPT !.blocks = done].blocks = done
    BY <1>0 DEF Uploads
  <2>4. /\ disk'[m.to] = [b \in Blocks |-> IF b \in done THEN m.image[b] ELSE disk[m.to][b]]
        /\ \A k \in Nodes \ {m.to} : disk'[k] = disk[k]
    <3>1. Overlay(disk[m.to], [m EXCEPT !.blocks = done])
            = [b \in Blocks |-> IF b \in done THEN m.image[b] ELSE disk[m.to][b]]
      BY <2>3 DEF Overlay
    <3>2. disk \in [Nodes -> Disks]
      BY DEF IndInv, TypeOK
    <3>. QED BY <1>0, <2>2, <3>1, <3>2
  <2>5. Fits(disk[m.to], m.prev) /\ m.image = content[m.next] /\ m.prev \in 1 .. minted
        /\ m.prev <= m.next
    BY <1>2, <2>1, MintedInUse DEF IndInv, CopiesFit, UploadsFit, MintedTokens
  <2>6. \A b \in Blocks : content[m.prev][b] <= content[m.next][b]
                          /\ content[m.next][b] <= disk[Home][b]
    BY <1>3, <2>5 DEF IndInv, Growing
  <2>7. Fits(disk'[m.to], m.prev)
    <3>. SUFFICES ASSUME NEW b \in Blocks, disk[Home][b] = content[m.prev][b]
                  PROVE  disk'[m.to][b] = content[m.prev][b]
      BY DEF Fits
    <3>1. content[m.prev][b] \in Nat /\ content[m.next][b] \in Nat
      BY <1>3, <2>5
    <3>2. content[m.next][b] = content[m.prev][b]
      BY <2>6, <3>1
    <3>3. disk[m.to][b] = content[m.prev][b]
      BY <2>5 DEF Fits
    <3>. QED BY <2>4, <2>5, <3>2, <3>3
  <2>8. chain[m.to] <= minted
    BY <1>0 DEF IndInv, MintedTokens
  <2>9. role[m.to] = "replica"
    BY <1>2, <2>1 DEF IndInv, OnlyHome
  <2>. QED BY <1>1, <1>2, <1>6, <2>1, <2>4, <2>7, <2>8, <2>9, CopyKeeps DEF TornDelta, store
<1>7. CASE InstallSeed(m)
  <2>1. SeedVerdict(m) = "install" /\ m.kind = "seed"
    BY <1>7 DEF InstallSeed
  <2>2. m.blocks = Blocks /\ Fits(m.image, m.next)
    BY <2>1 DEF IndInv, UploadsFit
  <2>3. Fits(Overlay(disk[m.to], m), m.next)
    BY <2>2 DEF Fits, Overlay
  <2>4. /\ disk'[m.to] = Overlay(disk[m.to], m) /\ chain'[m.to] = m.next
        /\ role'[m.to] = "replica" /\ pending'[m.to] = NoDelta
        /\ \A k \in Nodes \ {m.to} : /\ disk'[k] = disk[k] /\ chain'[k] = chain[k]
                                      /\ role'[k] = role[k] /\ pending'[k] = pending[k]
    BY <1>0, <1>7 DEF InstallSeed, IndInv, TypeOK
  <2>5. \A k \in Nodes \ {m.to} : stale'[k] = stale[k]
    BY <1>7, StaleElsewhere DEF InstallSeed, IndInv
  <2>6. net' \subseteq net /\ m.next <= minted /\ UNCHANGED <<running, dirty, tracking, pc,
          work, out, seed, content, minted, writes>>
    BY <1>1, <1>3, <1>7 DEF InstallSeed
  <2>. QED BY <1>2, <2>1, <2>3, <2>4, <2>5, <2>6, CopyKeeps
<1>8. CASE TornSeed(m)
  <2>1. SeedVerdict(m) = "install" /\ m.kind = "seed"
    BY <1>8 DEF TornSeed
  <2>2. m.to \in Nodes \ {Home} /\ role[m.to] # "primary" /\ pending[m.to] = NoDelta
    BY <1>2, <2>1
  <2>3. /\ UNCHANGED <<stale, chain, pending>>
        /\ disk' = [disk EXCEPT ![m.to] = Overlay(disk[m.to], m)]
        /\ UNCHANGED <<running, dirty, tracking, pc, work, out, seed, content, minted, writes>>
        /\ net' \subseteq net
    BY <1>1, <1>8 DEF TornSeed
  <2>4. /\ \A k \in Nodes \ {m.to} : disk'[k] = disk[k] /\ role'[k] = role[k]
        /\ role'[m.to] \in {role[m.to], "orphan"}
        /\ role[m.to] # "none" => role'[m.to] = role[m.to]
    BY <1>0, <1>8 DEF TornSeed, IndInv, TypeOK
  <2>5. role'[m.to] # "replica" => chain[m.to] = 0
    BY <2>2, <2>4 DEF IndInv, OnlyHome
  <2>6. chain[m.to] <= minted
    BY <1>0 DEF IndInv, MintedTokens
  <2>7. CASE role[m.to] = "none"
    <3>1. chain[m.to] = 0
      BY <2>2, <2>7 DEF IndInv, OnlyHome
    <3>. QED BY <2>2, <2>3, <2>4, <2>5, <2>6, <3>1, CopyKeeps
  <2>8. CASE role[m.to] # "none"
    <3>1. chain[m.to] # 0 => Fits(disk'[m.to], chain[m.to])
      <4>1. out[m.from] = m /\ pc[m.from] = "wait"
        BY <1>8, <2>8 DEF TornSeed
      <4>2. m.from = Home
        BY <1>0, <4>1, HomeOnly
      <4>3. m.blocks = Blocks /\ m.image = seed[Home].image /\ seed[Home].token # 0
        BY <2>1, <4>1, <4>2 DEF IndInv, UploadsFit, SeedIsNew
      <4>4. disk'[m.to] = [b \in Blocks |-> m.image[b]]
        BY <1>0, <2>3, <4>3 DEF Overlay, IndInv, TypeOK
      <4>5. \A t \in 1 .. minted : \A b \in Blocks :
              content[t][b] <= m.image[b] /\ m.image[b] <= disk[Home][b]
        BY <4>3 DEF IndInv, SeedIsNew
      <4>6. ASSUME NEW t \in 1 .. minted, NEW b \in Blocks, disk[Home][b] = content[t][b]
            PROVE  disk'[m.to][b] = content[t][b]
        <5>1. content[t][b] \in Nat /\ m.image[b] \in Nat
          BY <1>3
        <5>2. content[t][b] <= m.image[b] /\ m.image[b] <= disk[Home][b]
          BY <4>5
        <5>. QED BY <4>4, <4>6, <5>1, <5>2
      <4>7. chain[m.to] # 0 => chain[m.to] \in 1 .. minted
        BY <1>0, MintedInUse DEF IndInv, MintedTokens
      <4>. QED BY <4>6, <4>7 DEF Fits
    <3>. QED BY <2>2, <2>3, <2>4, <2>5, <2>6, <3>1, CopyKeeps
  <2>. QED BY <2>7, <2>8
<1>9. CASE RefuseSeed(m) \/ Drop(m)
  <2>1. /\ UNCHANGED <<store, images, pc, work, out, seed, content, minted, writes>>
        /\ net' \subseteq net
    BY <1>1, <1>9 DEF RefuseSeed, Drop, round
  <2>2. OnlyHome' /\ MintedTokens' /\ Growing' /\ RoundShape' /\ SeedIsNew'
    BY <2>1 DEF IndInv, OnlyHome, MintedTokens, Growing, RoundShape, SeedIsNew, store, images
  <2>3. BitmapCovers' /\ DeltaLeads' /\ CopiesFit' /\ UploadsFit'
    BY <2>1 DEF IndInv, BitmapCovers, DeltaLeads, CopiesFit, UploadsFit, Fits,
                Leads, Newest, Outstanding, store, images
  <2>. QED BY <2>2, <2>3 DEF IndInv
<1>. QED BY <1>4, <1>5, <1>6, <1>7, <1>8, <1>9 DEF Receive

(* The invariant is inductive.                                             *)
LEMMA Inductive == Spec => []IndInv
<1>1. Init => IndInv
  <2>. SUFFICES ASSUME Init PROVE IndInv
    OBVIOUS
  <2>1. TypeOK
    BY EmptyValues, HomeAssumption, BoundsAssumption DEF Init, TypeOK, Tokens, Versions
  <2>2. /\ NoDelta.token = 0 /\ NoDelta.blocks = {} /\ NoWork.token = 0
        /\ NoSeed.token = 0
    BY DEF NoDelta, NoWork, NoSeed
  <2>3a. OnlyHome
    BY HomeAssumption DEF Init, OnlyHome
  <2>3. MintedTokens /\ RoundShape /\ SeedIsNew /\ UploadsFit
    BY <2>2, HomeAssumption DEF Init, MintedTokens, RoundShape, SeedIsNew, UploadsFit
  <2>4. disk[Home] = ZeroDisk /\ \A t \in Tokens : content[t] = ZeroDisk
    BY HomeAssumption DEF Init
  <2>5. Growing
    BY <2>4, <2>1, Numbers DEF Growing, Init, ZeroDisk
  <2>6. BitmapCovers /\ DeltaLeads /\ CopiesFit
    BY <2>2, <2>4, EmptyValues, HomeAssumption
       DEF Init, BitmapCovers, DeltaLeads, CopiesFit, Fits, Leads, Newest, Outstanding
  <2>. QED BY <2>1, <2>3a, <2>3, <2>5, <2>6 DEF IndInv
<1>2. IndInv /\ [Next]_vars => IndInv'
  <2>1. IndInv /\ UNCHANGED vars => IndInv'
    BY DEF IndInv, TypeOK, OnlyHome, MintedTokens, Growing, RoundShape, BitmapCovers,
       DeltaLeads, CopiesFit, SeedIsNew, UploadsFit, Fits, Leads, Newest, Outstanding,
       vars, store, images, round
  <2>2. IndInv /\ Next => TypeOK'
    BY GuestTypes, FaultTypes, RoundTypes, ReceiveTypes DEF IndInv, Next
  <2>. QED BY <2>1, <2>2, GuestKeeps, FaultKeeps, RoundKeeps, ReceiveKeeps DEF Next
<1>. QED BY <1>1, <1>2, PTL DEF Spec

(* A standby whose token would accept the primary's next delta differs     *)
(* from the primary only where that delta, or a later one, brings it up to *)
(* date: no crash, lost or repeated upload, lost file or torn write        *)
(* outside the take-to-record window makes it diverge in silence.          *)
THEOREM StandbyAlwaysFits == Spec => []StandbyFits
<1>1. IndInv => StandbyFits
  <2>. SUFFICES ASSUME IndInv, NEW p \in Nodes, NEW r \in Nodes, ActivePrimary(p),
                       role[r] = "replica", chain[r] # 0
                PROVE  /\ chain[r] = Newest(p) =>
                            \A b \in Blocks \ Covered(p) : disk[r][b] = disk[p][b]
                       /\ chain[r] = chain[p] =>
                            \A b \in Blocks \ (Covered(p) \cup Outstanding(p)) :
                              disk[r][b] = disk[p][b]
    BY DEF StandbyFits
  <2>1. p = Home /\ r \in Nodes \ {Home}
    BY HomeOnly DEF IndInv, OnlyHome
  <2>2. Fits(disk[r], chain[r])
    BY <2>1 DEF IndInv, CopiesFit
  <2>3. ASSUME chain[r] = Newest(Home), NEW b \in Blocks \ Covered(Home)
        PROVE  disk[r][b] = disk[Home][b]
    BY <2>2, <2>3 DEF Covered, IndInv, BitmapCovers, Fits
  <2>4. ASSUME chain[r] = chain[Home], NEW b \in Blocks \ (Covered(Home) \cup Outstanding(Home))
        PROVE  disk[r][b] = disk[Home][b]
    <3>1. Newest(Home) # 0
      BY <2>4, Numbers, HomeAssumption DEF Newest, IndInv, RoundShape
    <3>2. tracking[Home] = "recording" /\ b \in Blocks \ dirty[Home]
      BY <2>4, HomeAssumption DEF Covered, IndInv, TypeOK
    <3>3. content[chain[Home]][b] = content[Newest(Home)][b]
      BY <2>4 DEF IndInv, DeltaLeads, Leads
    <3>4. disk[Home][b] = content[Newest(Home)][b]
      BY <3>1, <3>2 DEF IndInv, BitmapCovers
    <3>. QED BY <2>2, <2>4, <3>3, <3>4 DEF Fits
  <2>. QED BY <2>1, <2>3, <2>4
<1>. QED BY <1>1, Inductive, PTL
=============================================================================
