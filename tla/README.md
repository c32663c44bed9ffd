# WolfStack: a TLA+ model of what its machines decide between them

WolfStack is a server-management daemon: one Rust service per machine, a web
dashboard, and a cluster of such services that poll each other over HTTP.  Most
of its 330 000 lines wrap other tools (Docker, LXC, QEMU, Proxmox, storage,
firewalls, databases).  What is WolfStack's own, and hard, is the part that
decides between machines, or between requests that come at once: WolfHA, which
replicates a container or a virtual machine to standbys and decides who runs it;
the cluster registry, by which nodes know each other; WolfRun, which keeps the
replicas of a service; the rotation of the cluster secret; and the OAuth store of
the MCP endpoint.  This project models those.

Paths below are those of the repository with `src/` for its root; line numbers
without a file are lines of `src/src/wolfha/mod.rs`.

## 1. Inventory

### WolfHA (`src/src/wolfha/`, handlers in `src/src/api/mod.rs` 13951-15560)

* State. Each node keeps its own `HaStore` (a JSON file loaded and saved around
  every change): per subject an `HaEntry` with `role`, `stale`, `primary`,
  `replicas` (the succession order), `witness`, `failover_after_secs`, for a VM
  `vm_chain` and `pending_vm_delta`. In memory: `FAIL_SINCE` (the outage
  clocks), `SYNCING`. Outside WolfStack: whether the subject runs, its disk, the
  dirty bitmap of QEMU, staged files.
* Operations. `wolfha_enable/update/disable/drop`, `wolfha_promote`,
  `wolfha_demote`, `wolfha_apply_delta`, `wolfha_apply_vm_delta`, seed upload;
  background: `scheduler_forever` (sync rounds), `failover_monitor_forever` (a
  pass every 15 s), `boot_guard` (once after a machine boot).
* Interactions. Nodes read each other's status, upload deltas and seeds, and ask
  for handovers; nothing is agreed by quorum. Each decision rests on what a node
  reaches at that moment: its peers, a witness IP, the subject's own IP, the
  cluster registry.
* Hard behaviour. Two independent clocks decide a failover; a pass asks first
  and acts later; a round spans minutes and survives restarts through the store;
  uploads that timed out still arrive; machines crash between two saves.
* What makes it correct. The subject runs on at most one node; it ends up
  running on some node; replicas converge behind that node; a standby's disk is
  the primary's except for what the primary still has to send.

### Cluster secret rotation (`src/src/secret_rotation.rs`, `src/src/auth/mod.rs`)

* State. Per node: the secret it was started with (`AppState.cluster_secret`),
  the active secret file, a `.pending` and several `.bak` files beside it, and the
  stored credentials, which are encrypted under the secret. Per process: the
  rotation lock.
* Operations. `api_coordinated_rotate` on the coordinator; on the peers
  `api_rotate_preflight`, `_receive`, `_commit`, `_rollback`; `api_rotate_propose`.
* Interactions. The coordinator calls each peer in turn, four times over; every
  call is signed with the secret in its memory, and a peer accepts the one in its
  own memory and the one in its file, the built-in default only without a file.
* Hard behaviour. What a peer accepts changes with its commit; an answer may be
  lost after the peer has acted; nodes are restarted when convenient.
* What makes it correct. A reported success is complete; a failed peer leaves the
  nodes with one secret; the credentials can be opened after the restart.

### Cluster registry (`src/src/agent/mod.rs`)

* State. Per node: `nodes` (records of other nodes under an id, with the address
  and, once polled, the global id), `deleted_ids` (tombstones), its own display
  name, identity intents (edits that another node has yet to take), all on disk;
  in memory the online flags and fail counts.
* Operations. `add_node`, `remove_node`, `update_node_settings`; background:
  `poll_remote_nodes` every 10 s, `sweep_replicate_control_plane` every 30 s,
  `sweep_identity_intents` every 60 s.
* Interactions. A poll takes over what the node says of itself, its tombstones,
  the records it has and one lacks, its mirrors of everybody's settings; the
  control-plane push carries the same. Removals are broadcast once.
* Hard behaviour. A poll works on a copy taken before its requests; ids, addresses
  and global ids name the same node in different places; a node may be known by
  a name it does not recognise as its own.
* What makes it correct. Nodes come to know each other; a removed id stays away;
  nobody lists itself; a rename arrives, also at a node that was down.

### WolfRun (`src/src/wolfrun/mod.rs`)

* State. Per node: the services with their instances and the tombstones of deleted
  ones, on disk; restart counters, the reconcile lock.
* Operations. Create, update, scale, delete; `reconcile` on the leader every
  15 s and on the node that serves a request; `check_failover`, `manage_standby`;
  `broadcast_to_cluster`, `merge_from_peer`.
* Interactions. The node with the lowest id that is seen online leads. Its list
  replaces everybody's; deletions travel the other way as tombstones.
* Hard behaviour. A pass lasts minutes and writes back what it saw; a copy of the
  list is on its way while the list changes; the two lists are under two locks.
* What makes it correct. The replicas asked for come to run; the lists come to
  agree; a deletion anywhere is honoured and nothing else disappears.

### MCP OAuth store (`src/src/mcp/oauth.rs`, `src/src/mcp/http.rs`)

* State. Clients, grants, two indexes from refresh tokens to grants, pending
  approvals, codes, used codes and access tokens under one lock; clients and grants
  also in a file.
* Operations. Register, authorize, consent, exchange, refresh, use, revoke (by
  token, grant, user, all), sweep, restart; the account handlers that change a
  password or remove a user.
* Interactions. A token request takes the lock twice and reads the account files
  in between. Every change is made on a copy, written, then made live.
* Hard behaviour. Requests, revocations, expiry and restarts in that gap; writes
  that fail; answers that are lost and retried.
* What makes it correct. A grant that has ended stays ended; one approval gives
  one grant; a restart changes nothing a client can see.

### Other parts with a protocol of their own

| part | state | operations and interactions | properties that make it correct |
|---|---|---|---|
| cluster join (`cluster_join.rs`) | one-time tokens | mint, redeem, expire | a token admits one node |
| site failover (`site_failover/`) | plans, their last run | execute a plan over WolfHA and DNS | steps in order, no second run beside the first |
| deadman (`danger.rs`) | armed reverts | arm, confirm, expire | an unconfirmed change is undone exactly once |
| authentication (`auth/`) | sessions, failure counters | log in, lock out, expire | a lockout ends; a session dies with its user |
| WolfFlow, WolfAgents, pools, edge | runs, pending approvals, desired state | schedules, retries, reconcile loops | a step runs at most once per attempt; a pending action is approved before it runs |
| container deltas (`manifest_diff`, `replication/rolling.rs`) | none | pure algorithms | applying the diff of A and B to A gives B |
| Proxmox containers on ZFS (`replication/zfs_send.rs`) | snapshots per node | incremental send, prune | an incremental base exists on both sides |

The remaining parts (listed in `PROJECT.json`) configure or read external tools:
they keep no protocol state, and are left out.

## 2. Modules

| module | models | what it is |
|---|---|---|
| `WolfHaVmChain` | `sync_container_now` for a VM, `vm_take_delta`, `stage_vm_seed`, `vm_apply_delta`, `install_vm_seed`, `wolfha_apply_vm_delta`, `qemu_bitmap.rs` | one epoch of VM disk replication: one primary, any number of standbys |
| `WolfHaVmLive` | the same | its fairness and liveness, with a budget of faults |
| `WolfHaVmChainProofs` | | TLAPS proofs: type correctness and `StandbyFits` |
| `WolfHaFailover` | `failover_monitor_forever`, `boot_guard`, `promote_local`, `demote_local`, `wolfha_promote`, `wolfha_demote`, `wolfha_apply_delta` as carrier of settings | who runs a protected container |
| `WolfHaFailoverProofs` | | TLAPS proofs: type correctness, `StandbyIdle` |
| `SecretRotation` | `api_coordinated_rotate` and the `api_rotate_*` handlers, `reencrypt_all_at_rest`, `validate_inter_node_secret_from` | the coordinated rotation of the cluster secret |
| `SecretRotationProofs` | | TLAPS proofs: type correctness, `SuccessIsTotal`, `NotHalfRotated`, `VaultFollows` |
| `AgentRegistry` | `poll_remote_nodes`, `merge_tombstones`, `merge_member_refs`, `sweep_identity_intents`, `plan_prune`, `add_node`, `remove_node` | the registry of every node |
| `AgentRegistryProofs` | | TLAPS proofs: type correctness, `TombstonesBar`, `SelfUnlisted` |
| `WolfRunGossip` | `broadcast_to_cluster`, `merge_from_peer`, create, update, delete | how the list of services travels |
| `WolfRunGossipProofs` | | TLAPS proofs: type correctness, `OnlyDeletedBuried` |
| `WolfRunReconcile` | `reconcile`, `schedule`, `deploy_docker`, `check_failover`, `manage_standby`, the handlers that scale and update | how one Docker service gets its replicas |
| `WolfRunReconcileProofs` | | TLAPS proofs: type correctness, `BooksLocate` |
| `McpOAuth` | `mcp/oauth.rs`, the handlers of `mcp/http.rs`, the account handlers that cut a user off | the token store |
| `GrantLedger` | | what the token store promises: an abstract specification that `McpOAuth` implements |
| `McpOAuthProofs` | | TLAPS proofs: type correctness, `IndexesAgree`, `RestartIsInvisible`, `OneGrantPerApproval`, the refinement |
| `ListFacts` | | lemmas about the library's operators on lists (`Min`, `RemoveFirst`) that several proofs cite |
| `MCWolfHaVmChain`, `MCWolfHaFailover`, `MCSecretRotation`, `MCMcpOAuth` | | symmetry sets and succession order for TLC |

### WolfHaVmChain

Variables are the fields of `HaEntry` that matter to replication (`role`,
`stale`, `chain` for `vm_chain`, `pending` for `pending_vm_delta`), the machine
(`running`, `disk`, `dirty`, `tracking`), the round in memory (`pc`, `work`,
`todo`, `out`, `reply`, `seed`) and the network (`net`). `content`, `minted` and
`writes` are history: `content[t]` is the disk for which token `t` was minted.

A disk maps blocks to versions (the number of the guest write that produced
them); a UUID token is a number, 0 for the empty string. A round is one step per
point where something else can happen in between:
`BeginRound` (retry of an outstanding delta, or a lost staged file),
`TakeDelta`/`TakeRefused`/`TakeNothing` (`take_incremental`, or a stopped VM),
`RecordPending` (the save after it), `SendDelta`, `StageSeed`, `SendSeed`,
`Confirmed`/`Refused`/`Failed`/`Unreachable` (the outcome per standby) and
`FinishRound`. The standby's `ReceiveDelta`, `ApplyDelta`, `InstallSeed`,
`RefuseSeed` follow its checks in order; `TornDelta` and `TornSeed` are its
crashes and failures halfway. A first install that fails after the definition is
written and before the entry is saved leaves a node with the role "orphan" (1331-1365):
`install_vm_seed` takes it for somebody else's VM and refuses every seed
(1290-1303), `wolfha_apply_vm_delta` asks for one, until somebody removes the copy. `net` keeps an upload until it is dropped, so an abandoned
request may arrive late or twice. `LoseStaged`, `LoseCopy`, `MachineCrash` and
`ServiceRestart` come at any point. Crashes between `TakeDelta` and
`RecordPending` are left out of `Next` and put back in `SpecTakeCrash`: see the
finding below.

### WolfHaFailover

Every node has the entry's four fields, `running`, the two outage clocks, the
decision of its current pass (`intent`) and an operator's task (`op`,
`serving`). A pass is two steps, a decision (`PassPrimary`, `PassFenced`,
`PassIdlePrimary`, `PassStandby`, `PassStale`: the arms of the monitor's match)
and an act (`SelfFence`, `Supersede`, `Resume`, `StopDuplicate`, `AutoPromote`),
because the code asks peers over the network before it acts. Anything may come
between the two: passes of other nodes, deltas, faults, the operator.
`FenceFails` and `StopFails` are the acts when the container does not stop.
`BootGuard` and `BootStart` are the boot guard, `Sync` a delta round, which also
carries the settings; `AskPromote` to `OperatorPromotes` are `wolfha_promote` with
`wolfha_demote` on the asked node. `Restart` is WolfStack restarted on a machine that
goes on running: the outage clocks (`FAIL_SINCE`), the pass and the tasks under way
are gone, the monitor's first pass comes a minute later, and within ten minutes of
the machine's boot the boot guard acts again.

`Tick` is one monitor cycle (15 s). `PassTicks` bounds the cycles between two
passes of a node. `Env` says what the environment may do, so that each run
states its fault model; the module header explains the names. `seen` is history:
what the environment has done so far, for properties that hold until something has
happened.

### SecretRotation

A secret is a number; 0 is the built-in default in `mem` and `disk`, and a missing
file in `pend` and `bak`. A rotation is one step per request, since a peer may
restart or another operator act between two of them: `StartRotation` (session,
lock and stale-coordinator check), `Preflight`, `Receive`, `Commit` and, going
back, `DropPending` and `Undo` per peer, each with the coordinator's bookkeeping
(`todo`, `ok`, `failed`), and between them what the coordinator does alone
(`PreflightDone`, `ReceiveDone`, `SelfPending`, `CommitDone`, `AbortDone`,
`UndoDone`, `SelfCommit`, `SelfCommitFails`, `Report`). A peer's handler is one
step: it holds no lock, but only a second coordinator could come between its
parts. `Lost` is a request that does not arrive or that the peer fails to carry
out, `CommitFails` a rename that fails after the backup; `ReceiveUnanswered` and
`CommitUnanswered` are carried out and not acknowledged. The code visits the
peers in a fixed order; the model allows every order. Only the newest backup is
ever read, so `bak` keeps one and pruning is not visible. `Seal` is the re-keying,
which a node also survives when it fails. `blame`, `doubt`, `mixed` and `unsealed`
are history, so that the properties can say what went wrong.

### AgentRegistry

Nodes are numbers; a node's own id is its number, `add_server` mints the ids above.
A record says whose it is, by which of two kinds of address (`ip`, which a node
recognises as its own, or `dns`, which it does not), whether it carries the
global id (`sid`), whether it was polled (`seen`; "late" once it has failed for
long enough to be offline) and the display name (`label`). A poll copies the record
(2462), waits for the answer (2570) and writes (2746): `PollStart` and `LatePoll`, with
everybody's steps in between, or `Poll`, when nothing comes in between. What it writes
is one step: what the polled node says of itself, put over the copy, then
tombstones (`MergeTombstones`), mirrored settings (`Mirrored`), records that are new
(`Seeds`) and a name one's peer has for oneself (`Adopted`). `Slow` names the nodes
whose polls may be drawn out and `MaxLate` how many at once. `Replicate` is the
control-plane push with `merge_member_refs` at the receiver.

`remove_server` is two steps: the record goes (`RemoveServer`, in `RemoveNode`, in
`Join` for stale records of a node that returns, and at peers), and `burying` holds
what has yet to get its tombstone (`Bury`, which also sends the DELETE to any of the
peers that are online; these do the same two steps). `SweepStart` and `SweepDone` are
the delivery of an intent, `StopAnyhow` a stop, which loses polls and removals under
way, `StopInMerge` one between the two saves of `merge_tombstones` (1272-1274), after
which `load_nodes` reads a list with tombstoned records in it; `Boot` is the load with
`plan_prune`.

### WolfRunGossip and WolfRunReconcile

The first has the lists and tombstones of all nodes, the broadcasts under way
(`cast`: the loop's, and one for every handler that spawned its own; `MaxCasts` bounds
them), the requests of peers being served, which are taken up and finished in any
order (`inbox`, bounded by `Inbox`), and the two locks that a deletion takes one after
the other. A run starts from a cluster that agrees on any set of services. The second has one service, its books on every node, the containers there
really are (`world`) and for each node two tasks that may reconcile, the loop and a
handler. A pass is a step per request or write: copy, observe, write back, create,
register, release, restart, forget, then failover and standbys on the leader. What
goes wrong (a container stops or vanishes, a request fails or is carried out and
not answered, a node is cut off or crashes) is drawn from a budget. A random container
name is the least of those nobody uses (`Free`); when all are used nothing more is
created, a bound that withholds no creation in `wolfrun_reconcile`. A restart and a removal go
to the node where the container is, while the code goes to the node its books name:
`BooksLocate` says that this is the same.

### McpOAuth and GrantLedger

`mem` is `Inner`, `disk` the file, `req` what a request carries from one lock to
the next. Each lock section is one action; `Commit` writes and makes live, or
fails. Tokens are fresh numbers and anybody may present any of them at any time.
`GrantLedger` knows only which grants are open, with which credentials and token,
and which have ended: a grant is opened once per approval, renewed with a newer token,
ended for good, and admits a request only while it is open; a request that was
admitted may be served after the end, as in `mcp/http.rs` 216-237. The refinement maps
the grants in the file, `disk.grants`, to the open ones, and leaves their credentials
out. `Restart` has the three outcomes of `load`: the file is read; it does not parse
and counts as empty (moved aside, or overwritten by the next write); it cannot be read
(`mcp/oauth.rs` 516) and stays where it is beside an empty memory (`unread`), so that
the next restart may bring its grants back.

## 3. Runs

| run | bounds | shows |
|---|---|---|
| `vm_chain` | 1 standby, 2 blocks, 2 deltas beside the seed, 2 writes, 2 uploads in flight | `TypeOK`, `StandbyFits`: a standby's token never vouches for a disk it does not hold |
| `vm_pending` | 2 standbys, 1 block, 1 delta, 1 fault anywhere | `PendingResolves`: an outstanding delta is confirmed by all or found lost, unless a standby is left with a definition and no entry |
| `vm_take_crash` (violation) | as `vm_chain`, smaller | a crash between backup and save loses blocks in silence |
| `failover_safety` | 3 nodes, a pass in every cycle, failover after 6, fence 3; any two of crashes, reboots after them, service restarts, isolations (healed or not), standbys started by hand, promotions | `TypeOK`, `IncumbentStopsFirst`, `StandbyIdle`, `HealsToOne` |
| `failover_resumes` | the same with passes every 1-2 cycles, one event of any kind, partial partitions and refused stops included | `ServiceResumes` |
| `failover_split` (violation) | as `failover_safety`, one isolation | `OneRunning` fails when the partition heals |
| `secret_rotation` | 3 nodes, 2 new secrets (two rotations, or a proposal and a rotation), any number of losses, refusals and restarts, one rotation at a time | `TypeOK`, `SuccessIsTotal`, `NotHalfRotated`, `VaultFollows` |
| `oauth` | 2 clients, 1 approval, 2 grants, 1 user with 2 versions of its credentials, 2 requests at a time, 3 refresh tokens of which 1 retired one is kept, clock 0-2 | `TypeOK`, `IndexesAgree`, `RestartIsInvisible`, `OneGrantPerApproval`, `ImplementsLedger` |
| `wolfrun_gossip` | 2 nodes, 1 service, 2 broadcasts and 2 requests of peers at once, 1 tombstone kept, 1 request, 1 crash | `TypeOK`, `OnlyDeletedBuried`, `Agreement`, `DeletionReachesLeader` |
| `wolfrun_reconcile` | 2 nodes, 1 or 2 replicas with and without failover, 1 request at the leader, 1 fault of any kind anywhere | `TypeOK`, `BooksLocate`, `ReachesDesired` |
| `agent_registry` | 3 nodes, node 1 lists node 2; any two of additions, removals, a rename (at node 1) and stops of any node, one of them in the middle of a merge; one poll of node 1 drawn out | `TypeOK`, `TombstonesBar`, `SelfUnlisted`, `MeshForms`, `RenameApplies` |
| `agent_late_poll` (violation) | the same | `TombstonesHold` fails |

Why the bounds are enough. In the chain a harmful behaviour needs two
consecutive deltas, one block that changes in the first and not in the second,
a standby that misses one of them, and one abandoned upload beside the current
one: two blocks, two writes, three tokens (the seed's and two deltas'), two
uploads. Standbys do not interact except through `pending.applied`, `chain`
and a seed shared by a round, which `vm_pending` has with two; the theorem covers
any number. In the failover three nodes are the smallest cluster with a
succession order; two events are enough for a failover followed by a fault of
the new primary, and for a fault of each of two nodes. Time bounds are in cycles of 15 s: the default
`failover_after_secs` of 90 is 6 and its fence 3; the registry's online window of
60 s is 4. Clocks stop at the value the code compares with. The gossip run has two
broadcasts of one node, or one of each, and two copies at one recipient under way
together, which is what reordering takes; what it does not have is a second service, so
that the cap on tombstones and a deletion beside other services are in the theorems
only. A rotation that fails halfway needs a coordinator, a peer that commits and one that
does not; a peer that is behind needs a rotation before that: three nodes and two
new secrets.  In the token store three refresh tokens are the fewest with a replay
that is not a retry, and with one that is drained; two requests are what it takes
to use a code, an approval or a token twice; the second grant is there for whoever
would open one.  Two grants open at once do not occur in the run: the theorems
cover them, and one approval says nothing of another.  For the registry three nodes are the fewest
in which a record travels through somebody else. Drawing out the polls of node 1, where the operator works, is enough for a record to be removed under
a poll; with every node's polls drawn out the safety properties hold as well (205 000
states), and liveness takes too long.
`wolfrun_reconcile` passes as well with two faults and no request; `wolfrun_gossip`
with three nodes, or with two services (1.7 million states), is out of reach of liveness.

### Fairness

`WolfHaVmLive`: `scheduler_forever` starts rounds for as long as the service
lives and every upload has a timeout, so the steps of a round are weakly fair. An
upload may fail each time; that a standby which is tried again and again is at
last reached, and answers, is strong fairness of exactly those steps. The guest,
the operator and the faults get none. `WolfHaFailover`: the monitor, the boot
guard, the delta rounds, the promotion task and time are weakly fair. Nothing is
assumed of operators, repairs and reboots.

`WolfRunGossip`: the leader's loop comes round, and of all broadcasts and requests
under way one or the other goes on. `WolfRunReconcile`: the loops go round, requests
end, a partition ends; a crash is followed by a restart (systemd). `AgentRegistry`: of
the polls, pushes, removals under way and starts of stopped nodes one or the other
happens as long as some would change anything; a poll under way ends; intents are swept;
broadcasts and the first push of a rename may always be lost. The store of
`McpOAuth` promises nothing of the kind, and only safety is checked.
`CHECK_DEADLOCK FALSE` stands where nodes may have nothing to do.

### Findings

* `vm_take_crash` (2140-2155). QEMU clears the bitmap when the backup job
  succeeds; the delta enters the store after that. The comment says a crash
  there "must not lose track of a delta the bitmap no longer describes"; it does,
  and the next delta, taken against the same base, is accepted everywhere.
* `failover_split` (3437-3456). A primary is cut off and fences itself. After the
  standby's clock has run out its pass goes through the gates: the primary is
  unreachable, the container's address does not answer. The partition heals, the
  fenced primary sees its witness, asks its replicas, hears that none has taken over,
  and resumes; the standby starts what it decided to start. Both are active primaries,
  and neither looks for another. 3153-3155 says of the ping that "If ANYTHING answers,
  the container is alive somewhere and promotion aborts. On a shared vSwitch the
  resource is its own lock"; the ping (3575) is before the start (3587), so it locks
  nothing.
* `agent_late_poll` (`agent/mod.rs` 998). `update_remote` inserts what a poll built
  from the copy it started with. A record removed meanwhile is back beside its
  tombstone ("node IDs that were explicitly deleted and must not be re-added by
  gossip", 657), and stays: tombstones go through the list only when one is new. The
  comment at 2638-2643 tells of the same copy undoing an operator's change of two
  other fields, which are read again since; `address`, `cluster_name`,
  `login_disabled` and `update_script` still come from the copy.

### Known limits

Each of these properties is defined in its module and TLC finds it violated with the
constants given (the others as in the runs above).

* `OneRunning` of `WolfHaFailover`, `FailoverAfter` 6, `Fence` 3, `Window` 4,
  `PassTicks` 1, with any one of these, beside the isolation of `failover_split`:
  one partial partition (3371-3375: the primary does not fence while one standby
  answers, on the assumption that the standbys lost the witness too); two crashes, or
  a crash and a promotion, with reboots (nodes that boot, fail over and take over
  act on lists that no delta has corrected, 898, 3487, and on answers that are old,
  3437); an isolation and a service restart (`FAIL_SINCE` starts anew on one side,
  3162); two promotions, which pass each other and leave two primaries
  (`api/mod.rs` 15494-15550). `IncumbentStopsFirst` says what remains.
* `IncumbentStopsFirst`, the same with `PassTicks` 2 and one isolation. The fence is
  checked by passes, and a pass without its peers takes long. With passes up to two
  cycles apart the default 90 s leaves no room: the standby starts first.
* `ServiceResumes`, with two events: two crashes, two isolations, a promotion or a
  standby started by hand together with another fault. Machines that died stay away,
  two booting primaries yield to each other (3098), or a delta that arrives before
  the fenced primary's next pass leaves it primary, with a list that does not hold the
  sender (`api/mod.rs` 14386).
* `FailedPeerHarmless` (`secret_rotation.rs` 994), as `secret_rotation`. After a
  rotation only the coordinator is restarted, which is all that 771-783 asks, and
  rotates again. The peers still run with the first secret and accept the second
  through their files. One commits the third, and then accepts the first and the
  third only; the commit of the other is lost; the rollback, signed with the second,
  is refused. The module's doc says "a failed peer never leaves the cluster in a
  half-rotated state"; `NotHalfRotated` is that sentence with what it takes: every
  node restarted between rotations, and a cluster that has left the default. With
  `Start = 0`, `FailedPeerHarmless` fails in the first rotation: there is no backup
  to restore, and a peer with a secret of its own refuses the default
  (`auth/mod.rs` 492).
* `EarlyRetryIsHonest` (`mcp/oauth.rs` 791), one of everything, `Keep` 2, all times
  1. A client that loses two answers in a row presents a token that is retired twice
  over, within the grace, and its grant is revoked as stolen. 62-64 says of an early
  retry "refused, but the grant is not revoked", while the code rotates again.
* `NoGhost` and `DeletedStaysDeleted` of `WolfRunGossip`, one service, no crash. A
  deletion takes the list and the tombstones under two locks, and a copy that is
  merged in between brings the service back (`wolfrun/mod.rs` 723-726). A leader
  whose list is empty never sends it (283-287), so a service deleted there as the
  last one lives on elsewhere.
* `NoDuplicates` of `WolfRunReconcile`, `Entry` {2}, no faults. `wolfrun_scale`
  (`api/mod.rs` 39100) reconciles on whichever node serves the request, and the lock
  is that of one process: both that pass and the leader's create the missing
  replica. `main.rs` 4458-4459: "Only the cluster leader runs reconciliation to
  prevent duplicate container creation and IP address conflicts". With `Entry` {1}
  it holds. A Docker daemon that does not answer makes a node's instances lost and
  replaced, though 1733-1735 says that erring "can only ever under-create".
* `RenameApplies` of `AgentRegistry` with two renames (`MaxRenames` 2). A node takes the name a peer's
  mirror has for it (`agent/mod.rs` 2863-2884), and a stale mirror brings an earlier
  one back, the flaw for which the comment above it gave up the same for the cluster
  name.
* A removed node that is alive introduces itself again under its own id
  (`merge_member_refs`): a tombstone buries an id, not a node. `TombstonesHold`
  and `TombstonesBar` speak of ids, and `MeshForms` leaves removed nodes out.

Beside the listed runs, TLC finds `SuccessIsTotal` violated in `SecretRotation`
with `Concurrent = TRUE`: the lock is that of one process, and the coordinator's
own commit renames `.pending` without comparing it with its new secret
(`secret_rotation.rs` 1058), which a second coordinator or a proposal may have
replaced. `vm_begin_tracking` (1006) is "called when HA is enabled for a VM and
again after any full seed", but only `wolfha_enable` calls it: in `WolfHaVmChain`
no action makes the bitmap of a VM usable again after a machine crash. In
`WolfHaVmChain`, a re-seed of a stopped VM after a lost delta mints a new chain for
the first standby, and the others of that round are passed over (2107-2109, 2243):
they are seeded when the VM runs again and a delta does not fit them.

## 4. Proofs

`WolfHaVmChainProofs` proves, for every set of nodes and blocks and all bounds
(assumptions `HomeAssumption`: the home node is a node; `BoundsAssumption`: the
bounds are numbers, the token and network bounds not zero):

* `TypeCorrect`: `Spec => []TypeOK`;
* `StandbyAlwaysFits`: `Spec => []StandbyFits`.

`StandbyFits` is not inductive: it says nothing of deltas and seeds on their way.
The strengthening `IndInv` relates every token to the disk it was minted for
(`content`): the bitmap covers what changed since the newest token
(`BitmapCovers`), the outstanding delta leads from the chain's state to its own
(`DeltaLeads`), every upload leads from its `prev` to its `next` or is a whole
image (`UploadsFit`), and a copy with token `t` agrees with `content[t]` wherever
the primary's disk still does (`CopiesFit`). The last form is the point of the
argument: a seed of a running VM is not the state of its token, it may hold later
writes, and a torn apply may hold half of a delta; both differ from the token's
state only in blocks that the primary has rewritten since, which are therefore
still to be sent. `Growing` (versions only grow along tokens) makes "rewritten"
permanent, `RoundShape` and `MintedTokens` are bookkeeping, `OnlyHome` says that an
epoch has one primary. Each lemma takes one group of actions; the two theorems
combine them with PTL.

`SecretRotationProofs` proves for every set of nodes and every number of rotations
(`StartAssumption`: the first secret is the default or not, the bound is a number):

* `RotationTypeCorrect`: `Spec => []TypeOK`, with any number of coordinators;
* `SuccessfulRotationIsTotal`, `FailedPeerNeverHalfRotates` and
  `CredentialsFollowTheSecret`: `Spec => []SuccessIsTotal`, `[]NotHalfRotated` and
  `[]VaultFollows`, under `Concurrent = FALSE`.

`SuccessInv` says that there is one coordinator (`Single`), that its books are
complete (`Books`: every peer is still to visit, has acknowledged or has failed; it
signs with its own file's secret until it commits), and that an acknowledged commit
is on the peer's disk (`Committed`). `HalfInv` adds what the rollback rests on as long as
only one peer has failed: every node was started with the secret the coordinator
signs with and so accepts it, whatever it has committed; a peer that has
committed has that secret as its newest backup; and a rollback under way
has that one failure behind it, so that none of its own requests is lost.
`SealedInv` is the same for the credentials: while all requests succeed, no
rotation is taken back, and every node but a coordinator between its rename and its
re-keying has them sealed under what is on its disk.

`McpOAuthProofs` proves for all clients, users, grants, requests, lifetimes and
bounds (`NamesAssumption`, `BoundsAssumption`, `TimesAssumption`):

* `TypeCorrect`, `IndexesCorrect`, `RestartCorrect`: `Spec => []TypeOK`,
  `[]IndexesAgree` and `[]RestartIsInvisible`;
* `Refinement`: `Spec => ImplementsLedger`, the specification of `GrantLedger`.

The inductive invariant is `TypeOK`, `StoreInv` (the indexes say what the grants say,
tokens are of one grant each and were minted, and the file backs memory: `Backed`) and
`Named` (a grant or client in the store has a name that was given away, so that a
fresh one is new). `StoreInv` is stated for a store and a file rather than for the
variables, so that the lemmas about `Prune`, `RemoveGrants`, `Rotation` and `Commit`
can be cited for the copies an action makes. The refinement needs it too: that an
ended grant does not come back is `Backed` at a restart.

* `OneGrantCorrect`: `Spec => []OneGrantPerApproval`.

`ApprovalInv` is about where an approval is: pending, in the code it was turned into, in
the request that exchanges that code, or spent on a grant, and never in two of these,
which is what taking it out under the lock is for. It needs nothing of the
file, because neither approvals nor codes are written to it.

`AgentRegistryProofs` proves for any number of nodes, operators and bounds
(`RegistryAssumption`):

* `RegistryTypeCorrect`: `Spec => []TypeOK`;
* `NeverItsOwnPeer`, `TombstonesBarGossip`: `Spec => SelfUnlisted` and
  `Spec => TombstonesBar`, two action properties.

`RegistryInv` says what every list of records looks like, and a report is no more than a
list somebody keeps: ids have been handed out, a node's own id is not in its list, and a
record under the own id of a node is of that node; the copy a poll under way began with
is such a record too. The last is why `SelfUnlisted` holds although a node does not
recognise its own DNS name: a record of it that comes from elsewhere is dropped by
address, by global id or by id. `TombstonesBar` needs nothing of what lists and
tombstones have to do with each other, for the code keeps no such thing: it is a
statement about each step that puts a record on a list, and `Screened` is what a poll and
a push let through.

`WolfRunGossipProofs` proves for any number of nodes and of requests at a time
(`NodesAssumption`, `TombAssumption`, `BoundsAssumption`):

* `GossipTypeCorrect`, `OnlyDeletedEverBuried`: `Spec => []TypeOK` and
  `[]OnlyDeletedBuried`.

A deletion is an answer, a request and a task before it is a tombstone; `GossipInv` follows
the id through all of them, and the lists through the copies under way, since only what is
listed can be deleted and only what was created is ever listed.

`WolfRunReconcileProofs` proves for any number of nodes, names, replicas and faults
(`ReconcileAssumption`; the names are a finite set of numbers, so that a least free one
exists):

* `ReconcileTypeCorrect`, `BooksAlwaysLocate`: `Spec => []TypeOK` and `[]BooksLocate`.

The books are copied by passes that write them back minutes later, are sent to other nodes,
and name a container after it was created or, for a standby, before. `OnePlace` therefore
speaks of everybody who takes a container to be somewhere (the world, all books, all
copies, all creations under way) and says that no two disagree. It is inductive because a
name is new when it is given, and because nothing ever moves an instance: `check_failover`
turns the standby itself into the active instance and leaves the old one behind.

`WolfHaFailoverProofs` proves for any set of nodes, succession order and times
(`OrderAssumption`: every node but the home node is in the order, once;
`NamesAssumption`; `TimeAssumption`):

* `FailoverTypeCorrect`: `Spec => []TypeOK`, whatever `Env` is;
* `StandbysStayIdle`: `Spec => []StandbyIdle`, whatever `Env` is.

For the second, `Undisturbed` says that without a promotion nobody hands over and that
a node which has decided to start is a primary. It is inductive because a pass and the
boot guard do one thing at a time, and because the acts that make a standby of a node
stop its container first: a `demote_local` that cannot stop it changes nothing.

`ListFacts` has what the proofs need of `Min` and of `RemoveFirst`.

Only model-checked:

* all liveness, which is out of the prover's reach;
* `IncumbentStopsFirst`, which is about time: it rests on the fence clock of one node
  running out before the promotion clock of another, in passes of bounded length. That
  the container never runs twice is not proved because it does not hold (see the
  finding and the known limits).

## 5. Left out of the modelled parts

* Failover: the entry stays enabled with `auto_failover`, a witness and
  `autostart_managed`; the subject starts when told to; the freshness gate (half
  an hour) always passes, and no event is as long as that; node aliases (`dedupe_replicas`, `peer_is_local`) are
  one node each. `HaStore` changes are atomic, though the code loads and saves
  without a lock.
* Rotation: the one-shot pushes of `api/mod.rs` (4594-5010, 20978-21110), which
  write the secret without preflight or rollback; a request that a peer carries out
  after the coordinator has gone on; changes of the peer list; the request
  signature beside the secret; the recorded-peer gate of the default secret.
* Replication: a torn seed over a copy that has an entry only while the primary still
  waits for it (a late one can put an old image under a newer token, a hazard listed without a property);
  a standby serves one upload at a time; enabling, disabling, dropping and handover
  of a VM.
* OAuth: scopes, redirect addresses, PKCE and the pool limits other than
  `MAX_CLIENTS`, which only decide whether a request is refused (`Refuse`); the tools
  behind the endpoint, sessions of the MCP transport. A call that was admitted before
  its grant ended is served; the ledger promises nothing else.
* WolfRun: LXC (the clone path), deletion during a pass, load-balancer rules,
  placement constraints, `wolfrun_reconcile` and `wolfrun_service_action`,
  migration.
* Registry: cluster names, roles, sites, keys, WolfNet routes, Proxmox entries;
  users and auth of the control-plane bundle; join tokens; `cluster_leave`, which
  broadcasts the removal of its own id although peers may list it under another one.
  A record that is new or read from the file may or may not count as online.

The share of the repository's lines that is mapped is small, and will stay so: nearly
all of it drives external programs. What has no protocol state is listed in
`PROJECT.json` with the reason.

## 6. Plan

1. `WolfHaVmHandoff`: epochs of `WolfHaVmChain` joined by `wolfha_demote`'s
   freeze, final delta and promotion, over several primaries; an abstract
   specification of a replicated disk that the chain implements.
2. `SecretRotation`: the one-shot pushes and requests that are carried out late; that
   any two nodes keep accepting each other while they are restarted one by one.
3. `HaStore` with load and save as separate steps under the three writers.
4. Cluster join; deadman; `cluster_leave` and cluster names in `AgentRegistry`.
5. `manifest_diff` and the rolling delta as operators against a reference
   definition.
6. Proofs: `IncumbentStopsFirst` under one partition, from the timing contract, for every
   `FailoverAfter`, `Fence` and `PassTicks`; the refinement of 1.
