# midwimble: verification of the node

These modules model the program of this repository where it is hard to test: an event loop
(`src/node.rs`) that acts on what tasks found out some time ago, a chain that moves under them, a
finalized floor that several writers record, a download that goes on while peers answer late,
short, wrongly or not at all, a database whose tables are changed block by block and taken back
by undo records, and the pools, producers, miners and wallets that hang on the chain. TLC checks
the models on small instances; TLAPS proves the results that matter most for every instance.

Every definition is translated from the source. `PROJECT.json` maps it to its lines, and lists
the runs, the mutants that show each property can fail, the hazards, the findings and the
theorems. Paths below are relative to `src/` of the repository unless they start with `docs/`
or `tests/`.

| Module | What it is | Theorems in |
|---|---|---|
| `BlockTree` | blocks as a tree: parent, height, claimed weight; a chain is a path from genesis | |
| `HeaviestChain` | abstract: what following the chain promises | |
| `ChainNode` | how blocks are taken, checked by tasks and adopted; implements `HeaviestChain` | `ChainNodeProofs` |
| `FinalityFloor` | checkpoints, the floor, the undo window, pruning, restarts | `NodePartsProofs` |
| `HeaderSync` | a sync session up to its headers outweighing our chain | `SyncProofs` |
| `BlockSync` | a sync session's block phase | `SyncProofs` |
| `Bonds` | bonds: who may sign, what a block counts for | `ChainStoreProofs` |
| `Relay` | the window of midstate headers the blocks carry | `ChainStoreProofs` |
| `ChainState` | what a block does to the state (`apply_batch`) | `ChainStoreProofs` |
| `ReplayedChain` | abstract: what the chain store promises | |
| `ChainStore` | tables, undo records, derived states; implements `ReplayedChain` | `ChainStoreProofs` |
| `Template`, `Producer` | the block a producer builds, on the tip or past a run of light blocks | `ChainStoreProofs` |
| `TxPool` | transaction pool, stem pool, reorganisation cache | `TxPoolProofs` |
| `PoolServer`, `PoolWindow` | the mining pool: share log, jobs, restarts; windows and payouts | `PoolServerProofs` (the first) |
| `Wallet` | the command-line wallet against a node that moves | `WalletProofs` |
| `Peers` | connections, subnets, dials, the address book, bans | `NodePartsProofs` |
| `FiniteFacts` | facts about least elements, finite sets and recursive functions | itself |
| `MC...` | the instances TLC checks | |

## 1. The system

A node is one event loop (`Node::run`, node.rs:883) that owns nearly all state. It `select!`s
over network events, commands of the RPC server and the miner, a tick, and one channel of
internal messages, by which tasks off the loop (`spawn_blocking`: validation of blocks and
transactions, header chains, deriving old states, pruning) report. A handler runs to its end
before another starts; between the start of a task and its report anything may happen. The chain
store is a redb database: one transaction is atomic, two are not. The mining pool and the wallet
are programs of their own that talk to a node.

| Component | State | Operations | What is hard | What makes it correct | Module |
|---|---|---|---|---|---|
| Following the chain (node.rs "Blocks") | tip state, `recent_blocks`, `orphan_pool`, `orphan_checking`, `block_validation`, `block_queue`, `fork_checking`, `block_replies` | `handle_new_batch`, `submit_block`, `on_block_validated`, `accept_block`, `on_orphan_checked`, `check_fork_block`, `on_fork_block_checked`, `adopt_chain` | a verdict is about the tip of then; the tip, the floor and the session may have changed | only heavier sound chains; nothing below the floor moves; no block is checked twice; nothing stays queued; no honest peer is banned; miners hear | `ChainNode` |
| Sync, header phase (node.rs, sync.rs) | `HeaderSync`, sync-header table, `SyncRecord`, claims, strikes | `start_sync`, `resume_point`, `examine_headers`, `on_headers_verified`, the session's end | the fork is found on a chain that goes on moving; headers outlive a restart; a liar | a heavier chain is followed; strikes hit only those who earn them; one verified chain is on disk | `HeaderSync` |
| Sync, block phase (node.rs, sync.rs) | `BlockSync`: cursor, buffer, requests in flight, retry queue, excluded peers | `schedule_batch_requests`, `on_batches`, `try_apply_next`, `on_batches_applied`, `on_fork_state`, `maybe_finish_sync`, `check_sync_timeouts`, `peer_unavailable` | short, late, useless, bad and overlapping answers; memory limit; headers dropped while needed | no range is lost; the buffer is counted and bounded; the session ends; its honest peer is not banned | `BlockSync` |
| Finalized floor (finality.rs, storage.rs) | tracker, persisted `FinalityInfo`, undo records, bodies | `insert_verified`, `evict`, `refresh`, `set_finality`, `prune_bodies_below`, `new` | two writers of one record, a stale copy, restarts, storing that fails | a finalized checkpoint stays; bodies and undo records above it are there | `FinalityFloor` |
| Block validity (core/state.rs, core/bond.rs, core/relay.rs) | unspent outputs, kernels, bonds, relay, fork-choice windows | `apply_batch`, `register`, `credit_in_window`, `cap_work`, `extend`, `apply_change`, `revert_change` | a window kept incrementally and rebuilt; a run that forks the relay and revokes bonds | what a block counts for depends on its chain alone; every bond is proven | `ChainState`, `Bonds`, `Relay` |
| Chain store (storage.rs) | tables of headers, undo, outputs, groups, kernels, bonds, relay | `commit_chain`, `state_at`, `load_state` | undo across many tables; a state derived by undoing | the state is the replay of the chain; a commit never fails its own checks | `ChainStore` |
| Block production (core/template.rs, core/orphan.rs, node.rs) | template, orphaning run | `build_template_relayed`, `select_transactions`, `refresh_mining`, `orphan_template` | a template that its own validation would refuse; a run that may not be worth outweighing | every template applies; only slivers are orphaned | `Template`, `Producer` |
| Mempool, Dandelion++ (mempool.rs, node.rs) | pool, stem pool, reorg cache, seen set | `add`, evict, stem, fluff, re-offer after a reorganisation | a step that fails after another was taken; blocks replaced | the pool applies; a stem transaction spreads; a replaced one comes back | `TxPool` |
| Mining pool (pool.rs) | share log in memory and on disk, jobs, frozen windows | `job_loop`, credit, prune, load, audit | pruning that races crediting; the window of a job against the tip | every share once, with its proof; miners find what they check; the job follows the tip | `PoolServer`, `PoolWindow` |
| Wallet (wallet/mod.rs, bin/main.rs) | the file: coins, scanned heights, payments | `sync`, `scan_block`, `rollback_to`, `step_back`, `send`, `cancel`, `rescan`, `restore_from_unspent` | the node's chain moves between two requests; the node prunes | coins are the chain's; a waiting payment holds its coins | `Wallet` |
| Peers (network/, node.rs) | connections, slots per subnet, address book, bans | connect, disconnect, dial, identify, ban, save, load | several connections of a peer; refused ones still closing | limits are kept; the operator's peers are dialled | `Peers` |

**How they interact.** Blocks from peers and miners enter *following the chain*. A block that does
not fit asks its sender for its state, which may start a *sync session*; while that session
downloads blocks it owns the chain (`chain_syncing`) and every other handler drops or postpones
its block. Both write through `commit_chain`, which alone enforces the persisted *floor*. The poll
tick and every new tip run `refresh_floor`, which may raise it whatever else is going on, and
spawns pruning. Headers of a session live in the sync-header table, which `commit_chain` trims
below each new tip. A new tip confirms and gives back transactions of the *mempool* and makes a
new *template*, which the *mining pool* and the miners fetch; what they find comes back as a block.

In the models the interaction is where the components meet in one module (`ChainNode` holds the
session as what it commits and the floor as what it forbids; `FinalityFloor` holds commits;
`HeaderSync` holds the chain that moves; `Producer` extends `ChainStore` and `Template`), through
the refinements (`ChainNode` and `ChainStore` implement the same idea of a chain that only gives
way to a heavier one), and in the order of what starts what: a session of `HeaderSync` ends where
`BlockSync` begins.

**Not modelled**, with the reason in `PROJECT.json`: transactions and cryptography, one-time
signature trees, the Merkle mountain range, snapshots and bootstrap, the wire protocol and light
clients, merged mining, RPC, explorer and command line, the proof-of-work search, the web wallet.
They are data a model checker cannot reach, I/O without state that outlives a request, or later
work. Within the modelled parts the wording of errors, logging, metrics, encodings, sizes in bytes
(but for the buffer) and wall-clock time are left out: a block is early or not, and a timeout may
fire whenever the code allows it.

## 2. How the modules correspond to the code

**BlockTree, HeaviestChain.** A block's hash commits to its history, so a block *is* its history
and a chain is a path in the tree. `Weight` is the header's claimed chain weight;
`BlockTreeAssumption` asks only for heights that fit, because a block may claim any weight until
it is checked. `HeaviestChain` has two actions: `Adopt` moves to a heavier chain of sound blocks
that agrees with the old one below the floor, `Finalize` raises the floor.

**ChainNode.** One variable per field of `Node` the handlers use, plus two that say where the loop
is: `work` holds the calls to `handle_new_batch` the running handler has still to make, `draining`
that the loop over `block_queue` is on. While either is on, no other handler runs (`Running`).
`forkChecks` are the tasks of `check_fork_block` with what each has read: the state after the
parent is derived in one transaction (`DeriveState`), the fork-choice windows and timestamps in
later ones (`ReadWindows`, node.rs:602). `TornReads` says whether a reorganisation may fall between
them. A block has a verdict (`PowOk`, `TargetOk`, `BodyOk`); one in `Early` may also be found ahead of
the clock, which bans nobody. A session that owns the chain is what it commits. `waiting` holds the
answers owed to miners. A restart forgets everything but the chain, the floor and the bans.

**FinalityFloor.** `fin` is the persisted record; `records`, `finalized`, `floor`, `tip` the tracker.
`refresh_floor` is two steps of the loop (`RefreshFloor`; `RecordFloor` or `RecordFails`) with
nothing else of it between them; a pruning task is two steps (`PruneRead`, `PruneWrite`) with
anything between them, because `prune_bodies_below` reads the record in a transaction of its own.
`CommitBlock` is `commit_chain` for one block on a fork found earlier (`FindFork`). Fork choice is
open: any block of the tree may be committed. `Checkpoints` are the blocks some verified anchor
record covers. `settled` and `peak` are history variables.

**HeaderSync.** Claims of peers, the session that follows the heaviest, the steps back to a fork,
chunks of headers verified by a task, the table of verified headers and what a later session
resumes from, strikes and bans, our own chain moving meanwhile, restarts. Blocks arrive at once
here. Which chain a block is the end of (`ChainOf`) is a constant.

**BlockSync.** One session of a peer that serves its chain, with helpers that may not. Heights
count from the fork, a block weighs one byte. `schedule_batch_requests` loops: `loop` says it is on
and whether `maybe_finish_sync` follows, and each `Ask` is one turn of it. `applying` is the chunk
in `try_apply_next`'s task, with where it will stop. `kept` is the height below which `commit_chain`
has trimmed the sync headers answers are held to. A late answer to an expired request is no step,
unless that peer has been asked for that start again, and then it is that request's answer.
`Bodies`, `Cuts` and `Failures` switch three kinds of trouble: helpers with an invalid body, answers
cut short by the size limit, and expiry, departures and failing storage.

**Bonds, Relay, ChainState.** Operators, not a state machine: `ApplyBatch(s, b, times)` judges a
block and gives the state after it with the diffs of its undo record. A bond set is a set of
entries; the fork-choice windows (`caps`, `work`) are kept block by block as the code keeps them.
A relay is a set of entries at consecutive heights; a run extends it or forks it, and what it
adds, removes and revokes goes to the undo record. Headers of midstate, targets and rewards are
constants; proofs, signatures and amounts are data.

**ChainStore.** `tables` holds one field per table, `tip` is the state in memory, `refused` says that
`commit_chain` found its replay to differ from the state it was given. `AcceptBlock` is `adopt_block`,
`AdoptChain` is `adopt_chain` with the state below derived by `StateAt`; `Restart` derives `tip` from
the tables, which is a stuttering step exactly when they hold what they should.

**Template, Producer.** What `build_template_relayed` selects from a pool of transactions, a feed of midstate
headers and a producer's bonds; `Producer` puts it on the store's tip, or past a run of other
producers' blocks. Judged by `ApplyBatch`, as a node would.

**TxPool.** The pool's maps, the cache for reorganisations, the stem pool and validation
tasks, while blocks confirm, conflict with and give back transactions. A transaction is a set of
kernels with what they spend, create, pay, weigh and wait for; `WellBuilt` is what
`validate_structure` asks of it, `Applies` what `apply_body` asks of the chain.

**PoolServer, PoolWindow.** Crediting a share writes the disk and the log under the log's lock;
pruning takes the lock for the log only and writes the disk later. A job pays one window and
freezes the next. `PoolWindow` are the operators: windows, their trees, spot checks, payouts.

**Wallet.** One command at a time, as the steps between its requests to the node, whose chain
reorganises and prunes in between; a crash may fall between two steps.

**Peers.** The transport's connections, several with a peer, against the one the node counts; the
slots per subnet; dials of pinned and known addresses; bans with their escalation; restarts.

**MC modules.** Components share no state in the models but where a module composes them, so
several are checked in one run: a behaviour works on one of them, its `part` (`MCPart`), and leaves
the others as they start. `MCSessions` holds `MCHeaders`, `MCMoreSync`, `MCTxPool` and `MCMiningPool`;
`MCNode` holds `MCChainNode`, `MCWallet` and `MCPeers`; `MCChainStore` extends `Producer`. The constant
`Checked` says which parts a run takes.

## 3. The runs

| Run | Question | Instance | Distinct states |
|---|---|---|---|
| `NodeFollows` | does the node implement `HeaviestChain` while a session, checks, the floor, storage errors and restarts interleave? are the queue, the orphan pool and the bans right? In parts of their own: is the wallet right about its coins, are the limits on peers kept? | a line of three blocks and two rivals, one that outweighs it with fewer; invalid, early and workless blocks; a wallet of two coins; a foreign peer of two subnets | 927,852 |
| `MinersHear` | does a miner hear of its block, are orphans handled with their parent, is a pinned peer dialled until it is connected? (fairness) | 4 blocks, 2 of them mined, one invalid, torn reads allowed; two peers of one subnet | 4,101 |
| `FloorKept` | without pruning, is a finalized checkpoint ever lost, the undo window broken, a qualifying checkpoint never recorded? | two branches of 5 and 3 blocks, checkpoints on both, 2 records, 2 retained, 2 restarts, storage that fails | 92,288 |
| `Sessions` | parts `fetch`, `refetch`: is a range ever lost, the buffer miscounted or unbounded, the honest peer banned? `headers`: an honest peer blamed, the table of headers not one chain, fetching stuck? `prune`: a body missing above the floor? `pool`: the transaction pool not applicable, a replaced transaction not given back? `jobs`, `moves`, `window`: a share lost, doubled or without proof, a miner that would leave? | 10 heights in chunks of 2, 3 in flight, a buffer of 3; 9 heights and two helpers with invalid bodies; a peer's line and two liars' blocks; three kernels; two miners, two tips, windows of up to 4 shares | 865,738 |
| `Settles` | does a heavier chain get followed in spite of a liar, a stem transaction spread, a session end, the pool's job follow the tip? (fairness) | smaller instances of the same | 4,498 |
| `Services` | are tables, undo records and derived states the replay of the chain; is every block weighed by the rule; does every template apply? | chains of up to 6 blocks; midstate's chain of 4 headers with a heavier rival of 3; two bonds; an undo window of 3 | 457 |
| `FloorPrunedRace` | the question of `FloorKept` with pruning on: **violated** | | |
| `NodeTorn` | are honest peers safe if a fork check's reads are torn: **violated** | | |
| `BlocksWedged` | does a session end with a buffer below the lookahead: **violated** | | |
| `PeerBlamed` | is an honest peer safe when a session resumes from stored headers: **violated** | | |
| `PoolBricked` | does the pool start again after crediting raced pruning: **violated** | | |
| `PaymentLost` | is a payment called failed one that can no longer confirm: **violated** | | |

**The properties.** Each is stated beside its module with the code it is about.
- `ChainNode`: `Implements` is fork choice as a whole; `SessionOwnsChain` that only a session moves the
  chain it works on; `OnePlace` that a second copy of a block costs no second check and that the
  orphan pool's halves agree within its limits; `QueueServed` and `NoOrphanOnTip` that nothing is left
  where no event would look at it again; `HonestNotBanned` that a ban was earned; `MinersHear` that
  a reply comes.
- `FinalityFloor`: `SettledStays`, `UndoWindow`, `BodiesAboveFloor`, `QualifiedIsRecorded` are the promises
  of docs/PRUNING.md and of the comments in storage.rs.
- Sync: `NothingLost` relates cursor, buffer, requests and retry queue; `BufferKept` the byte counter
  kept by hand on five paths; `SessionEnds` is the session's purpose; `HonestNotBlamed`, `FetchesAhead`,
  `SessionOnChain` and `CatchesUp` are the header phase's.
- Store: `KeepsPromise` is the refinement of `ReplayedChain`; `NeverRefused`, `UndoneIsReplayed`,
  `BondsProven`, `GroupsHoldUnspent`, `WeighedByTheBook`.
- Production: `TemplatesApply`, `PoolNeverStopsMining`, `OrphansOnlySlivers`.
- Transactions: `PoolSound`, `CacheOnChain`, `ReorgReturns`, `StemSpreads`.
- Mining pool: `SharesKept`, `WindowsHold`, `JobFollowsTip`. Wallet: `WalletFollows`, `WaitingHoldsCoins`.
  Peers: `DoorsKept`, `PinnedConnected` (`PinnedReached` of its part).

**Bounds, and why they are enough.** Limits of the code (`ORPHAN_LIMIT`, `MAX_FORK_CHECKS`,
`MAX_PENDING_BLOCKS`, requests in flight, pool and cache sizes, ...) are constants set to 1, 2 or 3,
so each is reached and passed: a real limit of 256 is only further away. Trees are small but hold
what the code distinguishes: a block on the tip, off it, on a known parent below it, on an unknown
one, a fork that outweighs with fewer blocks, a fork below the floor, invalid blocks of every
kind. `FinalityDepth` and `UndoKeep` are 1 to 3 so that a checkpoint becomes final, and an undo
record is dropped, within the tree. A session of 10 heights in chunks of 2 has ranges before, at
and behind the cursor, more than fit in flight, and headers still arriving. The wallet's windows
are 2 (`REORG_WINDOW`), 1 (11 in the code), 3 (pages of 64) and 2 rounds (3), with one transaction per
block and two payments. The mining pool's `RecentJobs` (16) outlast a verification, its miners are at most
`Lag` jobs behind (the notifier holds 32), and `KeepWindows` protects the windows under audit.
What is capped by the model alone: `MaxSent`, `MaxRestarts`, `MaxBlocks`, `MaxCommands`, `MaxMoves`,
`MaxHeight`, `MaxRollbacks`.

**What the passing runs leave out, and which run has it.** `FloorKept` does not prune
(`FloorPrunedRace`); `NodeFollows` has no torn reads (`NodeTorn`); `MinersHear` has no sessions, since
a session that starts drops queued blocks without an answer (node.rs:1577), and excuses a miner's
block that a peer relays too, which may be dropped as known (node.rs:1581) and then held as an
orphan; `Settles` has a buffer above the lookahead (`BlocksWedged`); `Sessions` does not let a
session resume from another chain's headers (`PeerBlamed`) and does not credit while the disk is
pruned (`PoolBricked`, `Raced`). The wallet's part excludes, by `Meets`, what it is known not to
survive (section 5).

**Deadlock** is checked in `NodeFollows`, `MinersHear`, `NodeTorn`, `BlocksWedged` and `PaymentLost`; where the
tree of blocks, the heights or the session come to an end, the cfg says so and does not check it.

**Fairness.** Handlers run on: weak fairness on the steps inside one. A task's report waits in a
channel while other messages are taken; `tokio::select!` picks among ready branches at random and
the channel is first in, first out, so each report is taken in the end although it is not
continuously the next: strong fairness on reports. What the poll tick runs for ever
(`refresh_floor`, dials, time limits) has weak fairness. `SessionEnds` and `CatchesUp` assume besides that
honest peers answer: strong fairness on answers and headers. `StemSpreads` assumes that the stem
pool's flush, which the tick runs, comes to each transaction in the end. `JobFollowsTip` assumes weak fairness of polling, pruning and publishing, strong fairness of
building a template. `PinnedConnected` assumes weak
fairness of the poll, the tick and connections closing, and that a dial ends, reached or denied
(strong). Nothing is assumed of miners, of peers' blocks, of forks or restarts.

## 4. What is proved

tlapm checks the proofs for every value of the constants that satisfies the named assumptions
(`BlockTreeAssumption`, `FinalityAssumption`, `ChainNodeAssumption`, `BlockSyncAssumption`,
`HeaderSyncAssumption`, `StoreAssumption`, `ProducerAssumption`, `TxPoolAssumption`, `PeersAssumption`,
`PoolServerAssumption`, `WalletAssumption`), which ask for numbers where the code has numbers, and limits above zero where it
has them. TLC evaluates those a cfg can give values to on each run's instance.

### Following the chain: `ChainNodeProofs`
- `TypeCorrect`, `SessionOwns` (`SessionOwnsChain`): from `Inv`, which is `TypeOK`, `Linked` (the chain is a path
  from genesis) and `SessionLinked` (what a session has staged continues its base, is sound and is
  heavier). Types alone are not inductive: that the chain after `SessionCommits` is a sequence of
  blocks at the right heights rests on what was staged.
- `Follows` (`Implements`): if reads are not torn, the node implements `HeaviestChain`, step by step with
  the identity on `chain` and `floor`. The invariant adds `Whole` (no check has seen two branches) and
  `Grounded` (blocks on the chain are sound, the floor is not above the tip).
- `QueueIsServed` (`QueueServed`): inductive by itself, once the queue loop is a step of its own.
- `OnlyForBadBlocks` (`HonestNotBanned`): if reads are not torn; the invariant `Sourced` adds that whatever
  is queued, screened, validated or checked was sent by whom it is said to come from.
- `ChecksInOnePlace` (`OnePlace`): the invariant is `Once` (the places a block can be in hold it at most
  once), `Apart` (no two of them hold the same one) and `Kept` (the pool's order lists a parent
  once, and exactly while it has children).
- `NoOrphanLeft` (`NoOrphanOnTip`), assuming the node never runs a session. With sessions it is false:
  one that commits an orphan's parent does not look in the pool (node.rs:1962), and the step lemma
  shows that this commit is the only handler that can leave one.

### The floor: `NodePartsProofs`
- `TypeCorrect`; inductive as it stands.
- `FloorHolds`, `SettledHolds` (`SettledStays`), assuming no pruning; with it both are false
  (`FloorPrunedRace`). `FloorInv` adds what makes the floor work: the persisted floor is at most the
  tracker's, a refresh under way carries a floor above it and a checkpoint that is on the chain,
  and every settled checkpoint lies at or below it, on the chain.
- `UndoHolds` (`UndoWindow`), pruning or not.
- `BodiesHold`: with pruning, where the persisted record may go back to an older copy, a body is missing
  only below a height that was settled: every floor anyone acts on is one, or was.

### The headers of a session: `SyncProofs`
- `StaysOnChain` (`SessionOnChain`), `NeverIdle` (`FetchesAhead`): for any tree of blocks, peers, liars,
  forged headers and limits, with our own chain moving, other sessions before and restarts between.
- Neither half of `SessionOnChain` is inductive: it speaks of what is on disk, and what will be there
  next is still queued, or on its way from a peer that may lie. `HeaderInv` follows headers through a session.
  Before the first chunk (`Begun`) nothing is fetched or stored. Then what is being verified and queued are
  pieces of one chain, each starting where the one before ends, the last one ending with `last`
  (`Consecutive`): an answer is held to `last` when it comes and carries nothing else in. As long as no fork is
  found (`OnOurs`) all verified headers are our own chain's and none is stored. Once one is (`LeavesOurs`),
  the headers on disk are the verified chain's from the fork, or a height below it, to its end, and
  below the fork that chain and ours are the same.
- The parts about our own chain hold until it moves under the session or the peer reorganises, and are not
  given up for what is on disk: `OneRun` holds always. `HeaderInv` was checked by TLC on the instance
  of `Sessions` before it was proved.
- A block phase starts once the verified chain outweighs ours and goes on while more of it is verified. That
  it still outweighs ours then, and is adopted whole, needs that a verified header adds weight; were it
  not adopted, our chain would not be the one the rest of the headers leave.
- `HeaderSyncAssumption`: `ChainOf` is a block's path from genesis; a header that verifies weighs more than
  its parent (bond.rs:1438, "never zero, so a longer chain is always a heavier one"); genesis is
  neither forged nor unsound; limits that are numbers.

### The block phase of a session: `SyncProofs`
- `TypeCorrect`: whatever helpers serve, no cursor, chunk, request or range to retry lies above the
  verified headers. The invariant `TypeInv` is stronger than `TypeOK`, which is not inductive: that
  the next request stays below the verified headers needs every range to.
- `LosesNothing` (`NothingLost`), `CountsRight` (`BufferKept`), `HonestStays`: while helpers' blocks are
  valid. The invariant is `WholeInv`. What is being applied, buffered, on its way and queued to be
  asked for again are ranges with no block in common that cover exactly the heights from the cursor to
  `nextRequest` (`Tiled`): `NothingLost` alone says "cover", which is not inductive, because a range
  covered twice can be dropped by the map it is inserted into. `buffered` is the sum of the
  buffer's chunks, no chunk has an invalid block, and the headers kept start at or below the cursor, so an
  answer can always be held to them and its peer is never banned for lack of them.
- `StaysBounded`: the bytes counted stay below the bound plus what may be on the wire, whatever
  helpers serve: each request in flight has the room of a whole chunk kept for it (`Roomy`).

The byte count is a fold of the library; that it may be summed in any order is proved first, by
induction on the size of a set.

### The chain on disk: `ChainStoreProofs`
- `StorePromised` (`KeepsPromise`): the store implements `ReplayedChain`. `AlwaysStored` (`NeverRefused`):
  `commit_chain` never refuses what was applied. `UndoingReplays` (`UndoneIsReplayed`): `state_at` gives the
  state replaying gives. `BondsStayProven` (`BondsProven`), `GroupsStayUnspent` (`GroupsHoldUnspent`),
  `WeighedRight` (`WeighedByTheBook`).
- The invariant `StoreInv`: nothing was refused, the stored blocks apply one after another from
  genesis (`SoundChain`), the state in memory is their replay, the tables are what the blocks alone
  say they are (`Stored`, `Book`) but for fewer undo records, and those kept are no older than
  `UndoKeep`. TLC checked it on the instance of `Services` before it was proved.
- The argument. The windows kept block by block equal the windows rebuilt from the
  chain, the queue whose front is the least work included; a run leaves one chain of
  linked headers, undoing it gives back what was there, and a bond it does not revoke stays proven.
  Applying a block and taking it back are inverse for coins, groups, kernels,
  bonds and relay; every block of a sound chain weighs at least 1. That is put
  together for any number of blocks: replay, derive and stored tables agree.
- `StoreAssumption`: positive work, windows, caps and divisors, at most one registration per block (the
  code's limit), times that do not go back, runs that are sequences of headers.

### What is built on the chain: `ChainStoreProofs`, from `StoreInv`
- `TemplatesStand` (`TemplatesApply`): every template applies to the chain it is made for, on the tip or past
  an orphaned run, for any pool of transactions, feed of headers, bonds and targets. Selected fees
  and the reward are what the coinbase pays, since sums over sets and the split over payouts add up;
  the run a template carries is one the relay takes; its registration is of a bond the run does not
  revoke; its signer is one `apply_batch` lets sign; its weight stays in the block limit. Then the
  template's effects are those of `apply_batch`, conjunct by conjunct.
- `OrphansAreSlivers` (`OrphansOnlySlivers`), assuming `SteadyWork`, which orphan.rs:60-65 takes for granted: work
  does not rise a thousandfold within the window, so that a block which counts for all it may
  is never taken for one over its signer's cap. Then only slivers are built past, never a bonded block.
- `ProducerAssumption`: besides `StoreAssumption`, a median over at least one block, natural depths and
  delays, transactions the mempool took for well formed, payout weights that are not all zero, and a
  producer whose bonds are a sequence with at most one to register, with the linked run its file was checked
  to carry; headers of the feed were verified to link before they are offered.

### The mining pool: `PoolServerProofs`
- `SharesStay` (`PoolServer!SharesKept`, of which the `SharesKept` of `MCMiningPool` is an instance), as long as no share is credited between the pruning of the log and that of the
  disk (`Raced = FALSE`; with it the pool may not start again, `PoolBricked`). Neither conjunct is inductive: that a
  share has its proof after a restart needs to know what the job loop may still write or delete. `PoolInv`
  adds that the disk holds the log in order and beside it only what is older (`LogInv`), that whoever
  owns a share on the disk is known there (`OwnerInv`), that the next job's id is of no share, proof or
  recent job (`JobInv`), that jobs which may still get a share have their proof (`ProofInv`), that what is about to be
  deleted is what the log has no use for (`PruneInv`), and that work of a recent job is reserved, in one share
  at most and not verified meanwhile (`WorkInv`). After a restart nothing is reserved; that work is not
  counted again rests on ids never being taken twice. TLC checked `PoolInv` before it was proved.
- `MinersStay` (`AuditsPass`, the part of `WindowsHold` that is `PoolServer`'s), besides for miners that audit
  each job before the next goes out (`Lag = 1`, as in the runs). `AuditInv` adds that what a miner was
  credited with is in the log or older than it (`MineInv`), that the windows published and those of the job being
  made hold shares of the log only and all that was credited between their ends (`WindowInv`), and that
  what a miner has seen last or has to audit is what is published (`ConnInv`). A window's start never
  falls below what pruning keeps, because pruning starts at the older of a job's two windows.

### The transaction pool: `TxPoolProofs`
- `PoolStaysSound` (`PoolSound`), `CacheStays` (`CacheOnChain`): whatever is submitted, relayed, fluffed,
  evicted, mined, replaced and given back. The invariant `Inv` is `PoolHolds` (the entries are
  transactions that aggregate, the maps of claims index exactly them, each applies to the chain)
  and `CacheUpTo` (cached heights ascend, each transaction was mined at its height and is well
  built). `PoolApplies` is not inductive without the maps: `check` looks for conflicts in the maps only, so
  a claim lost from them would let a conflicting transaction in. `CacheOnChain` is not without the
  order: `take_from` reads the cache from the back and stops at the first height that stays.
- `ReorgsGiveBack` (`ReorgReturns`): the additions after `revalidate` are followed one by one, in
  whatever order the cache offers them. Each transaction taken from the cache is in the pool, does not
  apply to the new chain, or met another that is worth no less or claims what it claims.
- `TxPoolAssumption`: a finite supply of kernels, fees and weights that are numbers, a pool that holds at
  least one transaction of the largest weight.

### The doors: `NodePartsProofs`
- `DoorsStayKept` (`DoorsKept`): for any peers, addresses, subnets and limits. The invariant adds
  that slots of a subnet are at most `MaxPerSubnet` (the connected are counted through them), and that
  all connections of a peer that holds a slot are of that slot's subnet, unless it roamed: a slot is
  given back by the *last* connection, which need not be the one that took it. That no connection of
  a banned peer stays is needed when the ban ends, for the peer not to be left uncounted.

### The wallet: `WalletProofs`
- `WaitingStays` (`WaitingHoldsCoins`), with no assumption but natural parameters and an `Unset` that is
  no number: for any transactions of strangers, any window, page and step back, whatever the node's
  chain does and wherever a command fails. The invariant `WalletInv` says the same of the file and of the
  wallet a command works on (`Holds`): a coin has one record, a payment a number of its own, what is settled
  is settled by a block that was scanned, a coin is reserved for a payment that spends it, and
  `SpentIsSettled`: when a coin is spent, the payments that spend it are settled, by the same height at the
  latest. That last one carries the proof. `rollback_to` frees a coin whose spending it forgets and
  gives it to a payment it unsettles; were a payment settled later than its coin was spent, a rollback
  between the two would have it wait for a coin that stays spent, and a rollback below both would have to
  find it again among those that waited all along. Right after `scan_unspent` it does not hold: that marks
  coins spent at the tip whose payments spend another coin that is still there. `settle_orphans` makes up for it in
  the same sync, before anything is saved (`JustRestored`). TLC checked `WalletInv`, with every kind of
  reorganisation and rescan let in, before it was proved.
- A sync reads a request's blocks one after another (`Scanned`), so what scanning a block keeps is carried
  along the list by induction on its length.

### What stays with TLC
Liveness under fairness and anything with ENABLED: `QualifiedIsRecorded`, `MinersHear`, `PinnedConnected`,
`CatchesUp`, `StemSpreads`, `SessionEnds`, `JobFollowsTip`. Not proved yet: `HeaderSync`'s half
of `HonestNotBlamed`, which needs what `HeaderInv` does not say, which peer's chain the headers are of;
`PoolWindow`'s half of `WindowsHold`; and `WalletFollows`: it is about what the blocks say, and depends on how far below the recorded window the
chain is replaced. `PoolNeverStopsMining` is not a consequence for all constants:
`transaction_budget` keeps room for the feed's run, not for one the producer's own bonds carry, so a pool's
transactions may fill the block (it holds where runs are as short as in the instance). Of `BodiesAboveFloor` with pruning, `BodiesHold` is
the part that is proved. `NothingLost` with helpers that serve invalid blocks is checked on the
instance `refetch` and false when deliveries are cut short as well (section 5). The provers cannot use
the library's induction theorems; where induction over data is needed it is done on the least
element of a set of numbers (`FiniteFacts`).

## 5. What the models show of the code

Six disagreements between the code and what it says of itself, each a violation run and quoted in
`PROJECT.json`:

1. **The floor may be lost** (`FloorPrunedRace`, storage.rs:1401). A pruning task reads the record,
   `set_finality` stores a higher floor, the task writes its copy back.
2. **A torn read bans an honest peer** (`NodeTorn`, node.rs:611).
3. **A full buffer stops a session** (`BlocksWedged`, node.rs:2957): the range the cursor waits for is not
   asked for because the blocks behind it fill the buffer.
4. **A session resumed from another chain's headers bans its peer** (`PeerBlamed`, node.rs:2417).
5. **A pool that credits while it prunes may not start again** (`PoolBricked`, pool.rs:1866).
6. **A payment called failed may confirm** (`PaymentLost`, wallet/mod.rs:816).

Found by trying to prove it, and by TLC once the proof had shown where to look: with helpers that serve
invalid blocks *and* deliveries cut short, the range asked for again after an invalid block
(`on_batches_applied`) overlaps ranges in flight; `in_flight.insert` (node.rs:2991) then replaces a
longer request by a shorter one, whose blocks nothing asks for, and `buffer.insert` (node.rs:3069)
replaces a chunk whose bytes stay counted. `NothingLost` and `BufferKept` are violated by `BlockSync`
with `Bodies` and `Cuts` both on (one helper, 7 heights, chunks of 3). The theorems therefore
assume helpers with valid blocks; the session is saved by its timeout.

The transaction pool, found the same way: what the replaced blocks had mined is not given back
whenever it would fit. `add` evicts what pays less one by one before it knows that the new transaction
fits (mempool.rs:149-163); when it then says "mempool full" the evicted ones stay lost, although
neither the chain nor the pool stands against them. `ReorgReturns` says what does hold: whatever is
missing met a transaction that pays no less or claims the same.

Seen while modelling, and kept as hazards or notes rather than runs:
- a range asked for again after a helper's invalid block overlaps one in flight; storing the blocks
  drops the headers the session peer's late, honest answer is held to, and it is banned
  (node.rs:3279).
- after a restart only the newest finalized checkpoint is remembered (finality.rs:195), so the next
  refresh stores a `retain_from` above the other retained ones and their undo records go;
  docs/PRUNING.md:96 has them kept. A floor whose write failed is not written again until the next
  checkpoint or restart (node.rs:3534).
- a miner's block that a peer also relays may be dropped as known (node.rs:1581) and held as an orphan
  without an answer; a block queued when a session starts is dropped without one (node.rs:1577).
- our own chain moving in the header phase can make the peer's fork stale and ban it; `our_len - fork`
  (node.rs:2838) may be negative and wrap in a release build, which ends the session as too deep.
- a transaction mined again by the new branch after the cache gave it back is not recorded again, so
  a second reorganisation forgets it; gossip refused for being one too many is dropped after it
  was marked as seen.
- a registration's weight is just the room kept for it in a template; a producer whose own bond its feed
  revokes may refuse to mine although it could without relaying.
- the orphaning plan skipped because a derivation was running is not made again when that derivation
  fails (node.rs:3805).
- the pool's forced job is lost when a template fails (pool.rs:1773); work reserved by a connection that
  is cut off stays reserved, and a block in it is not submitted.
- a rescan after a restore from unspent coins may call spent coins unspent (wallet/mod.rs:62, :957), and a
  reorganisation of the last blocks right after a restore goes unnoticed; a failed payment put back
  to waiting may share a coin with a later one; `send` submits before it saves.
- a peer connected from two subnets leaves a slot of the first behind when its last connection is of the
  second; a peer whose refused connection is still closing when another opens is never counted; a
  pinned peer whose subnet is full is not dialled.

## 6. Plan

1. The theorem for `HonestNotBlamed` in the header phase: `HeaderInv` with whose headers they are.
2. A module `OrphanPlan` for when the orphaning plan is made and made again.
3. Snapshots and bootstrap, one-time leaves, the Merkle mountain range.
