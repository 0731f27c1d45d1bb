------------------------------ MODULE ChainNode ------------------------------
(***************************************************************************)
(* How a node follows the heaviest chain (node.rs, "Blocks"): blocks come  *)
(* from peers and from its miner, are checked by tasks off the event loop, *)
(* and are taken when the task reports, by when the tip may have moved, a  *)
(* sync session may have started, or the floor may have risen.             *)
(*                                                                         *)
(* The event loop is one actor; the checking tasks are others.  A handler  *)
(* that loops over handle_new_batch (the children of an accepted block,    *)
(* the queue behind a validation) is a run of steps during which nothing   *)
(* else of the event loop happens: `work' holds the calls it has yet to    *)
(* make, `draining' says the queue loop is on.                             *)
(*                                                                         *)
(* A sync session is here only in the phase that owns the chain            *)
(* (chain_syncing), and only as what it commits.                           *)
(***************************************************************************)
EXTENDS BlockTree

CONSTANTS
    PowOk,            \* blocks whose proof of work verifies
    TargetOk,         \* blocks that use the target their parent sets
    BodyOk,           \* blocks every other rule accepts on their parent
    Early,            \* blocks a slow clock may find too far in the future
    TooEasy,          \* blocks more than sixteen times easier than the tip's
    Mined,            \* blocks this node's miner, or one on its RPC, submits
    Peers, Own,       \* who a block came from: a peer, or None
    OrphanLimit,      \* ORPHAN_LIMIT (8)
    OrphansPerParent, \* ORPHANS_PER_PARENT (4)
    MaxPendingBlocks, \* MAX_PENDING_BLOCKS (16)
    MaxOrphanChecks,  \* MAX_ORPHAN_CHECKS (4)
    MaxForkChecks,    \* MAX_FORK_CHECKS (4)
    MaxOrphanDepth,   \* orphan::MAX_ORPHAN_DEPTH (100)
    MaxReorgDepth,    \* sync::MAX_REORG_DEPTH (1000)
    RecentLimit,      \* recent_blocks (256)
    FinalityDepth,    \* FinalityConfig::finality_depth (100)
    TornReads,        \* whether a reorganisation may fall between the reads
                      \* of derive_state_after
    Sessions,         \* whether sync sessions occur
    StorageFails,     \* whether commit_chain may fail (a full disk)
    MaxSent,          \* bound: distinct relays of a block by a peer
    NoBlock, NoSync

\* apply_batch accepts the block on its parent, the clock apart.
Sound == PowOk \cap TargetOk \cap BodyOk

\* A block's claimed weight is its parent's plus what it counts for, which is
\* never nothing (bond::sliver): apply_batch refuses any other claim.
ASSUME ChainNodeAssumption ==
    /\ PowOk \subseteq Blocks \ {Genesis}
    /\ TargetOk \subseteq Blocks /\ BodyOk \subseteq Blocks
    /\ Early \subseteq Blocks /\ TooEasy \subseteq Blocks
    /\ Mined \subseteq Blocks \ {Genesis}
    /\ Own \notin Peers /\ NoBlock \notin Blocks
    /\ {OrphanLimit, OrphansPerParent, MaxPendingBlocks, MaxOrphanChecks,
        MaxForkChecks, MaxOrphanDepth, MaxReorgDepth, RecentLimit,
        FinalityDepth, MaxSent} \subseteq Nat
    /\ OrphanLimit >= 2
    /\ {TornReads, Sessions, StorageFails} \subseteq BOOLEAN
    /\ \A b \in Sound : Weight[b] > Weight[Parent[b]]

VARIABLES
    chain,        \* HEADERS and Node::state: chain[h + 1] is at height h
    floor,        \* the persisted finalized floor
    recent,       \* recent_blocks
    orphans,      \* OrphanPool
    orphanChecks, \* orphan_checking, with the block and its sender
    validating,   \* block_validation: at most one task
    queue,        \* block_queue
    forkChecks,   \* fork_checking: each task and what it has read
    waiting,      \* block_replies: blocks a miner awaits the outcome of
    banned,
    sync,         \* the session that owns the chain, or NoSync
    work,         \* calls to handle_new_batch the running handler has left
    draining,     \* on_block_validated's loop over the queue is running
    sent          \* history: <<peer, block>> relays handled

vars == <<chain, floor, recent, orphans, orphanChecks, validating, queue,
          forkChecks, waiting, banned, sync, work, draining, sent>>

------------------------------------------------------------------------------
Item(b, from) == [blk |-> b, from |-> from]
Items == [blk : Blocks \ {Genesis}, from : Peers \cup {Own}]

\* A handler is still running: no message, report or tick is taken.
Running == work # <<>> \/ draining

\* chain_syncing: a session downloads blocks.
Syncing == sync # NoSync

BansAnyone(from) == banned \cup {from}
Banned(from) == banned \cup ({from} \ {Own})

\* What apply_batch may say of b on its parent: a timestamp ahead of the
\* clock is told apart, and depends on the clock.
VerdictsBlunt(b) == {IF b \in Sound \ Early THEN "ok" ELSE "bad"}
Verdicts(b) == {IF b \in Sound THEN "ok" ELSE "bad"}
               \cup (IF b \in Early THEN {"early"} ELSE {})

\* commit_chain refuses to rewrite a height below the floor; it may fail.
CommitsAnywhere(first) == TRUE
CommitAllowed(first) == first >= floor
CommitMayFail(first) == ~CommitAllowed(first) \/ StorageFails

Remember(blks) ==
    LET all == recent \o blks
    IN  recent' = SubSeq(all, IF Len(all) > RecentLimit
                              THEN Len(all) - RecentLimit + 1 ELSE 1, Len(all))

(* fork_parent: p is on the chain below the tip, at most MaxOrphanDepth below
   it, and a block on it would be at or above the floor. *)
ForkParent(p) ==
    /\ Among(p, chain) /\ p # Tip(chain)
    /\ Height[p] >= Len(chain) - 1 - MaxOrphanDepth
    /\ Height[p] >= floor - 1

------------------------------------------------------------------------------
\* OrphanPool: the children held for each parent, and the parents in the
\* order their first child came.
Pools == [byParent : [Blocks -> Seq(Blocks \ {Genesis})], order : Seq(Blocks)]

NoOrphans == [byParent |-> [p \in Blocks |-> <<>>], order |-> <<>>]

WithoutParents(pool, gone, order) ==
    [byParent |-> [p \in Blocks |-> IF p \in gone THEN <<>> ELSE pool.byParent[p]],
     order |-> order]

\* insert: past the limit the older half of the parents goes.
Evicted(pool) ==
    LET n == OrphanLimit \div 2
    IN  IF Len(pool.order) > OrphanLimit
        THEN WithoutParents(pool, {pool.order[i] : i \in 1..n},
                            SubSeq(pool.order, n + 1, Len(pool.order)))
        ELSE pool

Held(b, pool) ==
    LET list == pool.byParent[Parent[b]] IN
    IF Among(b, list) \/ Len(list) >= OrphansPerParent
    THEN pool
    ELSE Evicted([byParent |-> [pool.byParent EXCEPT ![Parent[b]] = Append(@, b)],
                  order |-> IF list = <<>> THEN Append(pool.order, Parent[b])
                                           ELSE pool.order])

\* take_children: the children are handled next, as nobody's.
TakeChildren(b) ==
    /\ work' = LET taken == orphans.byParent[b]
               IN  [i \in 1..Len(taken) |-> Item(taken[i], Own)]
    /\ \/ ~Among(b, orphans.order) /\ UNCHANGED orphans
       \/ \E i \in 1..Len(orphans.order) :
             /\ orphans.order[i] = b
             /\ orphans' = WithoutParents(orphans, {b},
                     SubSeq(orphans.order, 1, i - 1)
                         \o SubSeq(orphans.order, i + 1, Len(orphans.order)))

Init ==
    /\ chain = <<Genesis>> /\ floor = 0
    /\ recent = <<>> /\ orphans = NoOrphans /\ orphanChecks = {}
    /\ validating = NoBlock /\ queue = <<>> /\ forkChecks = {}
    /\ waiting = {} /\ banned = {} /\ sync = NoSync
    /\ work = <<>> /\ draining = FALSE /\ sent = {}

------------------------------------------------------------------------------
\* A block from a peer, and one from a miner waiting to hear of it.
Receive(p, b) ==
    /\ ~Running /\ p \notin banned
    /\ b \in Blocks \ {Genesis}
    /\ sent' = sent \cup {<<p, b>>} /\ Cardinality(sent') <= MaxSent
    /\ work' = <<Item(b, p)>>
    /\ UNCHANGED <<chain, floor, recent, orphans, orphanChecks, validating,
                   queue, forkChecks, waiting, banned, sync, draining>>

(* submit_block: one already on the chain, one while a session owns the chain
   and one on a parent it could not go on are answered at once. *)
Submit(b) ==
    /\ ~Running /\ ~Syncing
    /\ b \in Mined /\ b # Tip(chain) /\ ~Among(b, recent)
    /\ Parent[b] = Tip(chain) \/ ForkParent(Parent[b])
    /\ waiting' = waiting \cup {b}
    /\ work' = <<Item(b, Own)>>
    /\ UNCHANGED <<chain, floor, recent, orphans, orphanChecks, validating,
                   queue, forkChecks, banned, sync, draining, sent>>

\* The node's own miner found a block on what it was building on.
Mine(b) ==
    /\ ~Running /\ ~Syncing
    /\ b \in Mined
    /\ Parent[b] = Tip(chain) \/ ForkParent(Parent[b])
    /\ work' = <<Item(b, Own)>>
    /\ UNCHANGED <<chain, floor, recent, orphans, orphanChecks, validating,
                   queue, forkChecks, waiting, banned, sync, draining, sent>>

\* Already on the chain or being looked at.
KnownUnlessForking(b) ==
    \/ b = Tip(chain) \/ Among(b, recent)
    \/ validating # NoBlock /\ validating.blk = b
    \/ \E t \in orphanChecks : t.blk = b
    \/ \E i \in 1..Len(queue) : queue[i].blk = b

Known(b) ==
    \/ b = Tip(chain) \/ Among(b, recent)
    \/ validating # NoBlock /\ validating.blk = b
    \/ \E t \in orphanChecks : t.blk = b
    \/ \E t \in forkChecks : t.blk = b
    \/ \E i \in 1..Len(queue) : queue[i].blk = b

\* handle_new_batch, on the next block the running handler passes to it.
Handling(item) == work # <<>> /\ work' = Tail(work)

Ignore(item) ==
    /\ Handling(item)
    /\ Syncing \/ Known(item.blk)
    /\ UNCHANGED <<chain, floor, recent, orphans, orphanChecks, validating,
                   queue, forkChecks, waiting, banned, sync, draining, sent>>

Fresh(item) == Handling(item) /\ ~Syncing /\ ~Known(item.blk)

\* "node busy": too many blocks are being screened.
BusySilently(b) == waiting
AnsweredBusy(b) == waiting \ {b}

\* Not on the tip: screen its proof of work before holding it.
ScreenOrphan(item) ==
    /\ Fresh(item) /\ Parent[item.blk] # Tip(chain)
    /\ IF Cardinality(orphanChecks) >= MaxOrphanChecks
       THEN waiting' = AnsweredBusy(item.blk) /\ UNCHANGED orphanChecks
       ELSE orphanChecks' = orphanChecks \cup {item} /\ UNCHANGED waiting
    /\ UNCHANGED <<chain, floor, recent, orphans, validating, queue, forkChecks,
                   banned, sync, draining, sent>>

RefuseTarget(item) ==
    /\ Fresh(item) /\ Parent[item.blk] = Tip(chain) /\ item.blk \notin TargetOk
    /\ waiting' = waiting \ {item.blk}
    /\ UNCHANGED <<chain, floor, recent, orphans, orphanChecks, validating,
                   queue, forkChecks, banned, sync, draining, sent>>

\* On the tip: validated at once, or queued behind the one that is.
Validate(item) ==
    /\ Fresh(item) /\ Parent[item.blk] = Tip(chain) /\ item.blk \in TargetOk
    /\ IF validating = NoBlock
       THEN validating' = item /\ UNCHANGED <<queue, waiting>>
       ELSE /\ UNCHANGED validating
            /\ IF Len(queue) < MaxPendingBlocks
               THEN queue' = Append(queue, item) /\ UNCHANGED waiting
               ELSE waiting' = waiting \ {item.blk} /\ UNCHANGED queue
    /\ UNCHANGED <<chain, floor, recent, orphans, orphanChecks, forkChecks,
                   banned, sync, draining, sent>>

------------------------------------------------------------------------------
(* on_block_validated.  It ends with the loop over the queue, so every branch
   leaves `draining' on. *)
ValidationReported ==
    /\ ~Running /\ validating # NoBlock
    /\ validating' = NoBlock /\ draining' = TRUE

\* The tip the block was validated on is still the tip.
TipUnmoved(b) == Parent[b] = Tip(chain)

\* A session has started: the block is dropped.
ValidatedInSession ==
    /\ ValidationReported /\ Syncing
    /\ waiting' = waiting \ {validating.blk}
    /\ UNCHANGED <<chain, floor, recent, orphans, orphanChecks, queue,
                   forkChecks, banned, sync, work, sent>>

\* The tip moved during validation: the block starts over.
ValidatedTooLate ==
    /\ ValidationReported /\ ~Syncing
    /\ ~TipUnmoved(validating.blk)
    /\ waiting' = waiting \ {validating.blk}
    /\ work' = <<validating>>
    /\ UNCHANGED <<chain, floor, recent, orphans, orphanChecks, queue,
                   forkChecks, banned, sync, sent>>

ValidatedRefused ==
    /\ ValidationReported /\ ~Syncing /\ TipUnmoved(validating.blk)
    /\ \E verdict \in Verdicts(validating.blk) :
          /\ verdict # "ok"
          /\ banned' = IF verdict = "bad" THEN Banned(validating.from) ELSE banned
    /\ waiting' = waiting \ {validating.blk}
    /\ UNCHANGED <<chain, floor, recent, orphans, orphanChecks, queue,
                   forkChecks, sync, work, sent>>

\* accept_block, and the same when the block cannot be stored.
AcceptBlock ==
    /\ ValidationReported /\ ~Syncing /\ TipUnmoved(validating.blk)
    /\ "ok" \in Verdicts(validating.blk)
    /\ CommitAllowed(Len(chain))
    /\ chain' = Append(chain, validating.blk)
    /\ Remember(<<validating.blk>>)
    /\ TakeChildren(validating.blk)
    /\ waiting' = waiting \ {validating.blk}
    /\ UNCHANGED <<floor, orphanChecks, queue, forkChecks, banned, sync, sent>>

AcceptFails ==
    /\ ValidationReported /\ ~Syncing /\ TipUnmoved(validating.blk)
    /\ "ok" \in Verdicts(validating.blk)
    /\ CommitMayFail(Len(chain))
    /\ waiting' = waiting \ {validating.blk}
    /\ UNCHANGED <<chain, floor, recent, orphans, orphanChecks, queue,
                   forkChecks, banned, sync, work, sent>>

\* The loop over the queue goes on until a block is being validated.
DrainOnce == FALSE
DrainOn == TRUE

DrainQueue ==
    /\ draining /\ work = <<>>
    /\ validating = NoBlock /\ queue # <<>>
    /\ work' = <<Head(queue)>> /\ queue' = Tail(queue)
    /\ draining' = DrainOn
    /\ UNCHANGED <<chain, floor, recent, orphans, orphanChecks, validating,
                   forkChecks, waiting, banned, sync, sent>>

EndDrain ==
    /\ draining /\ work = <<>>
    /\ validating # NoBlock \/ queue = <<>>
    /\ draining' = FALSE
    /\ UNCHANGED <<chain, floor, recent, orphans, orphanChecks, validating,
                   queue, forkChecks, waiting, banned, sync, work, sent>>

------------------------------------------------------------------------------
\* on_orphan_checked
OrphanReported(t) ==
    /\ ~Running /\ t \in orphanChecks
    /\ orphanChecks' = orphanChecks \ {t}

\* Its parent became the tip while it was screened.
ParentNeverArrives(b) == FALSE
ParentArrived(b) == Parent[b] = Tip(chain)

OutweighsTip(b) == Weight[b] > Weight[Tip(chain)]

\* A block that replaces the tip by itself is checked on its parent's state.
Replaces(b) == ForkParent(Parent[b]) /\ OutweighsTip(b)

OrphanRefused(t) ==
    /\ OrphanReported(t)
    /\ \/ t.blk \notin PowOk /\ banned' = Banned(t.from)
       \/ t.blk \in PowOk /\ Syncing /\ UNCHANGED banned
       \/ /\ t.blk \in PowOk /\ ~Syncing /\ ~ParentArrived(t.blk)
          /\ ~Replaces(t.blk) /\ t.from = Own /\ UNCHANGED banned
    /\ waiting' = waiting \ {t.blk}
    /\ UNCHANGED <<chain, floor, recent, orphans, validating, queue, forkChecks,
                   sync, work, draining, sent>>

\* Its parent arrived in the meantime.
OrphanOnTip(t) ==
    /\ OrphanReported(t) /\ t.blk \in PowOk /\ ~Syncing /\ ParentArrived(t.blk)
    /\ work' = <<t>>
    /\ UNCHANGED <<chain, floor, recent, orphans, validating, queue, forkChecks,
                   waiting, banned, sync, draining, sent>>

\* Held until its parent comes; its sender is asked for its state.
HoldOrphan(t) ==
    /\ OrphanReported(t) /\ t.blk \in PowOk /\ ~Syncing /\ ~ParentArrived(t.blk)
    /\ ~Replaces(t.blk) /\ t.from # Own
    /\ orphans' = IF t.blk \in TooEasy THEN orphans ELSE Held(t.blk, orphans)
    /\ UNCHANGED <<chain, floor, recent, validating, queue, forkChecks, waiting,
                   banned, sync, work, draining, sent>>

\* check_fork_block.  The parent's state may be at hand, or is derived from
\* the tip of now (state_after, derive_state_after).
CheckForkBlock(t) ==
    /\ OrphanReported(t) /\ t.blk \in PowOk /\ ~Syncing /\ ~ParentArrived(t.blk)
    /\ Replaces(t.blk)
    /\ IF Cardinality(forkChecks) >= MaxForkChecks
       THEN waiting' = waiting \ {t.blk} /\ UNCHANGED forkChecks
       ELSE /\ \E view \in {"derive", "whole"} :
                  forkChecks' = forkChecks \cup
                      {[blk |-> t.blk, from |-> t.from, tip |-> Tip(chain), view |-> view]}
            /\ UNCHANGED waiting
    /\ UNCHANGED <<chain, floor, recent, orphans, validating, queue, banned,
                   sync, work, draining, sent>>

------------------------------------------------------------------------------
(* The fork check's task: state_at walks the undo records down from the tip it
   was given, in one transaction, and refuses if that block has left the
   chain ... *)
Sees(t, view) == forkChecks' = (forkChecks \ {t}) \cup {[t EXCEPT !.view = view]}

DeriveState(t) ==
    /\ t \in forkChecks /\ t.view = "derive"
    /\ IF Among(t.tip, chain)
       THEN Sees(t, IF TornReads THEN "windows" ELSE "whole")
       ELSE Sees(t, "gone")
    /\ UNCHANGED <<chain, floor, recent, orphans, orphanChecks, validating,
                   queue, waiting, banned, sync, work, draining, sent>>

(* ... but the fork-choice windows and the timestamps are read from whatever
   is below the parent's height by then, in transactions of their own. *)
ReadWindows(t) ==
    /\ t \in forkChecks /\ t.view = "windows"
    /\ Sees(t, IF Among(Parent[t.blk], chain) THEN "whole" ELSE "torn")
    /\ UNCHANGED <<chain, floor, recent, orphans, orphanChecks, validating,
                   queue, waiting, banned, sync, work, draining, sent>>

\* Checked against another branch's windows, anything may come out.
ForkVerdicts(t) ==
    CASE t.view = "whole" -> Verdicts(t.blk)
      [] t.view = "torn" -> {"ok", "bad"}
      [] t.view = "gone" -> {"unavailable"}
      [] OTHER -> {}

\* on_fork_block_checked
ForkReported(t) ==
    /\ ~Running /\ t \in forkChecks
    /\ forkChecks' = forkChecks \ {t}
    /\ waiting' = waiting \ {t.blk}

\* The parent is still on the chain and the block still outweighs the tip.
StillReplaces(b) == Among(Parent[b], chain) /\ OutweighsTip(b)

\* No session owns the chain by now.
MayReplaceInSession == TRUE
MayReplace == ~Syncing

ForkBlockRefused(t) ==
    /\ ForkReported(t)
    /\ \E verdict \in ForkVerdicts(t) :
          /\ verdict = "ok" => \/ ~MayReplace \/ ~StillReplaces(t.blk)
                               \/ CommitMayFail(Height[t.blk])
          /\ banned' = IF verdict = "bad" THEN Banned(t.from) ELSE banned
    /\ UNCHANGED <<chain, floor, recent, orphans, orphanChecks, validating,
                   queue, sync, work, draining, sent>>

ReplaceTip(t) ==
    /\ ForkReported(t)
    /\ "ok" \in ForkVerdicts(t)
    /\ MayReplace /\ StillReplaces(t.blk)
    /\ CommitAllowed(Height[t.blk])
    /\ chain' = Replaced(chain, Height[t.blk], t.blk)
    /\ Remember(<<t.blk>>)
    /\ TakeChildren(t.blk)
    /\ UNCHANGED <<floor, orphanChecks, validating, queue, banned, sync,
                   draining, sent>>

------------------------------------------------------------------------------
(* A session once its headers outweigh the chain (maybe_start_blocks): where
   the peer's chain leaves ours, whether our chain already gave way (always
   for a fast-forward), and the blocks applied past what is committed. *)
StartSession(fork) ==
    /\ Sessions /\ ~Running /\ ~Syncing
    /\ fork \in 1..Len(chain) /\ fork >= floor /\ Len(chain) - fork <= MaxReorgDepth
    /\ \E b \in Sound : Height[b] >= fork /\ OutweighsTip(b)
    /\ sync' = [fork |-> fork, committed |-> fork = Len(chain), staged |-> <<>>]
    /\ UNCHANGED <<chain, floor, recent, orphans, orphanChecks, validating,
                   queue, forkChecks, waiting, banned, work, draining, sent>>

\* The height the session's blocks go on from.
SessionBase == IF sync.committed THEN Len(chain) ELSE sync.fork
SessionTip == IF sync.staged = <<>> THEN chain[SessionBase] ELSE Tip(sync.staged)

\* try_apply_next's task, block by block.
SessionApplies(b) ==
    /\ Syncing
    /\ b \in Sound /\ Parent[b] = SessionTip
    /\ sync' = [sync EXCEPT !.staged = Append(@, b)]
    /\ UNCHANGED <<chain, floor, recent, orphans, orphanChecks, validating,
                   queue, forkChecks, waiting, banned, work, draining, sent>>

(* on_batches_applied: blocks past the tip are committed as they come; a
   reorganisation once what is staged outweighs the chain. *)
SessionCommits ==
    /\ ~Running /\ Syncing /\ sync.staged # <<>>
    /\ sync.committed \/ OutweighsTip(SessionTip)
    /\ CommitAllowed(SessionBase)
    /\ chain' = SubSeq(chain, 1, SessionBase) \o sync.staged
    /\ Remember(sync.staged)
    /\ sync' = [sync EXCEPT !.committed = TRUE, !.staged = <<>>]
    /\ UNCHANGED <<floor, orphans, orphanChecks, validating, queue, forkChecks,
                   waiting, banned, work, draining, sent>>

\* It finishes, times out, or fails; nothing staged is kept.
EndSession ==
    /\ ~Running /\ Syncing
    /\ sync' = NoSync
    /\ UNCHANGED <<chain, floor, recent, orphans, orphanChecks, validating,
                   queue, forkChecks, waiting, banned, work, draining, sent>>

\* refresh_floor records a checkpoint as the floor (module FinalityFloor).
RaiseFloor ==
    /\ ~Running
    /\ floor' \in (floor + 1)..(Len(chain) - FinalityDepth)
    /\ UNCHANGED <<chain, recent, orphans, orphanChecks, validating, queue,
                   forkChecks, waiting, banned, sync, work, draining, sent>>

\* The process ends anywhere: what is stored is what is left (Node::new).
Restart ==
    /\ recent' = <<>> /\ orphans' = NoOrphans /\ orphanChecks' = {}
    /\ validating' = NoBlock /\ queue' = <<>> /\ forkChecks' = {}
    /\ waiting' = {} /\ sync' = NoSync /\ work' = <<>> /\ draining' = FALSE
    /\ UNCHANGED <<chain, floor, banned, sent>>

Handle ==
    /\ work # <<>>
    /\ \/ Ignore(Head(work)) \/ ScreenOrphan(Head(work))
       \/ RefuseTarget(Head(work)) \/ Validate(Head(work))

Validated ==
    \/ ValidatedInSession \/ ValidatedTooLate \/ ValidatedRefused
    \/ AcceptBlock \/ AcceptFails

OrphanChecked(t) ==
    OrphanRefused(t) \/ OrphanOnTip(t) \/ HoldOrphan(t) \/ CheckForkBlock(t)

ForkChecked(t) ==
    DeriveState(t) \/ ReadWindows(t) \/ ForkBlockRefused(t) \/ ReplaceTip(t)

Session ==
    \/ \E fork \in 1..Len(chain) : StartSession(fork)
    \/ \E b \in Sound : SessionApplies(b)
    \/ SessionCommits \/ EndSession

Next ==
    \/ \E p \in Peers, b \in Blocks : Receive(p, b)
    \/ \E b \in Mined : Submit(b) \/ Mine(b)
    \/ Handle \/ Validated \/ DrainQueue \/ EndDrain
    \/ \E t \in orphanChecks : OrphanChecked(t)
    \/ \E t \in forkChecks : ForkChecked(t)
    \/ Session \/ RaiseFloor \/ Restart

Spec == Init /\ [][Next]_vars

------------------------------------------------------------------------------
ForkTasks == [blk : Blocks \ {Genesis}, from : Peers \cup {Own}, tip : Blocks,
              view : {"derive", "windows", "whole", "torn", "gone"}]
SyncSessions == [fork : Nat, committed : BOOLEAN, staged : Seq(Blocks)]

TypeOK ==
    /\ chain \in Seq(Blocks) /\ Len(chain) > 0
    /\ floor \in Nat
    /\ recent \in Seq(Blocks)
    /\ orphans \in Pools
    /\ orphanChecks \subseteq Items
    /\ validating \in Items \cup {NoBlock}
    /\ queue \in Seq(Items)
    /\ forkChecks \subseteq ForkTasks
    /\ waiting \subseteq Blocks /\ banned \subseteq Peers
    /\ sync \in SyncSessions \cup {NoSync}
    /\ work \in Seq(Items) /\ draining \in BOOLEAN
    /\ sent \subseteq Peers \X Blocks

\* The node only ever moves to a heavier sound chain that keeps everything
\* below the floor (module HeaviestChain): what a task found out about a block
\* is acted on by the tip, the session and the floor of the moment it reports.
Abstract == INSTANCE HeaviestChain
Implements == Abstract!Spec

\* While a session owns the chain nothing else changes it (chain_syncing):
\* what it commits goes on what it was built on.
SessionOwnsChain ==
    [][Syncing /\ chain' # chain
          => /\ sync.staged # <<>>
             /\ chain' = SubSeq(chain, 1, SessionBase) \o sync.staged]_vars

\* The pool keeps its limits, and its two halves agree: a parent is in the
\* order once, and exactly while it has children.
OrphanPoolSound ==
    /\ Len(orphans.order) <= OrphanLimit
    /\ \A p \in Blocks :
          /\ Len(orphans.byParent[p]) <= OrphansPerParent
          /\ Cardinality({i \in 1..Len(orphans.order) : orphans.order[i] = p})
                = (IF orphans.byParent[p] = <<>> THEN 0 ELSE 1)

\* A block is checked in one place at a time, and as one block: a second copy
\* of it costs no second check (handle_new_batch's first test); one that waits
\* in the orphan pool waits there once, within its limits.
Places(b) ==
    Cardinality({t \in orphanChecks : t.blk = b})
    + Cardinality({t \in forkChecks : t.blk = b})
    + (IF validating # NoBlock /\ validating.blk = b THEN 1 ELSE 0)
    + Cardinality({i \in 1..Len(queue) : queue[i].blk = b})

OnePlace == (\A b \in Blocks : Places(b) <= 1) /\ OrphanPoolSound

\* A queued block has a validation in front of it, or the loop that takes it:
\* nothing else would ever look at the queue again.
QueueServed == queue # <<>> => draining \/ validating # NoBlock

\* An orphan whose parent is the tip is handled with the tip's arrival, not
\* left in the pool (take_children, and on_orphan_checked's second look).
NoOrphanOnTip == ~Running => orphans.byParent[Tip(chain)] = <<>>

\* A peer is banned for what it relayed, never for a block that is merely
\* early or whose parent the chain moved off (is_future_timestamp,
\* ForkCheckError::Unavailable).
HonestNotBanned == \A p \in banned : \E b \in Blocks \ Sound : <<p, b>> \in sent

\* A miner that submits a block hears what became of it, however the tip
\* moves meanwhile (block_replies) - unless a peer relayed the block as well.
Relayed(b) == \E p \in Peers : <<p, b>> \in sent

MinersHear == \A b \in Mined : (b \in waiting) ~> (b \notin waiting \/ Relayed(b))

\* A handler runs on; every task ends, and its report, though other messages
\* may go first, is taken in the end (select! takes ready branches at random).
Fairness ==
    /\ WF_vars(Handle) /\ WF_vars(DrainQueue) /\ WF_vars(EndDrain)
    /\ SF_vars(Validated)
    /\ \A b \in Blocks \ {Genesis} :
          /\ SF_vars(\E t \in orphanChecks : t.blk = b /\ OrphanChecked(t))
          /\ SF_vars(\E t \in forkChecks : t.blk = b /\ ForkChecked(t))
    /\ SF_vars(EndSession)

FairSpec == Spec /\ Fairness
=============================================================================
