---------------------------- MODULE FinalityFloor ----------------------------
(***************************************************************************)
(* The finalized floor of one node (finality.rs, node.rs refresh_floor,    *)
(* storage.rs): checkpoints anchored in midstate raise a floor below which *)
(* no block may be replaced, block bodies below it are pruned by a         *)
(* background task, and undo records are kept back to the retained         *)
(* checkpoints.                                                            *)
(*                                                                         *)
(* Three actors touch the persisted record `fin': the event loop, the      *)
(* pruning tasks it spawns, and a restart that rebuilds the tracker from   *)
(* it.  A database transaction is atomic; reading `fin' in one transaction *)
(* and writing it in the next is not, so both refresh_floor and            *)
(* prune_bodies_below are two steps here.                                  *)
(*                                                                         *)
(* A checkpoint is named by the block it covers last: a block commits to   *)
(* its history, so the checkpoint at height h matches a chain exactly when *)
(* the chain holds that block at height h - 1.                             *)
(***************************************************************************)
EXTENDS BlockTree

CONSTANTS
    Checkpoints,     \* the blocks some verified anchor record covers last
    FinalityDepth,   \* FinalityConfig::finality_depth (100)
    Retained,        \* FinalityConfig::retained_checkpoints (4)
    UndoKeep,        \* storage.rs UNDO_KEEP (1200)
    MaxRecords,      \* finality.rs MAX_RECORDS (256)
    Prune,           \* FinalityConfig::prune
    StorageFails,    \* whether recording finality may fail (a full disk)
    MaxRestarts,     \* bound on restarts
    Never,           \* u64::MAX, as retain_from before the first checkpoint
    NoBlock, NoInfo, NoRead

ASSUME FinalityAssumption ==
    /\ Checkpoints \subseteq Blocks \ {Genesis}
    /\ FinalityDepth \in Nat
    /\ Retained \in Nat \ {0}
    /\ UndoKeep \in Nat
    /\ MaxRecords \in Nat \ {0}
    /\ Prune \in BOOLEAN
    /\ StorageFails \in BOOLEAN
    /\ MaxRestarts \in Nat
    /\ Never \in Nat /\ \A b \in Blocks : Height[b] + 1 < Never
    /\ NoBlock \notin Blocks

VARIABLES
    chain,       \* HEADERS: chain[h + 1] is the block at height h
    undo,        \* UNDO: heights that have an undo record
    bodies,      \* BATCHES: heights that have a body
    fin,         \* META "finality": the persisted FinalityInfo
    records,     \* FinalityTracker::records
    finalized,   \* FinalityTracker::finalized
    floor,       \* FinalityTracker::floor
    tip,         \* FinalityTracker::tip
    forks,       \* heights a fork block or a sync session would replace from
    refreshing,  \* the info refresh_floor has yet to record, or NoInfo
    prunes,      \* pruning tasks: the height asked for, and what each has read
    restarts,
    settled,     \* history: every checkpoint ever recorded as the floor
    peak         \* history: the longest chain so far

vars == <<chain, undo, bodies, fin, records, finalized, floor, tip, forks,
          refreshing, prunes, restarts, settled, peak>>

\* The height of a checkpoint: how many blocks it covers.
CpHeight(c) == Height[c] + 1

Info(h, c, from, pruned) ==
    [floor |-> h, checkpoint |-> c, retainFrom |-> from, prunedBelow |-> pruned]

AtMost(a, b) == IF a <= b THEN a ELSE b
AtLeast(a, b) == IF a >= b THEN a ELSE b

Init ==
    /\ chain = <<Genesis>>
    /\ undo = {0}
    /\ bodies = {0}
    /\ fin = Info(0, NoBlock, Never, 0)
    /\ records = {} /\ finalized = {} /\ floor = 0 /\ tip = 0
    /\ forks = {} /\ refreshing = NoInfo /\ prunes = {}
    /\ restarts = 0 /\ settled = {} /\ peak = 1

------------------------------------------------------------------------------
\* The event loop does one thing at a time: nothing else of it runs while
\* refresh_floor is between reading the record and writing it.
Idle == refreshing = NoInfo

(* A competing chain leaves ours at height first: on_headers_verified and
   fork_parent both look at the tracker's floor when they find it, long
   before the blocks are committed. *)
FindFork(first) ==
    /\ Idle
    /\ first \in 1..(Len(chain) - 1)
    /\ first >= floor
    /\ forks' = forks \cup {first}
    /\ UNCHANGED <<chain, undo, bodies, fin, records, finalized, floor, tip,
                   refreshing, prunes, restarts, settled, peak>>

\* commit_chain refuses to rewrite a height below the persisted floor.
RewritesFloor(first) == TRUE
AboveFloor(first) == first >= fin.floor

\* The undo records commit_chain keeps once the chain is height blocks long.
KeepShortWindow(height) == AtMost(height - UndoKeep + 1, fin.retainFrom)
KeepFrom(height) == AtMost(height - UndoKeep, fin.retainFrom)

(* Storage::commit_chain, one block: a new tip, or a block that replaces
   everything from a fork found earlier.  It refuses a height below the
   persisted floor and a replaced block without an undo record, then bounds
   the undo window.  A longer run of blocks is several such steps. *)
CommitBlock(first, blk) ==
    /\ Idle
    /\ first = Len(chain) \/ (first \in forks /\ first < Len(chain))
    /\ blk # Genesis /\ Parent[blk] = chain[first]
    /\ AboveFloor(first)
    /\ \A h \in first..(Len(chain) - 1) : h \in undo
    /\ chain' = Replaced(chain, first, blk)
    /\ undo' = {h \in undo \cup {first} : h <= first /\ h >= KeepFrom(first + 1)}
    /\ bodies' = {h \in bodies : h < first} \cup {first}
    /\ forks' = {f \in forks : f <= first}
    /\ peak' = AtLeast(peak, first + 1)
    /\ UNCHANGED <<fin, records, finalized, floor, tip, refreshing, prunes,
                   restarts, settled>>

------------------------------------------------------------------------------
\* FinalityTracker::standing, for a checkpoint of this node's network whose
\* claimed work is its block's.
Standing(c) ==
    LET h == CpHeight(c) IN
    CASE h > Len(chain) -> "ahead"
      [] h <= Len(chain) /\ chain[h] # c -> "conflict"
      [] h <= Len(chain) /\ chain[h] = c /\ Len(chain) - h >= FinalityDepth -> "final"
      [] OTHER -> "pending"

\* FinalityTracker::evict order: beyond the tip highest first, then the
\* lowest; a retained checkpoint is never dropped.
DroppedBefore(c, d) ==
    IF CpHeight(c) > tip
    THEN CpHeight(d) <= tip \/ CpHeight(c) >= CpHeight(d)
    ELSE CpHeight(d) <= tip /\ CpHeight(c) <= CpHeight(d)

(* FinalityTracker::insert_verified: keep a record, then drop one if that is
   one too many.  Records come from peers, from the anchor file, and again
   after a restart. *)
AddRecord(c) ==
    /\ Idle
    /\ c \in Checkpoints \ records
    /\ LET held == records \cup {c}
           loose == held \ finalized
       IN  IF Cardinality(held) <= MaxRecords \/ loose = {}
           THEN records' = held
           ELSE \E d \in loose :
                   /\ \A e \in loose : DroppedBefore(d, e)
                   /\ records' = held \ {d}
    /\ UNCHANGED <<chain, undo, bodies, fin, finalized, floor, tip, forks,
                   refreshing, prunes, restarts, settled, peak>>

\* Records that can no longer matter: agreeing, at or below the floor, not
\* retained.
Stale == {c \in records : /\ CpHeight(c) <= floor
                          /\ Standing(c) # "conflict"
                          /\ c \notin finalized}

\* The checkpoints that may become the floor: final, and below every
\* checkpoint that contradicts this chain.
Candidates ==
    {c \in records \ Stale :
        /\ Standing(c) = "final"
        /\ \A d \in records \ Stale :
              Standing(d) = "conflict" => CpHeight(c) < CpHeight(d)}

\* The Retained newest of a set of checkpoints.
Newest(S) == {c \in S : Cardinality({d \in S : CpHeight(d) > CpHeight(c)}) < Retained}

\* Only a checkpoint above the floor raises it.
RaisesLate(c) == CpHeight(c) > floor + 1
Raises(c) == CpHeight(c) > floor

(* FinalityTracker::refresh: forget stale records; if a candidate lies above
   the floor, raise the tracker's floor at once and read the persisted
   record, to be written back by the next step. *)
RefreshFloor ==
    /\ Idle
    /\ records' = records \ Stale
    /\ tip' = Len(chain)
    /\ \/ /\ \A c \in Candidates : ~Raises(c)
          /\ UNCHANGED <<finalized, floor, refreshing>>
       \/ \E c \in Candidates :
             /\ Raises(c)
             /\ \A d \in Candidates : CpHeight(d) <= CpHeight(c)
             /\ floor' = CpHeight(c)
             /\ finalized' = Newest(finalized \cup {c})
             /\ \E low \in finalized' :
                   /\ \A d \in finalized' : CpHeight(low) <= CpHeight(d)
                   /\ refreshing' = Info(CpHeight(c), c, CpHeight(low), fin.prunedBelow)
    /\ UNCHANGED <<chain, undo, bodies, fin, forks, prunes, restarts, settled,
                   peak>>

\* Storage::set_finality, then the pruning task refresh_floor spawns.
RecordFloor ==
    /\ ~Idle
    /\ fin' = refreshing
    /\ settled' = settled \cup {refreshing.checkpoint}
    /\ prunes' = IF Prune THEN prunes \cup {[height |-> refreshing.floor, read |-> NoRead]}
                          ELSE prunes
    /\ refreshing' = NoInfo
    /\ UNCHANGED <<chain, undo, bodies, records, finalized, floor, tip, forks,
                   restarts, peak>>

\* "recording finality failed": the tracker's floor stays raised.
RecordFails ==
    /\ ~Idle /\ StorageFails
    /\ refreshing' = NoInfo
    /\ UNCHANGED <<chain, undo, bodies, fin, records, finalized, floor, tip,
                   forks, prunes, restarts, settled, peak>>

------------------------------------------------------------------------------
(* Storage::prune_bodies_below, off the event loop: it reads the record in a
   transaction of its own ... *)
PruneRead(t) ==
    /\ t \in prunes /\ t.read = NoRead
    /\ prunes' = (prunes \ {t}) \cup {[t EXCEPT !.read = fin]}
    /\ UNCHANGED <<chain, undo, bodies, fin, records, finalized, floor, tip,
                   forks, refreshing, restarts, settled, peak>>

\* Bodies below this go: never above the floor it read.
PrunesThrough(t) == AtMost(t.height, t.read.floor) + 1
PrunesBelow(t) == AtMost(t.height, t.read.floor)

\* ... and in the next deletes the bodies and writes the record back whole.
PruneWrite(t) ==
    /\ t \in prunes /\ t.read # NoRead
    /\ bodies' = {h \in bodies : h >= PrunesBelow(t)}
    /\ fin' = [t.read EXCEPT !.prunedBelow = AtLeast(@, PrunesBelow(t))]
    /\ prunes' = prunes \ {t}
    /\ UNCHANGED <<chain, undo, records, finalized, floor, tip, forks,
                   refreshing, restarts, settled, peak>>

\* FinalityTracker::new: the tracker a stored record gives back.
RestoredRaw == {fin.checkpoint}
RestoredFinalized == {fin.checkpoint} \ {NoBlock}
RestoredFloor == fin.floor

\* The process ends anywhere; the tracker starts again from what is stored
\* (FinalityTracker::new) and the records are read again from the file.
Restart ==
    /\ restarts < MaxRestarts
    /\ restarts' = restarts + 1
    /\ records' = {}
    /\ finalized' = RestoredFinalized
    /\ floor' = RestoredFloor
    /\ tip' = RestoredFloor
    /\ forks' = {} /\ refreshing' = NoInfo /\ prunes' = {}
    /\ UNCHANGED <<chain, undo, bodies, fin, settled, peak>>

\* What happens on a node that keeps every body.
Steps ==
    \/ \E first \in 1..Len(chain) :
          FindFork(first) \/ \E blk \in Blocks : CommitBlock(first, blk)
    \/ \E c \in Checkpoints : AddRecord(c)
    \/ RefreshFloor \/ RecordFloor \/ RecordFails
    \/ Restart

Next == Steps \/ \E t \in prunes : PruneRead(t) \/ PruneWrite(t)

Spec == Init /\ [][Next]_vars

------------------------------------------------------------------------------
InfosOf(S) == [floor : Nat, checkpoint : S, retainFrom : Nat, prunedBelow : Nat]
Infos == InfosOf(Checkpoints \cup {NoBlock})

TypeOK ==
    /\ chain \in Seq(Blocks) /\ Len(chain) > 0
    /\ undo \subseteq Nat /\ bodies \subseteq Nat
    /\ fin \in Infos
    /\ records \subseteq Checkpoints /\ finalized \subseteq Checkpoints
    /\ floor \in Nat /\ tip \in Nat
    /\ forks \subseteq Nat
    /\ refreshing \in InfosOf(Checkpoints) \cup {NoInfo}
    /\ prunes \subseteq [height : Nat, read : Infos \cup {NoRead}]
    /\ restarts \in 0..MaxRestarts
    /\ settled \subseteq Checkpoints
    /\ peak \in Nat

\* A checkpoint once recorded as the floor stays on this node's chain
\* ("No reorg below the floor", docs/PRUNING.md; commit_chain's refusal).
SettledStays == \A c \in settled : CpHeight(c) <= Len(chain) /\ chain[CpHeight(c)] = c

\* The persisted floor never falls: set_finality and prune_bodies_below write
\* the whole record, so a writer with an old copy could lower it.
FloorNeverFalls == [][fin'.floor >= fin.floor]_vars

\* A body is missing only below a height that was the floor: pruning never
\* takes the body of a block that could still be replaced.
BodiesAboveFloor ==
    \A h \in 0..(Len(chain) - 1) :
        h \in bodies \/ \E c \in settled : h < CpHeight(c)

\* Every block of the last UndoKeep heights below the highest tip so far can be
\* undone: reorganisations to a shorter chain eat into the window, no more.
UndoWindow == \A h \in 0..(Len(chain) - 1) : h >= peak - UndoKeep => h \in undo

\* A checkpoint that qualifies is recorded, or stops qualifying, or the floor it
\* raised could not be written and stands in memory alone, which nothing tries
\* again (refresh_floor): the poll tick runs it forever.
QualifiedIsRecorded ==
    \A c \in Checkpoints :
        (c \in Candidates) ~> \/ fin.floor >= CpHeight(c) \/ c \notin Candidates
                              \/ Idle /\ floor > fin.floor

Fairness == WF_vars(RefreshFloor) /\ WF_vars(RecordFloor \/ RecordFails)
FairSteps == Init /\ [][Steps]_vars /\ Fairness
=============================================================================
