-------------------------- MODULE NodePartsProofs ---------------------------
(***************************************************************************)
(* Two parts that stand beside the chain a node follows.                   *)
(*                                                                         *)
(* The floor (FinalityFloor), for every tree of blocks, every depth and    *)
(* every number of retained checkpoints: types always, and, where block    *)
(* bodies are not pruned, that the persisted floor never falls and that a  *)
(* checkpoint once recorded stays on the chain.                            *)
(*                                                                         *)
(* The doors of a node (Peers), whoever opens and cuts connections in      *)
(* whatever order, for any number of peers, addresses and subnets and any  *)
(* limits.                                                                 *)
(***************************************************************************)
EXTENDS FinalityFloor, Peers, SequenceTheorems, FiniteSetTheorems, TLAPS

\* Replacing a chain from height first keeps the blocks below it.
LEMMA ReplacedLemma ==
    ASSUME NEW c \in Seq(Blocks), NEW first \in 1..Len(c), NEW blk \in Blocks
    PROVE  /\ Replaced(c, first, blk) \in Seq(Blocks)
           /\ Len(Replaced(c, first, blk)) = first + 1
           /\ \A i \in 1..first : Replaced(c, first, blk)[i] = c[i]
           /\ Replaced(c, first, blk)[first + 1] = blk
<1>1. /\ SubSeq(c, 1, first) \in Seq(Blocks)
      /\ Len(SubSeq(c, 1, first)) = first
      /\ \A i \in 1..first : SubSeq(c, 1, first)[i] = c[i]
  BY SubSeqProperties, ElementOfSeq, LenProperties
<1> QED
  BY <1>1 DEF Replaced

\* The arithmetic helpers return one of their arguments.
LEMMA PickLemma ==
    \A a, b \in Int : AtMost(a, b) \in {a, b} /\ AtLeast(a, b) \in {a, b}
  BY DEF AtMost, AtLeast

LEMMA CpHeightNat == \A c \in Blocks : CpHeight(c) \in Nat
  BY BlockTreeAssumption DEF CpHeight

------------------------------------------------------------------------------
\* Every variable keeps its type: in particular a restart never takes "no
\* checkpoint" for a finalized one (FinalityTracker::new).
THEOREM TypeCorrect == Spec => []TypeOK
<1> USE DEF Infos, InfosOf
<1>1. Init => TypeOK
  BY BlockTreeAssumption, FinalityAssumption DEF Init, TypeOK, Info
<1>2. TypeOK /\ [Next]_vars => TypeOK'
  <2> SUFFICES ASSUME TypeOK, [Next]_vars PROVE TypeOK'
    OBVIOUS
  <2> USE DEF TypeOK
  <2>1. ASSUME NEW first \in 1..Len(chain), FindFork(first) PROVE TypeOK'
    <3>1. forks' \subseteq Nat
      BY <2>1 DEF FindFork
    <3> QED
      BY <2>1, <3>1 DEF FindFork
  <2>2. ASSUME NEW first \in 1..Len(chain), NEW blk \in Blocks, CommitBlock(first, blk)
        PROVE TypeOK'
    <3>1. chain' \in Seq(Blocks) /\ Len(chain') > 0
      BY <2>2, ReplacedLemma DEF CommitBlock
    <3>2. undo' \subseteq undo \cup {first} /\ bodies' \subseteq bodies \cup {first}
          /\ forks' \subseteq forks
      BY <2>2, Zenon DEF CommitBlock
    <3>3. peak' \in Nat
      <4>1. first \in Nat /\ peak \in Nat
        OBVIOUS
      <4>2. peak' = AtLeast(peak, first + 1)
        BY <2>2 DEF CommitBlock
      <4> QED
        BY <4>1, <4>2 DEF AtLeast
    <3>4. undo' \subseteq Nat /\ bodies' \subseteq Nat /\ forks' \subseteq Nat
      BY <3>2
    <3> QED
      BY <2>2, <3>1, <3>3, <3>4 DEF CommitBlock
  <2>3. ASSUME NEW c \in Checkpoints, AddRecord(c) PROVE TypeOK'
    <3>1. records' \subseteq Checkpoints
      BY <2>3 DEF AddRecord
    <3> QED
      BY <2>3, <3>1 DEF AddRecord
  <2>4. CASE RefreshFloor
    <3>1. records' \subseteq Checkpoints /\ tip' \in Nat
      BY <2>4 DEF RefreshFloor
    <3>2. /\ finalized' \subseteq Checkpoints /\ floor' \in Nat
          /\ refreshing' \in InfosOf(Checkpoints) \cup {NoInfo}
      <4>1. CASE UNCHANGED <<finalized, floor, refreshing>>
        BY <4>1
      <4>2. ASSUME NEW c \in Candidates,
                   floor' = CpHeight(c),
                   finalized' = Newest(finalized \cup {c}),
                   NEW low \in finalized',
                   refreshing' = Info(CpHeight(c), c, CpHeight(low), fin.prunedBelow)
            PROVE  /\ finalized' \subseteq Checkpoints /\ floor' \in Nat
                   /\ refreshing' \in InfosOf(Checkpoints)
        <5>1. c \in Checkpoints
          BY DEF Candidates
        <5>2. finalized' \subseteq Checkpoints
          BY <4>2, <5>1 DEF Newest
        <5>3. CpHeight(c) \in Nat /\ CpHeight(low) \in Nat
          BY <4>2, <5>1, <5>2, CpHeightNat, FinalityAssumption
        <5> QED
          BY <4>2, <5>1, <5>2, <5>3 DEF Info
      <4> QED
        BY <2>4, <4>1, <4>2 DEF RefreshFloor
    <3> QED
      BY <2>4, <3>1, <3>2 DEF RefreshFloor
  <2>5. CASE RecordFloor
    <3>1. refreshing \in InfosOf(Checkpoints)
      BY <2>5 DEF RecordFloor, Idle
    <3>2. prunes' \subseteq [height : Nat, read : Infos \cup {NoRead}]
      BY <2>5, <3>1 DEF RecordFloor
    <3> QED
      BY <2>5, <3>1, <3>2 DEF RecordFloor
  <2>6. CASE RecordFails
    BY <2>6 DEF RecordFails
  <2>7. ASSUME NEW t \in prunes, PruneRead(t) PROVE TypeOK'
    <3>1. prunes' \subseteq [height : Nat, read : Infos \cup {NoRead}]
      BY <2>7 DEF PruneRead
    <3> QED
      BY <2>7, <3>1 DEF PruneRead
  <2>8. ASSUME NEW t \in prunes, PruneWrite(t) PROVE TypeOK'
    <3>1. t.read \in Infos /\ t.height \in Nat
      BY <2>8 DEF PruneWrite
    <3>2. PrunesBelow(t) \in Nat
      BY <3>1, PickLemma DEF PrunesBelow
    <3>3. AtLeast(t.read.prunedBelow, PrunesBelow(t)) \in Nat
      BY <3>1, <3>2, PickLemma
    <3> QED
      BY <2>8, <3>1, <3>3 DEF PruneWrite
  <2>9. CASE Restart
    <3>1. finalized' \subseteq Checkpoints /\ floor' \in Nat /\ tip' \in Nat
      BY <2>9 DEF Restart, RestoredFinalized, RestoredFloor
    <3>2. restarts' \in 0..MaxRestarts
      BY <2>9, FinalityAssumption DEF Restart
    <3> QED
      BY <2>9, <3>1, <3>2 DEF Restart
  <2>10. CASE UNCHANGED vars
    BY <2>10 DEF vars
  <2> QED
    BY <2>1, <2>2, <2>3, <2>4, <2>5, <2>6, <2>7, <2>8, <2>9, <2>10 DEF Next, Steps
<1> QED
  BY <1>1, <1>2, PTL DEF Spec

------------------------------------------------------------------------------
(* Where bodies are not pruned nothing but set_finality writes the record,
   so what it writes is what refresh_floor read.  The tracker's floor may run
   ahead of the persisted one (recording it failed), never behind, and
   everything settled lies below the persisted floor, on the chain. *)
Covers(c, h) == CpHeight(c) <= h /\ CpHeight(c) <= Len(chain) /\ chain[CpHeight(c)] = c

FloorInv ==
    /\ prunes = {}
    /\ fin.floor <= floor
    /\ \A c \in settled : Covers(c, fin.floor)
    /\ refreshing # NoInfo =>
          /\ fin.floor < refreshing.floor /\ refreshing.floor <= floor
          /\ Covers(refreshing.checkpoint, refreshing.floor)

IInv == TypeOK /\ FloorInv

LEMMA FloorInvInit == Init => FloorInv
  BY DEF Init, FloorInv, Info

LEMMA FloorInvStep ==
    ASSUME ~Prune, TypeOK, FloorInv, [Next]_vars
    PROVE  FloorInv' /\ fin'.floor >= fin.floor
<1> USE DEF FloorInv
<1>0. /\ \A c \in Checkpoints : CpHeight(c) \in Nat \ {0}
      /\ fin.floor \in Nat /\ floor \in Nat /\ settled \subseteq Checkpoints
      /\ chain \in Seq(Blocks) /\ Len(chain) \in Nat
      /\ refreshing \in InfosOf(Checkpoints) \cup {NoInfo}
  <2>1. \A c \in Checkpoints : CpHeight(c) \in Nat \ {0}
    BY BlockTreeAssumption, FinalityAssumption DEF CpHeight
  <2>2. /\ settled \subseteq Checkpoints /\ chain \in Seq(Blocks) /\ floor \in Nat
        /\ fin \in Infos /\ refreshing \in InfosOf(Checkpoints) \cup {NoInfo}
    BY DEF TypeOK
  <2>3. fin.floor \in Nat /\ Len(chain) \in Nat
    BY <2>2 DEF Infos, InfosOf
  <2> QED
    BY <2>1, <2>2, <2>3
<1>1. ASSUME UNCHANGED <<chain, fin, floor, refreshing, prunes, settled>>
      PROVE  FloorInv' /\ fin'.floor >= fin.floor
  BY <1>0, <1>1 DEF Covers, CpHeight
<1>2. ASSUME NEW first \in 1..Len(chain), FindFork(first)
      PROVE  FloorInv' /\ fin'.floor >= fin.floor
  BY <1>1, <1>2 DEF FindFork
<1>3. ASSUME NEW first \in 1..Len(chain), NEW blk \in Blocks, CommitBlock(first, blk)
      PROVE  FloorInv' /\ fin'.floor >= fin.floor
  <2>1. /\ refreshing = NoInfo /\ fin.floor <= first
        /\ UNCHANGED <<fin, floor, refreshing, prunes, settled>>
    BY <1>3 DEF CommitBlock, AboveFloor, Idle
  <2>2. ASSUME NEW c \in settled PROVE Covers(c, fin.floor)'
    <3>1. CpHeight(c) \in 1..first /\ chain[CpHeight(c)] = c
      BY <1>0, <2>1, <2>2 DEF Covers
    <3>2. Len(chain') = first + 1 /\ \A i \in 1..first : chain'[i] = chain[i]
      <4>1. chain' = Replaced(chain, first, blk)
        BY <1>3 DEF CommitBlock
      <4> QED
        BY <1>0, <4>1, ReplacedLemma
    <3>3. chain'[CpHeight(c)] = c /\ CpHeight(c) <= Len(chain')
      BY <3>1, <3>2
    <3> QED
      BY <1>0, <2>1, <3>1, <3>3 DEF Covers, CpHeight
  <2> QED
    BY <1>0, <2>1, <2>2
<1>4. ASSUME NEW c \in Checkpoints, AddRecord(c)
      PROVE  FloorInv' /\ fin'.floor >= fin.floor
  BY <1>1, <1>4 DEF AddRecord
<1>5. CASE RefreshFloor
  <2>1. UNCHANGED <<chain, fin, prunes, settled>>
    BY <1>5 DEF RefreshFloor
  <2>2. CASE UNCHANGED <<floor, refreshing>>
    BY <1>1, <2>1, <2>2
  <2>3. ASSUME NEW c \in Candidates, Raises(c), floor' = CpHeight(c),
               NEW low, refreshing' = Info(CpHeight(c), c, low, fin.prunedBelow)
        PROVE  FloorInv' /\ fin'.floor >= fin.floor
    <3>1. c \in Checkpoints /\ Standing(c) = "final"
      BY DEF Candidates, TypeOK
    <3>2. CpHeight(c) <= Len(chain) /\ chain[CpHeight(c)] = c
      BY <1>0, <3>1 DEF Standing
    <3>3. floor < CpHeight(c)
      BY <1>0, <2>3, <3>1 DEF Raises
    <3>4. refreshing'.floor = CpHeight(c) /\ refreshing'.checkpoint = c
      BY <2>3 DEF Info
    <3>5. \A d \in settled' : Covers(d, fin.floor)'
      BY <2>1 DEF Covers, CpHeight
    <3>6. Covers(refreshing.checkpoint, refreshing.floor)'
      BY <1>0, <2>1, <3>1, <3>2, <3>4 DEF Covers, CpHeight
    <3>7. fin'.floor <= floor' /\ fin'.floor < refreshing'.floor /\ refreshing'.floor <= floor'
      BY <1>0, <2>1, <2>3, <3>1, <3>3, <3>4
    <3> QED
      BY <1>0, <2>1, <3>5, <3>6, <3>7
  <2> QED
    BY <1>5, <2>2, <2>3 DEF RefreshFloor
<1>6. CASE RecordFloor
  <2>1. /\ refreshing # NoInfo /\ fin' = refreshing /\ refreshing' = NoInfo
        /\ settled' = settled \cup {refreshing.checkpoint}
        /\ prunes' = {} /\ UNCHANGED <<chain, floor>>
    BY <1>6 DEF RecordFloor, Idle
  <2>2. refreshing.floor \in Nat
    BY <1>0, <2>1 DEF InfosOf
  <2>3. \A c \in settled' : Covers(c, fin.floor)'
    BY <1>0, <2>1, <2>2 DEF Covers, CpHeight
  <2> QED
    BY <1>0, <2>1, <2>2, <2>3
<1>7. CASE RecordFails
  <2>1. UNCHANGED <<chain, fin, floor, prunes, settled>> /\ refreshing' = NoInfo
    BY <1>7 DEF RecordFails
  <2> QED
    BY <1>0, <2>1 DEF Covers, CpHeight
<1>8. ASSUME NEW t \in prunes PROVE FALSE
  BY <1>8
<1>9. CASE Restart
  <2>1. /\ UNCHANGED <<chain, fin, settled>> /\ floor' = fin.floor
        /\ prunes' = {} /\ refreshing' = NoInfo
    BY <1>9 DEF Restart, RestoredFloor
  <2> QED
    BY <1>0, <2>1 DEF Covers, CpHeight
<1>10. CASE UNCHANGED vars
  BY <1>1, <1>10 DEF vars
<1> QED
  BY <1>2, <1>3, <1>4, <1>5, <1>6, <1>7, <1>8, <1>9, <1>10 DEF Next, Steps

\* Without pruning the persisted floor never falls, whatever fails and however
\* often the node restarts (Storage::set_finality is its only writer).
THEOREM FloorHolds ==
    ASSUME ~Prune PROVE Spec => FloorNeverFalls
<1>1. Spec => []TypeOK
  BY TypeCorrect
<1>2. Init => FloorInv
  BY FloorInvInit
<1>3. TypeOK /\ FloorInv /\ [Next]_vars => FloorInv' /\ [fin'.floor >= fin.floor]_vars
  BY FloorInvStep
<1> QED
  BY <1>1, <1>2, <1>3, PTL DEF Spec, FloorNeverFalls

\* Without pruning no checkpoint once recorded as the floor is ever rewritten
\* (docs/PRUNING.md, "No reorg below the floor"; commit_chain's refusal).
THEOREM SettledHolds ==
    ASSUME ~Prune PROVE Spec => []SettledStays
<1>1. Spec => []TypeOK
  BY TypeCorrect
<1>2. Init => FloorInv
  BY FloorInvInit
<1>3. TypeOK /\ FloorInv /\ [Next]_vars => FloorInv'
  BY FloorInvStep
<1>4. FloorInv => SettledStays
  BY DEF FloorInv, SettledStays, Covers
<1> QED
  BY <1>1, <1>2, <1>3, <1>4, PTL DEF Spec

------------------------------------------------------------------------------
\* A height within keep of a number is within keep of every smaller one.
LEMMA WindowLemma ==
    \A p, q, keep, h \in Nat : p <= q /\ h >= q - keep => h >= p - keep
  OBVIOUS

(* The undo window needs no strengthening beyond types: whatever checkpoint is
   retained, commit_chain deletes no record of the last UndoKeep heights below
   the tip it writes, and the longest chain so far is at least that long. *)
LEMMA UndoStep ==
    ASSUME TypeOK, UndoWindow, [Next]_vars
    PROVE  UndoWindow'
<1>0. /\ Len(chain) \in Nat /\ peak \in Nat /\ UndoKeep \in Nat
      /\ fin.retainFrom \in Nat
  BY FinalityAssumption DEF TypeOK, Infos, InfosOf
<1>1. ASSUME UNCHANGED <<chain, undo, peak>> PROVE UndoWindow'
  BY <1>1 DEF UndoWindow
<1>2. ASSUME NEW first \in 1..Len(chain), NEW blk \in Blocks, CommitBlock(first, blk)
      PROVE  UndoWindow'
  <2>1. Len(chain') = first + 1
    <3>1. chain' = Replaced(chain, first, blk) /\ chain \in Seq(Blocks)
      BY <1>2 DEF CommitBlock, TypeOK
    <3> QED
      BY <3>1, ReplacedLemma
  <2>2. undo' = {h \in undo \cup {first} : h <= first /\ h >= KeepFrom(first + 1)}
    BY <1>2 DEF CommitBlock
  <2>3. peak' \in Nat /\ peak' >= peak /\ peak' >= first + 1
    <3>1. peak' = AtLeast(peak, first + 1)
      BY <1>2 DEF CommitBlock
    <3> QED
      BY <1>0, <3>1 DEF AtLeast
  <2>4. KeepFrom(first + 1) \in Int /\ KeepFrom(first + 1) <= first + 1 - UndoKeep
    BY <1>0 DEF KeepFrom, AtMost
  <2>5. ASSUME NEW h \in 0..first, h >= peak' - UndoKeep PROVE h \in undo'
    <3>1. h \in Nat /\ h <= first /\ first \in Nat /\ first <= Len(chain)
      BY <1>0
    <3>2. h >= peak - UndoKeep /\ h >= (first + 1) - UndoKeep
      <4>1. peak' - UndoKeep \in Int /\ first + 1 \in Nat
        BY <1>0, <2>3, <3>1
      <4>2. PICK new, now : new = peak' /\ now = first + 1
        OBVIOUS
      <4>3. new \in Nat /\ now \in Nat /\ peak <= new /\ now <= new /\ h >= new - UndoKeep
        BY <2>3, <2>5, <4>1, <4>2
      <4>4. h >= peak - UndoKeep /\ h >= now - UndoKeep
        BY <1>0, <3>1, <4>3, WindowLemma
      <4> QED
        BY <4>2, <4>4
    <3>3. h \in undo \cup {first}
      <4>1. h = first \/ h \in 0..(Len(chain) - 1)
        BY <1>0, <3>1
      <4> QED
        BY <3>2, <4>1 DEF UndoWindow
    <3>4. h >= KeepFrom(first + 1)
      BY <1>0, <2>4, <3>1, <3>2
    <3> QED
      BY <2>2, <3>1, <3>3, <3>4
  <2>6. 0..(Len(chain') - 1) = 0..first
    BY <2>1
  <2> QED
    BY <2>5, <2>6 DEF UndoWindow
<1>3. ASSUME NEW first \in 1..Len(chain), FindFork(first) PROVE UndoWindow'
  BY <1>1, <1>3 DEF FindFork
<1>4. ASSUME NEW c \in Checkpoints, AddRecord(c) PROVE UndoWindow'
  BY <1>1, <1>4 DEF AddRecord
<1>5. CASE RefreshFloor
  BY <1>1, <1>5 DEF RefreshFloor
<1>6. CASE RecordFloor
  BY <1>1, <1>6 DEF RecordFloor
<1>7. CASE RecordFails
  BY <1>1, <1>7 DEF RecordFails
<1>8. ASSUME NEW t \in prunes, PruneRead(t) \/ PruneWrite(t) PROVE UndoWindow'
  BY <1>1, <1>8 DEF PruneRead, PruneWrite
<1>9. CASE Restart
  BY <1>1, <1>9 DEF Restart
<1>10. CASE UNCHANGED vars
  BY <1>1, <1>10 DEF vars
<1> QED
  BY <1>2, <1>3, <1>4, <1>5, <1>6, <1>7, <1>8, <1>9, <1>10 DEF Next, Steps

\* Every block of the last UndoKeep heights below the highest tip so far can be
\* undone, with pruning or without, whatever fails and however often the node
\* restarts (commit_chain's bound on the undo window, storage.rs).
THEOREM UndoHolds == Spec => []UndoWindow
<1>1. Spec => []TypeOK
  BY TypeCorrect
<1>2. Init => UndoWindow
  BY DEF Init, UndoWindow
<1>3. TypeOK /\ UndoWindow /\ [Next]_vars => UndoWindow'
  BY UndoStep
<1> QED
  BY <1>1, <1>2, <1>3, PTL DEF Spec

------------------------------------------------------------------------------
(* With pruning, the tasks race with the event loop and with each other, and
   the record may go back to an older copy (FloorNeverFalls then fails).  What
   survives every such race: a floor anybody acts on, the persisted one, the one
   about to be recorded, the one a task has read, is or was a settled floor. *)
WasSettled(h) == h = 0 \/ \E c \in settled : h <= CpHeight(c)

BodiesInv ==
    /\ WasSettled(fin.floor)
    /\ refreshing # NoInfo => refreshing.floor = CpHeight(refreshing.checkpoint)
    /\ \A t \in prunes : t.read # NoRead => WasSettled(t.read.floor)
    /\ BodiesAboveFloor

LEMMA BodiesInit == Init => BodiesInv
  BY DEF Init, BodiesInv, WasSettled, BodiesAboveFloor, Info

LEMMA BodiesStep ==
    ASSUME TypeOK, BodiesInv, [Next]_vars
    PROVE  BodiesInv'
<1> USE DEF BodiesInv
<1>0. /\ \A c \in Checkpoints : CpHeight(c) \in Nat \ {0}
      /\ Len(chain) \in Nat /\ settled \subseteq Checkpoints
      /\ fin \in Infos /\ refreshing \in InfosOf(Checkpoints) \cup {NoInfo}
      /\ prunes \subseteq [height : Nat, read : Infos \cup {NoRead}]
  BY BlockTreeAssumption, FinalityAssumption DEF TypeOK, CpHeight
\* What was settled stays so, as long as nothing leaves the set.
<1>1. ASSUME NEW h, WasSettled(h), settled \subseteq settled' PROVE WasSettled(h)'
  BY <1>1 DEF WasSettled, CpHeight
<1>2. ASSUME UNCHANGED <<chain, bodies, settled>> PROVE BodiesAboveFloor'
  BY <1>2 DEF BodiesAboveFloor, CpHeight
<1>3. ASSUME UNCHANGED <<chain, bodies, settled, fin, refreshing, prunes>>
      PROVE  BodiesInv'
  BY <1>1, <1>2, <1>3 DEF WasSettled, CpHeight
<1>4. ASSUME NEW first \in 1..Len(chain), FindFork(first) PROVE BodiesInv'
  BY <1>3, <1>4 DEF FindFork
<1>5. ASSUME NEW first \in 1..Len(chain), NEW blk \in Blocks, CommitBlock(first, blk)
      PROVE  BodiesInv'
  <2>1. UNCHANGED <<settled, fin, refreshing, prunes>>
    BY <1>5 DEF CommitBlock
  <2>2. Len(chain') = first + 1
    <3>1. chain' = Replaced(chain, first, blk) /\ chain \in Seq(Blocks)
      BY <1>5 DEF CommitBlock, TypeOK
    <3> QED
      BY <3>1, ReplacedLemma
  <2>3. bodies' = {h \in bodies : h < first} \cup {first}
    BY <1>5 DEF CommitBlock
  <2>4. ASSUME NEW h \in 0..(Len(chain') - 1)
        PROVE  h \in bodies' \/ \E c \in settled' : h < CpHeight(c)'
    <3>1. CASE h = first
      BY <2>3, <3>1
    <3>2. CASE h < first
      <4>1. h \in bodies \/ \E c \in settled : h < CpHeight(c)
        BY <1>0, <3>2 DEF BodiesAboveFloor
      <4> QED
        BY <2>1, <2>3, <3>2, <4>1 DEF CpHeight
    <3> QED
      BY <2>2, <3>1, <3>2
  <2>5. BodiesAboveFloor'
    BY <2>4 DEF BodiesAboveFloor
  <2> QED
    BY <1>1, <2>1, <2>5 DEF WasSettled, CpHeight
<1>6. ASSUME NEW c \in Checkpoints, AddRecord(c) PROVE BodiesInv'
  BY <1>3, <1>6 DEF AddRecord
<1>7. CASE RefreshFloor
  <2>1. UNCHANGED <<chain, bodies, settled, fin, prunes>>
    BY <1>7 DEF RefreshFloor
  <2>2. CASE refreshing' = refreshing
    BY <1>3, <2>1, <2>2
  <2>3. ASSUME NEW c, NEW low,
               refreshing' = Info(CpHeight(c), c, CpHeight(low), fin.prunedBelow)
        PROVE  BodiesInv'
    <3>1. refreshing'.floor = CpHeight(refreshing'.checkpoint)
      BY <2>3 DEF Info
    <3> QED
      BY <1>1, <1>2, <2>1, <3>1 DEF WasSettled, CpHeight
  <2> QED
    BY <1>7, <2>2, <2>3 DEF RefreshFloor
<1>8. CASE RecordFloor
  <2>1. /\ refreshing # NoInfo /\ fin' = refreshing /\ refreshing' = NoInfo
        /\ settled' = settled \cup {refreshing.checkpoint}
        /\ prunes' \subseteq prunes \cup {[height |-> refreshing.floor, read |-> NoRead]}
        /\ UNCHANGED <<chain, bodies>>
    BY <1>8 DEF RecordFloor, Idle
  <2>2. WasSettled(fin.floor)'
    <3>1. CpHeight(refreshing.checkpoint) \in Nat
      BY <1>0, <2>1 DEF InfosOf
    <3>2. fin'.floor = CpHeight(refreshing.checkpoint)
      BY <2>1
    <3> QED
      BY <2>1, <3>1, <3>2 DEF WasSettled, CpHeight
  <2>3. BodiesAboveFloor'
    BY <2>1 DEF BodiesAboveFloor, CpHeight
  <2>4. ASSUME NEW t \in prunes', t.read # NoRead PROVE WasSettled(t.read.floor)'
    <3>1. t \in prunes
      BY <2>1, <2>4
    <3> QED
      BY <1>1, <2>1, <2>4, <3>1
  <2> QED
    BY <2>1, <2>2, <2>3, <2>4 DEF WasSettled, CpHeight
<1>9. CASE RecordFails
  <2>1. UNCHANGED <<chain, bodies, settled, fin, prunes>> /\ refreshing' = NoInfo
    BY <1>9 DEF RecordFails
  <2> QED
    BY <1>1, <1>2, <2>1 DEF WasSettled, CpHeight
<1>10. ASSUME NEW t \in prunes, PruneRead(t) PROVE BodiesInv'
  <2>1. /\ UNCHANGED <<chain, bodies, settled, fin, refreshing>>
        /\ prunes' = (prunes \ {t}) \cup {[t EXCEPT !.read = fin]}
    BY <1>10 DEF PruneRead
  <2>2. ASSUME NEW u \in prunes', u.read # NoRead PROVE WasSettled(u.read.floor)
    <3>1. CASE u \in prunes
      BY <2>2, <3>1
    <3>2. CASE u = [t EXCEPT !.read = fin]
      <4>1. u.read = fin
        BY <1>0, <3>2
      <4> QED
        BY <4>1
    <3> QED
      BY <2>1, <3>1, <3>2
  <2> QED
    BY <1>1, <1>2, <2>1, <2>2 DEF WasSettled, CpHeight
<1>11. ASSUME NEW t \in prunes, PruneWrite(t) PROVE BodiesInv'
  <2>1. /\ UNCHANGED <<chain, settled, refreshing>> /\ prunes' = prunes \ {t}
        /\ t.read # NoRead
        /\ bodies' = {h \in bodies : h >= PrunesBelow(t)}
        /\ fin' = [t.read EXCEPT !.prunedBelow = AtLeast(@, PrunesBelow(t))]
    BY <1>11 DEF PruneWrite
  <2>2. t.read \in Infos /\ t.height \in Nat /\ t.read.floor \in Nat
    BY <1>0, <2>1 DEF Infos, InfosOf
  <2>3. fin'.floor = t.read.floor /\ WasSettled(t.read.floor)
    BY <2>1, <2>2 DEF Infos, InfosOf
  <2>4. PrunesBelow(t) \in Nat /\ PrunesBelow(t) <= t.read.floor
    BY <2>2 DEF PrunesBelow, AtMost
  <2>5. ASSUME NEW h \in 0..(Len(chain') - 1)
        PROVE  h \in bodies' \/ \E c \in settled' : h < CpHeight(c)'
    <3>1. h \in bodies \/ \E c \in settled : h < CpHeight(c)
      BY <2>1 DEF BodiesAboveFloor
    <3>2. CASE h >= PrunesBelow(t)
      BY <2>1, <3>1, <3>2 DEF CpHeight
    <3>3. CASE h < PrunesBelow(t)
      <4>1. t.read.floor # 0 /\ h < t.read.floor
        BY <1>0, <2>1, <2>2, <2>4, <3>3
      <4>2. PICK c \in settled : t.read.floor <= CpHeight(c)
        BY <2>3, <4>1 DEF WasSettled
      <4>3. CpHeight(c) \in Nat
        BY <1>0
      <4>4. h < CpHeight(c)
        BY <1>0, <2>1, <2>2, <4>1, <4>2, <4>3
      <4> QED
        BY <2>1, <4>4 DEF CpHeight
    <3> QED
      BY <1>0, <2>1, <2>4, <3>2, <3>3
  <2>6. BodiesAboveFloor'
    BY <2>5 DEF BodiesAboveFloor
  <2>7. WasSettled(fin.floor)'
    BY <1>1, <2>1, <2>3
  <2> QED
    BY <1>1, <2>1, <2>6, <2>7 DEF WasSettled, CpHeight
<1>12. CASE Restart
  <2>1. UNCHANGED <<chain, bodies, settled, fin>> /\ refreshing' = NoInfo /\ prunes' = {}
    BY <1>12 DEF Restart
  <2> QED
    BY <1>1, <1>2, <2>1 DEF WasSettled, CpHeight
<1>13. CASE UNCHANGED vars
  BY <1>3, <1>13 DEF vars
<1> QED
  BY <1>4, <1>5, <1>6, <1>7, <1>8, <1>9, <1>10, <1>11, <1>12, <1>13 DEF Next, Steps

\* A body is missing only below a height that was settled: with pruning tasks
\* racing each other, refresh_floor and restarts, none takes the body of a
\* block that could still be replaced (Storage::prune_bodies_below).
THEOREM BodiesHold == Spec => []BodiesAboveFloor
<1>1. Spec => []TypeOK
  BY TypeCorrect
<1>2. Init => BodiesInv
  BY BodiesInit
<1>3. TypeOK /\ BodiesInv /\ [Next]_vars => BodiesInv'
  BY BodiesStep
<1>4. BodiesInv => BodiesAboveFloor
  BY DEF BodiesInv
<1> QED
  BY <1>1, <1>2, <1>3, <1>4, PTL DEF Spec

------------------------------------------------------------------------------
(***************************************************************************)
(* DoorsKept is not inductive: the peers connected in a subnet are bounded *)
(* by its slots, and a slot is given back by the last connection of the    *)
(* subnet it is of, so all connections of a peer have to be of that subnet *)
(* unless the peer roamed.                                                 *)
(***************************************************************************)

Conn == [addr : Addrs, dialled : BOOLEAN, closing : BOOLEAN]
Endpoint == [addr : Addrs, dialled : BOOLEAN]
AllClosing(cs) == \A i \in DOMAIN cs : cs[i].closing

\* Connections of a peer are at its addresses, and the endpoint is one of them.
DoorsTyped ==
    /\ conns \in [Contacts -> Seq(Conn)]
    /\ connected \in [Contacts -> Endpoint \cup {Nobody}]
    /\ slots \in [Subnets -> SUBSET Contacts]
    /\ roamed \subseteq Contacts /\ late \subseteq Contacts

BansTyped ==
    /\ DOMAIN bans = Contacts
    /\ \A p \in Contacts : \E l, e, t : bans[p] = [left |-> l, ended |-> e, times |-> t]

SlotsBounded ==
    \A s \in Subnets : IsFiniteSet(slots[s]) /\ Cardinality(slots[s]) <= MaxPerSubnet
InboundBounded == IsFiniteSet(Inbound) /\ Cardinality(Inbound) <= MaxInbound
HoldsSlot(p) ==
    IsConnected(p) => conns[p] # <<>> /\ p \in slots[SubnetOf[connected[p].addr]]
SlotIsUsed(p) ==
    p \notin roamed => \A s \in Subnets : p \in slots[s] =>
        conns[p] # <<>> /\ \A i \in DOMAIN conns[p] : SubnetOf[conns[p][i].addr] = s
Counted(p) == Uncounted(p) => p \in late
BannedIsCut(p) == IsBanned(p) => AllClosing(conns[p])
Kept(p) == HoldsSlot(p) /\ SlotIsUsed(p) /\ Counted(p) /\ BannedIsCut(p)

Inv == /\ DoorsTyped /\ BansTyped /\ SlotsBounded /\ InboundBounded
       /\ \A p \in Contacts : Kept(p)

\* The invariant is what the property asks.
LEMMA InvSays == ASSUME PeersAssumption, Inv PROVE DoorsKept
<1>1. ASSUME NEW s \in Subnets
      PROVE  Cardinality({p \in Contacts : IsConnected(p) /\ SubnetOf[connected[p].addr] = s})
                 <= MaxPerSubnet
  <2> DEFINE there == {p \in Contacts : IsConnected(p) /\ SubnetOf[connected[p].addr] = s}
  <2>1. there \subseteq slots[s]
    BY DEF Inv, Kept, HoldsSlot
  <2>2. IsFiniteSet(slots[s]) /\ Cardinality(slots[s]) <= MaxPerSubnet
    BY DEF Inv, SlotsBounded
  <2>3. IsFiniteSet(there) /\ Cardinality(there) <= Cardinality(slots[s])
    BY <2>1, <2>2, FS_Subset
  <2>4. Cardinality(there) \in Nat /\ Cardinality(slots[s]) \in Nat /\ MaxPerSubnet \in Nat
    BY <2>2, <2>3, FS_CardinalityType DEF PeersAssumption
  <2> QED BY <2>2, <2>3, <2>4
<1>2. Cardinality(Inbound) <= MaxInbound
  BY DEF Inv, InboundBounded
<1>3. ASSUME NEW p \in Contacts
      PROVE  /\ IsConnected(p) => conns[p] # <<>> /\ p \in slots[SubnetOf[connected[p].addr]]
             /\ conns[p] = <<>> /\ p \notin roamed => \A s \in Subnets : p \notin slots[s]
             /\ Uncounted(p) => p \in late
             /\ IsBanned(p) => \A i \in DOMAIN conns[p] : conns[p][i].closing
  BY DEF Inv, Kept, HoldsSlot, SlotIsUsed, Counted, BannedIsCut, AllClosing
<1> QED BY <1>1, <1>2, <1>3 DEF DoorsKept

------------------------------------------------------------------------------
LEMMA Limits == ASSUME PeersAssumption PROVE MaxPerSubnet \in Nat \ {0} /\ MaxInbound \in Nat
<1>1. MaxPerSubnet \in {MaxPerSubnet, FailuresToDrop, PickAtOnce, BaseBan}
  OBVIOUS
<1>2. MaxInbound \in {MaxInbound, MaxProven, MaxHeard, MaxBan, ForgetAfter}
  OBVIOUS
<1> QED BY <1>1, <1>2 DEF PeersAssumption

\* With nobody connected, nothing is held.
LEMMA Empty ==
  ASSUME PeersAssumption, DoorsTyped, BansTyped,
         \A p \in Contacts : conns[p] = <<>> /\ connected[p] = Nobody /\ bans[p] = NoRecord,
         \A s \in Subnets : slots[s] = {}
  PROVE  Inv
<1>1. SlotsBounded
  <2>1. ASSUME NEW s \in Subnets
        PROVE  IsFiniteSet(slots[s]) /\ Cardinality(slots[s]) = 0
    <3>1. slots[s] = {}
      OBVIOUS
    <3> QED BY <3>1, FS_EmptySet
  <2> QED BY <2>1, Limits DEF SlotsBounded
<1>2. InboundBounded
  <2>1. Inbound = {}
    BY DEF Inbound, IsConnected
  <2> QED BY <2>1, FS_EmptySet, Limits DEF InboundBounded
<1>3. ASSUME NEW p \in Contacts
      PROVE  Kept(p)
  BY DEF Kept, HoldsSlot, SlotIsUsed, Counted, BannedIsCut, IsConnected, IsBanned, Uncounted,
         AllClosing, NoRecord
<1> QED BY <1>1, <1>2, <1>3 DEF Inv

LEMMA InvInit == ASSUME PeersAssumption, PeersInit PROVE Inv
<1>1. DoorsTyped
  BY DEF PeersInit, Opened, DoorsTyped
<1>2. BansTyped
  BY DEF PeersInit, Opened, BansTyped, NoRecord
<1> QED BY <1>1, <1>2, Empty DEF PeersInit, Opened

LEMMA RestartKeeps == ASSUME PeersAssumption, Inv, RestartDoors PROVE Inv'
<1>1. DoorsTyped'
  BY DEF RestartDoors, Opened, DoorsTyped
<1>2. BansTyped'
  BY DEF RestartDoors, Opened, BansTyped, NoRecord
<1>3. /\ \A p \in Contacts : conns'[p] = <<>> /\ connected'[p] = Nobody /\ bans'[p] = NoRecord
      /\ \A s \in Subnets : slots'[s] = {}
  BY DEF RestartDoors, Opened
<1>4. SlotsBounded'
  <2>1. ASSUME NEW s \in Subnets
        PROVE  IsFiniteSet(slots'[s]) /\ Cardinality(slots'[s]) = 0
    <3>1. slots'[s] = {}
      BY <1>3
    <3> QED BY <3>1, FS_EmptySet
  <2> QED BY <2>1, Limits DEF SlotsBounded
<1>5. InboundBounded'
  <2>1. Inbound' = {}
    BY <1>3 DEF Inbound, IsConnected
  <2> QED BY <2>1, FS_EmptySet, Limits DEF InboundBounded
<1>6. ASSUME NEW p \in Contacts
      PROVE  Kept(p)'
  BY <1>3 DEF Kept, HoldsSlot, SlotIsUsed, Counted, BannedIsCut, IsConnected, IsBanned,
         Uncounted, AllClosing, NoRecord
<1> QED BY <1>1, <1>2, <1>4, <1>5, <1>6 DEF Inv

------------------------------------------------------------------------------
\* Dials, the book and what is saved are not behind the doors.
Inside == <<conns, connected, slots, roamed, late>>

LEMMA BooksKeep == ASSUME Inv, UNCHANGED Inside, UNCHANGED bans PROVE Inv'
BY DEF Inv, Inside, DoorsTyped, BansTyped, SlotsBounded, InboundBounded, Inbound, Kept,
       HoldsSlot, SlotIsUsed, Counted, BannedIsCut, IsConnected, IsBanned, Uncounted, AllClosing

\* Time ends bans and begins none.
LEMMA TickKeeps == ASSUME Inv, Tick PROVE Inv'
<1>1. UNCHANGED Inside
  BY DEF Tick, Inside, doors, ghosts
<1>2. BansTyped'
  <2>1. ASSUME NEW p \in Contacts
        PROVE  \E l, e, t : bans'[p] = [left |-> l, ended |-> e, times |-> t]
    <3>1. PICK l, e, t : bans[p] = [left |-> l, ended |-> e, times |-> t]
      BY DEF Inv, BansTyped
    <3>2. \/ bans'[p] = [bans[p] EXCEPT !.left = @ - 1]
          \/ bans'[p] = [bans[p] EXCEPT !.ended = @ + 1]
          \/ bans'[p] = NoRecord
      BY DEF Tick
    <3> QED BY <3>1, <3>2 DEF NoRecord
  <2> QED BY <2>1 DEF Tick, BansTyped
<1>3. ASSUME NEW p \in Contacts, IsBanned(p)'
      PROVE  IsBanned(p)
  <2>1. PICK l, e, t : bans[p] = [left |-> l, ended |-> e, times |-> t]
    BY DEF Inv, BansTyped
  <2>2. \/ bans[p].left > 0
        \/ bans'[p] = [bans[p] EXCEPT !.ended = @ + 1]
        \/ bans'[p] = NoRecord
    BY DEF Tick
  <2>3. CASE bans'[p] = [bans[p] EXCEPT !.ended = @ + 1]
    <3>1. bans'[p].left = bans[p].left
      BY <2>1, <2>3
    <3> QED BY <1>3, <3>1 DEF IsBanned
  <2>4. CASE bans'[p] = NoRecord
    BY <1>3, <2>4 DEF IsBanned, NoRecord
  <2> QED BY <2>2, <2>3, <2>4 DEF IsBanned
<1>4. ASSUME NEW p \in Contacts
      PROVE  Kept(p)'
  <2>1. Kept(p)
    BY DEF Inv
  <2>2. HoldsSlot(p)' /\ SlotIsUsed(p)'
    BY <1>1, <2>1 DEF Inside, Kept, HoldsSlot, SlotIsUsed, IsConnected
  <2>3. BannedIsCut(p)'
    BY <1>1, <1>3, <2>1 DEF Inside, Kept, BannedIsCut, AllClosing
  <2>4. Counted(p)'
    \* A ban that ends leaves no connection that stays.
    BY <1>1, <2>1 DEF Inside, Kept, Counted, BannedIsCut, AllClosing, Uncounted, IsConnected
  <2> QED BY <2>2, <2>3, <2>4 DEF Kept
<1>5. (DoorsTyped /\ SlotsBounded /\ InboundBounded)'
  BY <1>1 DEF Inv, Inside, DoorsTyped, SlotsBounded, InboundBounded, Inbound, IsConnected
<1> QED BY <1>2, <1>4, <1>5 DEF Inv

------------------------------------------------------------------------------
\* A step behind the doors that concerns one peer: the others are as they were.
OnlyOf(p) ==
    \A q \in Contacts \ {p} :
        /\ conns'[q] = conns[q] /\ connected'[q] = connected[q] /\ bans'[q] = bans[q]
        /\ q \in roamed' <=> q \in roamed
        /\ q \in late' <=> q \in late
        /\ \A s \in Subnets : q \in slots'[s] <=> q \in slots[s]

LEMMA OthersKept ==
  ASSUME PeersAssumption, Inv, NEW p \in Contacts, OnlyOf(p), NEW q \in Contacts \ {p}
  PROVE  Kept(q)'
<1>1. Kept(q)
  BY DEF Inv
<1>2. HoldsSlot(q)'
  <2>1. IsConnected(q) => SubnetOf[connected[q].addr] \in Subnets
    BY DEF Inv, DoorsTyped, IsConnected, PeersAssumption, Endpoint
  <2> QED BY <1>1, <2>1 DEF Kept, HoldsSlot, OnlyOf, IsConnected
<1>3. SlotIsUsed(q)'
  BY <1>1 DEF Kept, SlotIsUsed, OnlyOf
<1>4. Counted(q)' /\ BannedIsCut(q)'
  BY <1>1 DEF Kept, Counted, BannedIsCut, OnlyOf, Uncounted, IsConnected, IsBanned, AllClosing
<1> QED BY <1>2, <1>3, <1>4 DEF Kept

\* Closing what is open with a peer.
LEMMA ClosingIs ==
  ASSUME NEW cs \in Seq(Conn)
  PROVE  /\ Closing(cs) \in Seq(Conn) /\ DOMAIN Closing(cs) = DOMAIN cs
         /\ Closing(cs) = <<>> <=> cs = <<>>
         /\ \A i \in DOMAIN cs : /\ Closing(cs)[i].closing
                                 /\ Closing(cs)[i].addr = cs[i].addr
<1>1. DOMAIN cs = 1..Len(cs) /\ Len(cs) \in Nat
  OBVIOUS
<1>2. ASSUME NEW i \in 1..Len(cs)
      PROVE  [cs[i] EXCEPT !.closing = TRUE] \in Conn
  <2>1. cs[i] \in Conn
    OBVIOUS
  <2> QED BY <2>1 DEF Conn
<1>3. Closing(cs) \in [1..Len(cs) -> Conn]
  BY <1>1, <1>2 DEF Closing
<1>4. Closing(cs) \in Seq(Conn) /\ Len(Closing(cs)) = Len(cs)
  BY <1>1, <1>3
<1>5. ASSUME NEW i \in DOMAIN cs
      PROVE  Closing(cs)[i].closing /\ Closing(cs)[i].addr = cs[i].addr
  <2>1. cs[i] \in Conn /\ Closing(cs)[i] = [cs[i] EXCEPT !.closing = TRUE]
    BY <1>1 DEF Closing
  <2> QED BY <2>1 DEF Conn
<1>6. Closing(cs) = <<>> <=> cs = <<>>
  BY <1>1, <1>4
<1> QED BY <1>1, <1>3, <1>4, <1>5, <1>6

\* A ban closes what is open with the peer, and sets its record.
LEMMA BanForKeeps ==
  ASSUME PeersAssumption, Inv, NEW p \in Contacts, NEW base, BanFor(p, base),
         UNCHANGED <<connected, slots, roamed, late>>
  PROVE  Inv'
<1>1. conns \in [Contacts -> Seq(Conn)] /\ conns[p] \in Seq(Conn)
  BY DEF Inv, DoorsTyped
<1>2. conns' = [conns EXCEPT ![p] = Closing(conns[p])]
  BY DEF BanFor, Disconnect
<1>3. /\ Closing(conns[p]) \in Seq(Conn) /\ DOMAIN Closing(conns[p]) = DOMAIN conns[p]
      /\ Closing(conns[p]) = <<>> <=> conns[p] = <<>>
      /\ \A i \in DOMAIN conns[p] : /\ Closing(conns[p])[i].closing
                                    /\ Closing(conns[p])[i].addr = conns[p][i].addr
  BY <1>1, ClosingIs
<1>4. conns' \in [Contacts -> Seq(Conn)] /\ conns'[p] = Closing(conns[p])
      /\ \A q \in Contacts \ {p} : conns'[q] = conns[q]
  BY <1>1, <1>2, <1>3
<1>5. BansTyped' /\ \A q \in Contacts \ {p} : bans'[q] = bans[q]
  <2>1. CASE UNCHANGED bans
    BY <2>1 DEF Inv, BansTyped
  <2>2. CASE bans' = [bans EXCEPT ![p] = BanOf(bans[p], base)]
    <3>1. PICK l, e, t : BanOf(bans[p], base) = [left |-> l, ended |-> e, times |-> t]
      BY DEF BanOf
    <3>2. DOMAIN bans = Contacts
      BY DEF Inv, BansTyped
    <3>3. DOMAIN bans' = Contacts /\ bans'[p] = [left |-> l, ended |-> e, times |-> t]
          /\ \A q \in Contacts \ {p} : bans'[q] = bans[q]
      BY <2>2, <3>1, <3>2
    <3>4. ASSUME NEW q \in Contacts
          PROVE  \E f, g, h : bans'[q] = [left |-> f, ended |-> g, times |-> h]
      <4>1. CASE q = p
        BY <3>3, <4>1
      <4>2. CASE q # p
        BY <3>3, <4>2 DEF Inv, BansTyped
      <4> QED BY <4>1, <4>2
    <3> QED BY <3>3, <3>4 DEF BansTyped
  <2> QED BY <2>1, <2>2 DEF BanFor
<1>6. OnlyOf(p)
  BY <1>4, <1>5 DEF OnlyOf
<1>7. Kept(p)'
  <2>1. Kept(p)
    BY DEF Inv
  <2>2. HoldsSlot(p)' /\ SlotIsUsed(p)'
    BY <1>3, <1>4, <2>1 DEF Kept, HoldsSlot, SlotIsUsed, IsConnected
  <2>3. AllClosing(conns'[p])
    BY <1>3, <1>4 DEF AllClosing
  <2> QED BY <2>2, <2>3 DEF Kept, Counted, BannedIsCut, Uncounted, AllClosing
<1>8. (DoorsTyped /\ SlotsBounded /\ InboundBounded)'
  BY <1>4 DEF Inv, DoorsTyped, SlotsBounded, InboundBounded, Inbound, IsConnected
<1> QED BY <1>5, <1>6, <1>7, <1>8, OthersKept DEF Inv

------------------------------------------------------------------------------
\* One more in a set, or one less.
LEMMA OneIn ==
  ASSUME NEW S, IsFiniteSet(S), NEW x, NEW n \in Nat, Cardinality(S) <= n,
         x \in S \/ Cardinality(S) < n
  PROVE  IsFiniteSet(S \cup {x}) /\ Cardinality(S \cup {x}) <= n
<1>1. Cardinality(S) \in Nat
  BY FS_CardinalityType
<1>2. CASE x \in S
  <2>1. S \cup {x} = S
    BY <1>2
  <2> QED BY <2>1
<1>3. CASE x \notin S
  <2>1. IsFiniteSet(S \cup {x}) /\ Cardinality(S \cup {x}) = Cardinality(S) + 1
    BY <1>3, FS_AddElement
  <2> QED BY <1>1, <1>3, <2>1
<1> QED BY <1>2, <1>3

LEMMA OneOut ==
  ASSUME NEW S, IsFiniteSet(S), NEW T, T \subseteq S, NEW n \in Nat, Cardinality(S) <= n
  PROVE  IsFiniteSet(T) /\ Cardinality(T) <= n
<1>1. IsFiniteSet(T) /\ Cardinality(T) <= Cardinality(S)
  BY FS_Subset
<1>2. Cardinality(S) \in Nat /\ Cardinality(T) \in Nat
  BY <1>1, FS_CardinalityType
<1> QED BY <1>1, <1>2

\* A connection that opens.
LEMMA EstablishedKeeps ==
  ASSUME PeersAssumption, Inv, NEW c \in Conn, ~c.closing, Established(c)
  PROVE  Inv'
<1> DEFINE p == PeerOf[c.addr]
           s == SubnetOf[c.addr]
           all == Append(conns[p], c)
           refused == IsBanned(p) \/ (Len(all) = 1 /\ (Full(s, p) \/ InboundFull(c)))
<1>1. p \in Contacts /\ s \in Subnets /\ c.addr \in Addrs /\ c.dialled \in BOOLEAN
  BY DEF Conn, PeersAssumption
<1>2. /\ conns \in [Contacts -> Seq(Conn)] /\ conns[p] \in Seq(Conn)
      /\ connected \in [Contacts -> Endpoint \cup {Nobody}]
      /\ slots \in [Subnets -> SUBSET Contacts] /\ roamed \subseteq Contacts /\ late \subseteq Contacts
  BY <1>1 DEF Inv, DoorsTyped
<1>3. PICK n \in Nat : n = Len(conns[p])
  BY <1>2
<1>4. /\ all \in Seq(Conn) /\ Len(all) = n + 1 /\ DOMAIN all = 1..(n + 1) /\ DOMAIN conns[p] = 1..n
      /\ all[n + 1] = c /\ (\A i \in 1..n : all[i] = conns[p][i]) /\ all # <<>>
  <2>1. PICK cs \in Seq(Conn) : cs = conns[p]
    BY <1>2
  <2>2. Len(cs) = n /\ DOMAIN cs = 1..n
    BY <1>3, <2>1
  <2>3. all = Append(cs, c)
    BY <2>1
  <2> HIDE DEF all
  <2>4. all \in Seq(Conn) /\ Len(all) = n + 1 /\ DOMAIN all = 1..(n + 1)
    BY <2>2, <2>3
  <2>5. all[n + 1] = c /\ \A i \in 1..n : all[i] = cs[i]
    BY <2>2, <2>3
  <2>6. all # <<>>
    BY <2>4
  <2> QED BY <2>1, <2>2, <2>4, <2>5, <2>6
<1>5. /\ late' = IF Len(all) > 1 /\ ~IsConnected(p) /\ ~IsBanned(p) THEN late \cup {p} ELSE late
      /\ roamed' = IF \E i \in DOMAIN all : SubnetOf[all[i].addr] # s THEN roamed \cup {p} ELSE roamed
      /\ UNCHANGED bans
  BY DEF Established
<1>6. PICK after :
         /\ conns' = [conns EXCEPT ![p] = after]
         /\ after \in Seq(Conn) /\ DOMAIN after = 1..(n + 1) /\ after # <<>>
         /\ \A i \in 1..(n + 1) : after[i].addr = all[i].addr
         /\ IF refused THEN \A i \in 1..(n + 1) : after[i].closing ELSE after = all
  <2>1. CASE refused
    <3>1. conns' = [conns EXCEPT ![p] = Closing(all)]
      BY <2>1 DEF Established
    <3>2. /\ Closing(all) \in Seq(Conn) /\ DOMAIN Closing(all) = 1..(n + 1)
          /\ Closing(all) # <<>>
          /\ \A i \in 1..(n + 1) : Closing(all)[i].closing /\ Closing(all)[i].addr = all[i].addr
      BY <1>4, ClosingIs
    <3> QED BY <2>1, <3>1, <3>2
  <2>2. CASE ~refused
    <3>1. conns' = [conns EXCEPT ![p] = all]
      BY <2>2 DEF Established
    <3> QED BY <2>2, <3>1, <1>4
  <2> QED BY <2>1, <2>2
<1>7. /\ conns' \in [Contacts -> Seq(Conn)] /\ conns'[p] = after
      /\ \A q \in Contacts \ {p} : conns'[q] = conns[q]
  BY <1>1, <1>2, <1>6
\* The first connection takes a slot, if there is one, though the peer is not
\* counted when too many came of themselves.
<1>8. \/ slots' = slots
      \/ n = 0 /\ ~Full(s, p) /\ slots' = [slots EXCEPT ![s] = slots[s] \cup {p}]
  <2>1. CASE refused
    <3>1. slots' = IF IsBanned(p) \/ Full(s, p) THEN slots
                   ELSE [slots EXCEPT ![s] = slots[s] \cup {p}]
      BY <2>1 DEF Established
    <3>2. IsBanned(p) \/ n = 0
      BY <1>4, <2>1
    <3> QED BY <3>1, <3>2
  <2>2. CASE ~refused
    <3>1. IF Len(all) = 1 THEN slots' = [slots EXCEPT ![s] = slots[s] \cup {p}]
                          ELSE slots' = slots
      BY <2>2 DEF Established
    <3>2. Len(all) = 1 => n = 0 /\ ~Full(s, p)
      BY <1>4, <2>2
    <3> QED BY <3>1, <3>2
  <2> QED BY <2>1, <2>2
<1>9. \/ UNCHANGED connected /\ (refused \/ n # 0)
      \/ /\ n = 0 /\ ~refused /\ slots' = [slots EXCEPT ![s] = slots[s] \cup {p}]
         /\ connected' = [connected EXCEPT ![p] = [addr |-> c.addr, dialled |-> c.dialled]]
  BY <1>4 DEF Established
<1> HIDE DEF p, s, all, refused
<1>10. [addr |-> c.addr, dialled |-> c.dialled] \in Endpoint
  BY <1>1 DEF Endpoint
<1>11. slots' \in [Subnets -> SUBSET Contacts]
  BY <1>1, <1>2, <1>8
<1>12. DoorsTyped'
  BY <1>1, <1>2, <1>5, <1>7, <1>9, <1>10, <1>11 DEF DoorsTyped
<1>13. OnlyOf(p)
  <2>1. ASSUME NEW q \in Contacts \ {p}
        PROVE  /\ conns'[q] = conns[q] /\ connected'[q] = connected[q] /\ bans'[q] = bans[q]
               /\ q \in roamed' <=> q \in roamed
               /\ q \in late' <=> q \in late
    BY <1>1, <1>2, <1>5, <1>7, <1>9
  <2>2. ASSUME NEW q \in Contacts \ {p}, NEW t \in Subnets
        PROVE  q \in slots'[t] <=> q \in slots[t]
    BY <1>1, <1>2, <1>8
  <2> QED BY <2>1, <2>2 DEF OnlyOf
<1>14. SlotsBounded'
  <2>1. ASSUME NEW t \in Subnets
        PROVE  IsFiniteSet(slots'[t]) /\ Cardinality(slots'[t]) <= MaxPerSubnet
    <3>1. IsFiniteSet(slots[t]) /\ Cardinality(slots[t]) <= MaxPerSubnet
      BY DEF Inv, SlotsBounded
    <3>2. CASE slots'[t] = slots[t]
      BY <3>1, <3>2
    <3>3. CASE t = s /\ ~Full(s, p) /\ slots'[t] = slots[t] \cup {p}
      <4>1. Cardinality(slots[t]) \in Nat /\ MaxPerSubnet \in Nat
        BY <3>1, FS_CardinalityType, Limits
      <4>2. p \in slots[t] \/ Cardinality(slots[t]) < MaxPerSubnet
        BY <3>3, <4>1 DEF Full
      <4>3. IsFiniteSet(slots[t] \cup {p}) /\ Cardinality(slots[t] \cup {p}) <= MaxPerSubnet
        BY <3>1, <4>1, <4>2, OneIn
      <4> QED BY <3>3, <4>3
    <3> QED BY <1>1, <1>2, <1>8, <3>2, <3>3
  <2> QED BY <2>1 DEF SlotsBounded
<1>15. InboundBounded'
  <2>1. IsFiniteSet(Inbound) /\ Cardinality(Inbound) <= MaxInbound /\ MaxInbound \in Nat
    BY Limits DEF Inv, InboundBounded
  <2>2. CASE UNCHANGED connected
    BY <2>1, <2>2 DEF InboundBounded, Inbound, IsConnected
  <2>3. CASE /\ n = 0 /\ ~refused
             /\ connected' = [connected EXCEPT ![p] = [addr |-> c.addr, dialled |-> c.dialled]]
    <3>1. ~InboundFull(c)
      BY <1>4, <2>3 DEF refused
    <3>2. connected'[p] = [addr |-> c.addr, dialled |-> c.dialled]
          /\ \A q \in Contacts \ {p} : connected'[q] = connected[q]
      BY <1>1, <1>2, <2>3
    <3>3. CASE c.dialled
      <4>1. Inbound' \subseteq Inbound
        BY <3>2, <3>3 DEF Inbound, IsConnected
      <4> QED BY <2>1, <4>1, OneOut DEF InboundBounded
    <3>4. CASE ~c.dialled
      <4>1. Inbound' \subseteq Inbound \cup {p}
        BY <3>2 DEF Inbound, IsConnected
      <4>2. Cardinality(Inbound) \in Nat
        BY <2>1, FS_CardinalityType
      <4>3. Cardinality(Inbound) < MaxInbound
        BY <2>1, <3>1, <3>4, <4>2 DEF InboundFull
      <4>4. IsFiniteSet(Inbound \cup {p}) /\ Cardinality(Inbound \cup {p}) <= MaxInbound
        BY <2>1, <4>3, OneIn
      <4> QED BY <2>1, <4>1, <4>4, OneOut DEF InboundBounded
    <3> QED BY <3>3, <3>4
  <2> QED BY <1>9, <2>2, <2>3
<1>16. Kept(p)
  BY <1>1 DEF Inv
<1>17. \A t \in Subnets : slots[t] \subseteq slots'[t]
  BY <1>1, <1>2, <1>8
<1>18. HoldsSlot(p)'
  <2>1. CASE UNCHANGED connected
    <3>1. ASSUME IsConnected(p)
          PROVE  SubnetOf[connected[p].addr] \in Subnets
      BY <1>1, <1>2, <3>1 DEF IsConnected, Endpoint, PeersAssumption
    <3> QED BY <1>6, <1>7, <1>16, <1>17, <2>1, <3>1 DEF Kept, HoldsSlot, IsConnected
  <2>2. CASE /\ slots' = [slots EXCEPT ![s] = slots[s] \cup {p}]
             /\ connected' = [connected EXCEPT ![p] = [addr |-> c.addr, dialled |-> c.dialled]]
    <3>1. connected'[p].addr = c.addr /\ p \in slots'[s] /\ SubnetOf[c.addr] = s
      BY <1>1, <1>2, <2>2 DEF s
    <3> QED BY <1>6, <1>7, <3>1 DEF HoldsSlot
  <2> QED BY <1>9, <2>1, <2>2
<1>19. SlotIsUsed(p)'
  <2>1. SUFFICES ASSUME p \notin roamed', NEW t \in Subnets, p \in slots'[t]
                 PROVE  conns'[p] # <<>>
                        /\ \A i \in DOMAIN conns'[p] : SubnetOf[conns'[p][i].addr] = t
    BY DEF SlotIsUsed
  <2>2. p \notin roamed /\ \A i \in 1..(n + 1) : SubnetOf[all[i].addr] = s
    BY <1>4, <1>5, <2>1
  <2>3. \A i \in 1..(n + 1) : SubnetOf[after[i].addr] = s
    BY <1>6, <2>2
  <2>4. t = s
    <3>1. CASE p \in slots[t]
      <4>1. conns[p] # <<>> /\ \A i \in DOMAIN conns[p] : SubnetOf[conns[p][i].addr] = t
        BY <1>16, <2>2, <3>1 DEF Kept, SlotIsUsed
      <4>2. 1 \in 1..n
        BY <1>2, <1>3, <4>1
      <4> QED BY <1>4, <2>2, <4>1, <4>2
    <3>2. CASE p \notin slots[t]
      BY <1>1, <1>2, <1>8, <2>1, <3>2
    <3> QED BY <3>1, <3>2
  <2> QED BY <1>6, <1>7, <2>3, <2>4
<1>20. Counted(p)'
  <2>1. SUFFICES ASSUME Uncounted(p)'
                 PROVE  p \in late'
    BY DEF Counted
  <2>2. ~IsBanned(p) /\ connected'[p] = Nobody /\ \E i \in DOMAIN conns'[p] : ~conns'[p][i].closing
    BY <1>5, <2>1 DEF Uncounted, IsBanned, IsConnected
  <2>3. ~refused
    BY <1>6, <1>7, <2>2
  <2>4. n # 0 /\ UNCHANGED connected
    <3>1. [addr |-> c.addr, dialled |-> c.dialled] # Nobody
      BY <1>10 DEF PeersAssumption, Endpoint
    <3> QED BY <1>1, <1>2, <1>9, <2>2, <2>3, <3>1
  <2>5. Len(all) > 1 /\ ~IsConnected(p)
    BY <1>4, <2>2, <2>4 DEF IsConnected
  <2> QED BY <1>5, <2>2, <2>5
<1>21. BannedIsCut(p)'
  BY <1>5, <1>6, <1>7 DEF BannedIsCut, IsBanned, AllClosing, refused
<1>22. Kept(p)'
  BY <1>18, <1>19, <1>20, <1>21 DEF Kept
<1>23. ASSUME NEW q \in Contacts
       PROVE  Kept(q)'
  BY <1>1, <1>13, <1>22, OthersKept
<1>24. BansTyped'
  BY <1>5 DEF Inv, BansTyped
<1> QED BY <1>12, <1>14, <1>15, <1>23, <1>24 DEF Inv

------------------------------------------------------------------------------
\* A sequence without one of its places.
LEMMA Without ==
  ASSUME NEW cs \in Seq(Conn), NEW i \in DOMAIN cs
  PROVE  /\ RemoveAt(cs, i) \in Seq(Conn) /\ Len(RemoveAt(cs, i)) = Len(cs) - 1
         /\ \A j \in DOMAIN RemoveAt(cs, i) : \E k \in DOMAIN cs : RemoveAt(cs, i)[j] = cs[k]
<1>1. PICK n \in Nat : n = Len(cs)
  OBVIOUS
<1>2. DOMAIN cs = 1..n /\ i \in 1..n
  BY <1>1
<1>3. PICK l : l = SubSeq(cs, 1, i - 1)
  OBVIOUS
<1>4. l \in Seq(Conn) /\ Len(l) = i - 1 /\ \A j \in 1..(i - 1) : l[j] = cs[j]
  BY <1>1, <1>2, <1>3
<1>5. PICK r : r = SubSeq(cs, i + 1, n)
  OBVIOUS
<1>6. r \in Seq(Conn) /\ Len(r) = n - i /\ \A j \in 1..(n - i) : r[j] = cs[i + j]
  <2>1. \A j \in (i + 1)..n : cs[j] \in Conn
    BY <1>1, <1>2
  <2> QED BY <1>1, <1>2, <1>5, <2>1
<1>7. RemoveAt(cs, i) = l \o r
  BY <1>1, <1>3, <1>5 DEF RemoveAt
<1>8. PICK m, k \in Nat : m = i - 1 /\ k = n - i /\ m + k = n - 1
  <2>1. i - 1 \in Nat /\ n - i \in Nat /\ (i - 1) + (n - i) = n - 1
    BY <1>2
  <2> QED BY <2>1
<1>9. Len(l) = m /\ Len(r) = k /\ l \in Seq(Conn) /\ r \in Seq(Conn)
  BY <1>4, <1>6, <1>8
<1>10. PICK both : both = l \o r
  OBVIOUS
<1>11. /\ both \in Seq(Conn) /\ Len(both) = m + k
       /\ \A j \in 1..(m + k) : both[j] = IF j <= m THEN l[j] ELSE r[j - m]
  BY <1>9, <1>10, ConcatProperties
<1>12. ASSUME NEW j \in 1..(m + k)
       PROVE  \E h \in 1..n : both[j] = cs[h]
  <2>1. CASE j <= m
    <3>1. both[j] = l[j] /\ j \in 1..m /\ j \in 1..n
      BY <1>8, <1>11, <2>1
    <3>2. l[j] = cs[j]
      BY <1>4, <1>8, <3>1
    <3> QED BY <3>1, <3>2
  <2>2. CASE j > m
    <3>1. both[j] = r[j - m] /\ j - m \in 1..k
      BY <1>11, <2>2
    <3>2. r[j - m] = cs[i + (j - m)]
      BY <1>6, <1>8, <3>1
    <3>3. \A d \in 1..(n - i) : i + d \in 1..n
      BY <1>2
    <3>4. i + (j - m) \in 1..n
      BY <1>8, <3>1, <3>3
    <3> QED BY <3>1, <3>2, <3>4
  <2> QED BY <2>1, <2>2
<1>13. DOMAIN both = 1..(m + k)
  BY <1>11
<1>14. RemoveAt(cs, i) = both /\ m + k = Len(cs) - 1 /\ DOMAIN cs = 1..n
  BY <1>1, <1>2, <1>7, <1>8, <1>10
<1> QED BY <1>11, <1>12, <1>13, <1>14

\* A connection that closes.
LEMMA ClosedKeeps ==
  ASSUME PeersAssumption, Inv, NEW p \in Contacts, NEW i \in DOMAIN conns[p],
         NEW cut, Closed(p, i, cut)
  PROVE  Inv'
<1>1. /\ conns \in [Contacts -> Seq(Conn)] /\ conns[p] \in Seq(Conn)
      /\ connected \in [Contacts -> Endpoint \cup {Nobody}]
      /\ slots \in [Subnets -> SUBSET Contacts] /\ roamed \subseteq Contacts /\ late \subseteq Contacts
  BY DEF Inv, DoorsTyped
<1>2. PICK left : left = RemoveAt(conns[p], i)
  OBVIOUS
<1>3. PICK s : s = SubnetOf[conns[p][i].addr]
  OBVIOUS
<1>4. left \in Seq(Conn) /\ \A j \in DOMAIN left : \E k \in DOMAIN conns[p] : left[j] = conns[p][k]
  BY <1>1, <1>2, Without
<1>5. s \in Subnets
  <2>1. conns[p][i] \in Conn
    BY <1>1
  <2> QED BY <1>3, <2>1 DEF Conn, PeersAssumption
<1>6. /\ conns' = [conns EXCEPT ![p] = left]
      /\ UNCHANGED <<bans, roamed>>
      /\ \/ /\ left = <<>>
            /\ connected' = [connected EXCEPT ![p] = Nobody]
            /\ slots' = [slots EXCEPT ![s] = slots[s] \ {p}]
            /\ late' = late \ {p}
         \/ left # <<>> /\ UNCHANGED <<connected, slots, late>>
  BY <1>2, <1>3 DEF Closed, Leaves
<1>7. /\ conns' \in [Contacts -> Seq(Conn)] /\ conns'[p] = left
      /\ \A q \in Contacts \ {p} : conns'[q] = conns[q]
  BY <1>1, <1>4, <1>6
<1>8. slots' \in [Subnets -> SUBSET Contacts]
  BY <1>1, <1>5, <1>6
<1>9. connected' \in [Contacts -> Endpoint \cup {Nobody}]
  BY <1>1, <1>6
<1>10. DoorsTyped'
  BY <1>1, <1>6, <1>7, <1>8, <1>9 DEF DoorsTyped
<1>11. BansTyped'
  BY <1>6 DEF Inv, BansTyped
<1>12. OnlyOf(p)
  <2>1. ASSUME NEW q \in Contacts \ {p}
        PROVE  /\ conns'[q] = conns[q] /\ connected'[q] = connected[q] /\ bans'[q] = bans[q]
               /\ q \in roamed' <=> q \in roamed
               /\ q \in late' <=> q \in late
    BY <1>1, <1>6, <1>7
  <2>2. ASSUME NEW q \in Contacts \ {p}, NEW t \in Subnets
        PROVE  q \in slots'[t] <=> q \in slots[t]
    BY <1>1, <1>5, <1>6
  <2> QED BY <2>1, <2>2 DEF OnlyOf
<1>13. SlotsBounded'
  <2>1. ASSUME NEW t \in Subnets
        PROVE  IsFiniteSet(slots'[t]) /\ Cardinality(slots'[t]) <= MaxPerSubnet
    <3>1. IsFiniteSet(slots[t]) /\ Cardinality(slots[t]) <= MaxPerSubnet /\ MaxPerSubnet \in Nat
      BY Limits DEF Inv, SlotsBounded
    <3>2. slots'[t] \subseteq slots[t]
      BY <1>1, <1>5, <1>6
    <3> QED BY <3>1, <3>2, OneOut
  <2> QED BY <2>1 DEF SlotsBounded
<1>14. InboundBounded'
  <2>1. IsFiniteSet(Inbound) /\ Cardinality(Inbound) <= MaxInbound /\ MaxInbound \in Nat
    BY Limits DEF Inv, InboundBounded
  <2>2. Inbound' \subseteq Inbound
    BY <1>1, <1>6 DEF Inbound, IsConnected
  <2> QED BY <2>1, <2>2, OneOut DEF InboundBounded
<1>15. Kept(p)'
  <2>1. Kept(p)
    BY DEF Inv
  <2>2. CASE left = <<>>
    <3>1. connected'[p] = Nobody /\ conns'[p] = <<>> /\ slots'[s] = slots[s] \ {p}
          /\ \A t \in Subnets \ {s} : slots'[t] = slots[t]
      BY <1>1, <1>5, <1>6, <1>7, <2>2
    <3>2. HoldsSlot(p)'
      BY <3>1 DEF HoldsSlot, IsConnected
    <3>3. SlotIsUsed(p)'
      \* Unless it roamed, the only subnet it had a slot of is the connection's.
      BY <1>3, <1>6, <2>1, <3>1 DEF Kept, SlotIsUsed
    <3>4. Counted(p)' /\ BannedIsCut(p)'
      BY <3>1 DEF Counted, Uncounted, BannedIsCut, AllClosing
    <3> QED BY <3>2, <3>3, <3>4 DEF Kept
  <2>3. CASE left # <<>>
    <3>1. UNCHANGED <<connected, slots, late, bans, roamed>>
      BY <1>6, <2>3
    <3>2. conns[p] # <<>>
      OBVIOUS
    <3>3. HoldsSlot(p)' /\ SlotIsUsed(p)'
      BY <1>4, <1>7, <2>1, <2>3, <3>1, <3>2 DEF Kept, HoldsSlot, SlotIsUsed, IsConnected
    <3>4. Counted(p)' /\ BannedIsCut(p)'
      BY <1>4, <1>7, <2>1, <3>1
         DEF Kept, Counted, Uncounted, BannedIsCut, AllClosing, IsConnected, IsBanned
    <3> QED BY <3>3, <3>4 DEF Kept
  <2> QED BY <2>2, <2>3
<1> QED BY <1>10, <1>11, <1>12, <1>13, <1>14, <1>15, OthersKept DEF Inv

------------------------------------------------------------------------------
LEMMA InvStep == ASSUME PeersAssumption, Inv, [PeersNext]_peerVars PROVE Inv'
<1>1. CASE Tick
  BY <1>1, TickKeeps
<1>2. CASE RestartDoors
  BY <1>2, RestartKeeps
<1>3. CASE Poll \/ Save
  BY <1>3, BooksKeep DEF Poll, Save, Inside, doors, ghosts
<1>4. ASSUME NEW a \in Addrs, Told(a) \/ DialFails(a) \/ Denied(a)
      PROVE  Inv'
  BY <1>4, BooksKeep DEF Told, DialFails, Denied, Inside, ghosts
<1>5. ASSUME NEW a \in Addrs, Reached(a) \/ Accept(a)
      PROVE  Inv'
  <2>1. /\ [addr |-> a, dialled |-> TRUE, closing |-> FALSE] \in Conn
        /\ [addr |-> a, dialled |-> FALSE, closing |-> FALSE] \in Conn
    BY DEF Conn
  <2>2. CASE Reached(a)
    BY <2>1, <2>2, EstablishedKeeps DEF Reached
  <2>3. CASE Accept(a)
    BY <2>1, <2>3, EstablishedKeeps DEF Accept
  <2> QED BY <1>5, <2>2, <2>3
<1>6. ASSUME NEW p \in Contacts, Close(p) \/ Cut(p)
      PROVE  Inv'
  BY <1>6, ClosedKeeps DEF Close, Cut
<1>7. ASSUME NEW p \in Contacts, Identify(p)
      PROVE  Inv'
  <2>1. CASE p \in Foreign
    BY <1>7, <2>1, BanForKeeps DEF Identify, ghosts
  <2>2. CASE p \notin Foreign
    BY <1>7, <2>2, BooksKeep DEF Identify, Inside, ghosts
  <2> QED BY <2>1, <2>2
<1>8. ASSUME NEW p \in Contacts, Ban(p)
      PROVE  Inv'
  BY <1>8, BanForKeeps DEF Ban, ghosts
<1>9. CASE UNCHANGED peerVars
  BY <1>9, BooksKeep DEF peerVars, doors, ghosts, Inside
<1> QED BY <1>1, <1>2, <1>3, <1>4, <1>5, <1>6, <1>7, <1>8, <1>9 DEF PeersNext

\* In every reachable state the limits on peers hold, every slot is held by a peer
\* that is there and a banned peer is cut off (ConnectionEstablished,
\* ConnectionClosed, dial_checked, ban_peer).
THEOREM DoorsStayKept == ASSUME PeersAssumption PROVE PeersSpec => []DoorsKept
<1>1. PeersInit => Inv
  BY InvInit
<1>2. Inv /\ [PeersNext]_peerVars => Inv'
  BY InvStep
<1>3. Inv => DoorsKept
  BY InvSays
<1> QED BY <1>1, <1>2, <1>3, PTL DEF PeersSpec
=============================================================================
