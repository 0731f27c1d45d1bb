--------------------------- MODULE ChainNodeProofs ---------------------------
(***************************************************************************)
(* What following the chain guarantees for every tree of blocks, every set *)
(* of peers and every limit: types always, a session's hold on the chain   *)
(* always, and, as long as a fork check reads its parent's windows from    *)
(* one chain, that the node implements HeaviestChain.  And where a block   *)
(* waits (node.rs, orphan.rs): it is checked in one place at a time, the   *)
(* orphan pool keeps its limits with its two halves in agreement, and, on  *)
(* a node whose chain moves block by block, no orphan waits for a parent   *)
(* that is the tip.                                                        *)
(***************************************************************************)
EXTENDS ChainNode, SequenceTheorems, FiniteSetTheorems, TLAPS

\* A block's parent is the block below it.
LEMMA ParentLemma ==
    ASSUME NEW b \in Blocks, b # Genesis
    PROVE  Parent[b] \in Blocks /\ Height[b] = Height[Parent[b]] + 1
           /\ Height[b] \in Nat /\ Height[b] > 0
  BY BlockTreeAssumption

\* Replacing a chain from height first keeps the blocks below it.
LEMMA ReplacedLemma ==
    ASSUME NEW c \in Seq(Blocks), NEW first \in 1..Len(c), NEW blk \in Blocks
    PROVE  /\ Replaced(c, first, blk) \in Seq(Blocks)
           /\ Len(Replaced(c, first, blk)) = first + 1
           /\ \A i \in 1..first : Replaced(c, first, blk)[i] = c[i]
           /\ Replaced(c, first, blk)[first + 1] = blk
<1>1. /\ SubSeq(c, 1, first) \in Seq(Blocks)
      /\ Len(SubSeq(c, 1, first)) = first
      /\ \A i \in 1..first : SubSeq(c, 1, first)[i] = c[i]
  BY SubSeqProperties, ElementOfSeq, LenProperties
<1> QED
  BY <1>1 DEF Replaced

\* Replacing it by a run of blocks likewise.
LEMMA SplicedLemma ==
    ASSUME NEW c \in Seq(Blocks), NEW first \in 1..Len(c), NEW blks \in Seq(Blocks),
           NEW d, d = SubSeq(c, 1, first) \o blks
    PROVE  /\ d \in Seq(Blocks) /\ Len(d) = first + Len(blks)
           /\ \A i \in 1..first : d[i] = c[i]
           /\ \A j \in 1..Len(blks) : d[first + j] = blks[j]
<1>1. /\ SubSeq(c, 1, first) \in Seq(Blocks)
      /\ Len(SubSeq(c, 1, first)) = first
      /\ \A i \in 1..first : SubSeq(c, 1, first)[i] = c[i]
  BY SubSeqProperties, ElementOfSeq, LenProperties
<1>2. Len(blks) \in Nat
  BY LenProperties
<1>3. /\ d \in Seq(Blocks) /\ Len(d) = first + Len(blks)
      /\ \A i \in 1..(first + Len(blks)) :
            d[i] = IF i <= first THEN SubSeq(c, 1, first)[i] ELSE blks[i - first]
  BY <1>1, ConcatProperties
<1> QED
  BY <1>1, <1>2, <1>3

LEMMA SoundLemma ==
    ASSUME NEW b \in Sound
    PROVE  b \in Blocks /\ b # Genesis /\ Weight[b] > Weight[Parent[b]]
  BY ChainNodeAssumption DEF Sound

\* Removing parents from the pool and evicting the oldest keep its type.
LEMMA WithoutType ==
    ASSUME NEW pool \in Pools, NEW gone, NEW order \in Seq(Blocks)
    PROVE  WithoutParents(pool, gone, order) \in Pools
  BY EmptySeq DEF Pools, WithoutParents

LEMMA EvictedType ==
    ASSUME NEW pool \in Pools
    PROVE  Evicted(pool) \in Pools
<1> DEFINE n == OrphanLimit \div 2
           rest == SubSeq(pool.order, n + 1, Len(pool.order))
<1>1. OrphanLimit \in Nat /\ OrphanLimit >= 2
  BY ChainNodeAssumption
<1>2. n \in Nat
  BY <1>1
<1>3. pool.order \in Seq(Blocks)
  BY DEF Pools
<1>4. rest \in Seq(Blocks)
  BY <1>2, <1>3, SubSeqProperties, ElementOfSeq, LenProperties
<1>5. WithoutParents(pool, {pool.order[i] : i \in 1..n}, rest) \in Pools
  BY <1>4, WithoutType
<1> QED
  BY <1>5 DEF Evicted

LEMMA HeldType ==
    ASSUME NEW pool \in Pools, NEW b \in Blocks, b # Genesis
    PROVE  Held(b, pool) \in Pools
<1> DEFINE list == pool.byParent[Parent[b]]
           full == [byParent |-> [pool.byParent EXCEPT ![Parent[b]] = Append(@, b)],
                    order |-> IF list = <<>> THEN Append(pool.order, Parent[b])
                                             ELSE pool.order]
<1>1. Parent[b] \in Blocks
  BY ParentLemma
<1>2. list \in Seq(Blocks \ {Genesis}) /\ pool.order \in Seq(Blocks)
  BY <1>1 DEF Pools
<1>3. Append(list, b) \in Seq(Blocks \ {Genesis})
  BY <1>2
<1>4. Append(pool.order, Parent[b]) \in Seq(Blocks)
  BY <1>1, <1>2
<1>5. full \in Pools
  BY <1>1, <1>3, <1>4, <1>2 DEF Pools
<1>6. Evicted(full) \in Pools
  BY <1>5, EvictedType
<1> QED
  BY <1>6 DEF Held

\* Taking the children of a block keeps the pool's type and gives items.
LEMMA TakeType ==
    ASSUME orphans \in Pools, NEW b \in Blocks, TakeChildren(b)
    PROVE  orphans' \in Pools /\ work' \in Seq(Items)
<1>1. orphans.order \in Seq(Blocks) /\ orphans.byParent[b] \in Seq(Blocks \ {Genesis})
  BY DEF Pools
<1>2. work' \in Seq(Items)
  <2> DEFINE taken == orphans.byParent[b]
  <2>1. \A i \in 1..Len(taken) : Item(taken[i], Own) \in Items
    BY <1>1, ElementOfSeq DEF Item, Items
  <2>2. Len(taken) \in Nat
    BY <1>1, LenProperties
  <2>3. [i \in 1..Len(taken) |-> Item(taken[i], Own)] \in Seq(Items)
    BY <2>1, <2>2
  <2> QED
    BY <2>3 DEF TakeChildren
<1>3. ASSUME NEW i \in 1..Len(orphans.order)
      PROVE  SubSeq(orphans.order, 1, i - 1)
               \o SubSeq(orphans.order, i + 1, Len(orphans.order)) \in Seq(Blocks)
  <2>1. Len(orphans.order) \in Nat /\ \A j \in 1..Len(orphans.order) : orphans.order[j] \in Blocks
    BY <1>1, ElementOfSeq, LenProperties
  <2>2. SubSeq(orphans.order, 1, i - 1) \in Seq(Blocks)
    BY <2>1, SubSeqProperties
  <2>3. SubSeq(orphans.order, i + 1, Len(orphans.order)) \in Seq(Blocks)
    BY <2>1, SubSeqProperties
  <2> QED
    BY <2>2, <2>3, ConcatProperties
<1>4. orphans' \in Pools
  BY <1>3, WithoutType DEF TakeChildren
<1> QED
  BY <1>2, <1>4

\* recent_blocks stays a sequence of blocks.
LEMMA RememberType ==
    ASSUME recent \in Seq(Blocks), NEW blks \in Seq(Blocks), Remember(blks)
    PROVE  recent' \in Seq(Blocks)
<1> DEFINE all == recent \o blks
           first == IF Len(all) > RecentLimit THEN Len(all) - RecentLimit + 1 ELSE 1
<1>1. all \in Seq(Blocks) /\ Len(all) \in Nat
  BY ConcatProperties, LenProperties
<1>2. RecentLimit \in Nat
  BY ChainNodeAssumption
<1>3. first \in Int /\ first >= 1
  BY <1>1, <1>2
<1>4. \A i \in first..Len(all) : all[i] \in Blocks
  BY <1>1, <1>3, ElementOfSeq
<1>5. SubSeq(all, first, Len(all)) \in Seq(Blocks)
  BY <1>1, <1>3, <1>4, SubSeqProperties
<1> QED
  BY <1>5 DEF Remember

------------------------------------------------------------------------------
\* Every variable keeps its type; in particular nobody who is not a peer is
\* ever banned (ban_peer is called for a block's sender only if it has one).
LEMMA TypeInit == Init => TypeOK
<1> SUFFICES ASSUME Init PROVE TypeOK
  OBVIOUS
<1>1. <<Genesis>> \in Seq(Blocks) /\ Len(<<Genesis>>) > 0
  BY BlockTreeAssumption
<1>2. NoOrphans \in Pools
  BY EmptySeq DEF NoOrphans, Pools
<1>3. <<>> \in Seq(Blocks) /\ <<>> \in Seq(Items)
  BY EmptySeq
<1>4. chain \in Seq(Blocks) /\ Len(chain) > 0 /\ floor \in Nat
  BY <1>1 DEF Init
<1> QED
  BY <1>2, <1>3, <1>4 DEF Init, TypeOK

\* What the screening and handling of a block leave alone or give back.
LEMMA BannedType ==
    ASSUME banned \subseteq Peers, NEW t \in Items
    PROVE  Banned(t.from) \subseteq Peers
  BY DEF Banned, Items

LEMMA HandleType == TypeOK /\ Handle => TypeOK'
<1> SUFFICES ASSUME TypeOK, Handle PROVE TypeOK'
  OBVIOUS
<1>1. work # <<>> /\ work \in Seq(Items)
  BY DEF Handle, TypeOK
<1>2. Head(work) \in Items /\ Tail(work) \in Seq(Items)
  BY <1>1, HeadTailProperties
<1>3. CASE Ignore(Head(work))
  BY <1>2, <1>3 DEF Ignore, Handling, TypeOK
<1>4. CASE ScreenOrphan(Head(work))
  <2>1. orphanChecks' \subseteq Items /\ waiting' \subseteq Blocks
    BY <1>2, <1>4 DEF ScreenOrphan, AnsweredBusy, TypeOK
  <2> QED
    BY <1>2, <1>4, <2>1 DEF ScreenOrphan, Fresh, Handling, TypeOK
<1>5. CASE RefuseTarget(Head(work))
  BY <1>2, <1>5 DEF RefuseTarget, Fresh, Handling, TypeOK
<1>6. CASE Validate(Head(work))
  <2>1. Append(queue, Head(work)) \in Seq(Items)
    BY <1>2 DEF TypeOK
  <2>2. queue' \in Seq(Items) /\ waiting' \subseteq Blocks
        /\ validating' \in Items \cup {NoBlock}
    BY <1>2, <1>6, <2>1 DEF Validate, TypeOK
  <2> QED
    BY <1>2, <1>6, <2>2 DEF Validate, Fresh, Handling, TypeOK
<1> QED
  BY <1>3, <1>4, <1>5, <1>6 DEF Handle

LEMMA ValidatedType == TypeOK /\ Validated => TypeOK'
<1> SUFFICES ASSUME TypeOK, Validated PROVE TypeOK'
  OBVIOUS
<1>1. validating \in Items /\ validating.blk \in Blocks \ {Genesis}
  BY DEF Validated, ValidatedInSession, ValidatedTooLate, ValidatedRefused,
         AcceptBlock, AcceptFails, ValidationReported, TypeOK, Items
<1>2. <<validating>> \in Seq(Items) /\ <<validating.blk>> \in Seq(Blocks)
  BY <1>1
<1>3. CASE ValidatedInSession
  BY <1>3 DEF ValidatedInSession, ValidationReported, TypeOK
<1>4. CASE ValidatedTooLate
  BY <1>2, <1>4 DEF ValidatedTooLate, ValidationReported, TypeOK
<1>5. CASE ValidatedRefused
  <2>1. banned' \subseteq Peers
    BY <1>1, <1>5, BannedType DEF ValidatedRefused, TypeOK
  <2> QED
    BY <1>5, <2>1 DEF ValidatedRefused, ValidationReported, TypeOK
<1>6. CASE AcceptBlock
  <2>1. chain' \in Seq(Blocks) /\ Len(chain') > 0
    BY <1>1, <1>6 DEF AcceptBlock, TypeOK
  <2>2. recent' \in Seq(Blocks)
    BY <1>2, <1>6, RememberType DEF AcceptBlock, TypeOK
  <2>3. orphans' \in Pools /\ work' \in Seq(Items)
    BY <1>1, <1>6, TakeType DEF AcceptBlock, TypeOK
  <2> QED
    BY <1>6, <2>1, <2>2, <2>3 DEF AcceptBlock, ValidationReported, TypeOK
<1>7. CASE AcceptFails
  BY <1>7 DEF AcceptFails, ValidationReported, TypeOK
<1> QED
  BY <1>3, <1>4, <1>5, <1>6, <1>7 DEF Validated

LEMMA OrphanCheckedType ==
    ASSUME TypeOK, NEW t \in orphanChecks, OrphanChecked(t)
    PROVE  TypeOK'
<1>1. t \in Items /\ t.blk \in Blocks /\ t.blk # Genesis
  BY DEF TypeOK, Items
<1>2. CASE OrphanRefused(t)
  <2>1. banned' \subseteq Peers
    BY <1>1, <1>2, BannedType DEF OrphanRefused, TypeOK
  <2> QED
    BY <1>2, <2>1 DEF OrphanRefused, OrphanReported, TypeOK
<1>3. CASE OrphanOnTip(t)
  <2>1. <<t>> \in Seq(Items)
    BY <1>1
  <2> QED
    BY <1>3, <2>1 DEF OrphanOnTip, OrphanReported, TypeOK
<1>4. CASE HoldOrphan(t)
  <2>1. orphans' \in Pools
    BY <1>1, <1>4, HeldType DEF HoldOrphan, TypeOK
  <2> QED
    BY <1>4, <2>1 DEF HoldOrphan, OrphanReported, TypeOK
<1>5. CASE CheckForkBlock(t)
  <2>1. Tip(chain) \in Blocks
    BY ElementOfSeq, LenProperties DEF Tip, TypeOK
  <2>2. ASSUME NEW view \in {"derive", "whole"}
        PROVE  [blk |-> t.blk, from |-> t.from, tip |-> Tip(chain), view |-> view] \in ForkTasks
    BY <1>1, <2>1 DEF ForkTasks, Items
  <2>3. forkChecks' \subseteq ForkTasks
    BY <1>5, <2>2 DEF CheckForkBlock, TypeOK
  <2> QED
    BY <1>5, <2>3 DEF CheckForkBlock, OrphanReported, TypeOK
<1> QED
  BY <1>2, <1>3, <1>4, <1>5 DEF OrphanChecked

(* A block that replaces the tip goes where its parent ends, which is its own
   height only because the chain is linked. *)
IsLinked(c) ==
    /\ IsChain(c)
    /\ \A i \in 1..Len(c) : Height[c[i]] = i - 1

Linked == IsLinked(chain)

LEMMA ForkPlace ==
    ASSUME TypeOK, Linked, NEW b \in Blocks, b # Genesis, Among(Parent[b], chain)
    PROVE  Height[b] \in 1..Len(chain) /\ chain[Height[b]] = Parent[b]
<1>1. PICK i \in 1..Len(chain) : chain[i] = Parent[b]
  BY DEF Among
<1>2. Height[b] = (i - 1) + 1
  BY <1>1, ParentLemma DEF Linked, IsLinked
<1>3. i \in Nat
  BY LenProperties DEF TypeOK
<1> QED
  BY <1>1, <1>2, <1>3

LEMMA ForkCheckedType ==
    ASSUME TypeOK, Linked, NEW t \in forkChecks, ForkChecked(t)
    PROVE  TypeOK'
<1>1. t \in ForkTasks /\ t.blk \in Blocks /\ t.blk # Genesis
      /\ [blk |-> t.blk, from |-> t.from] \in Items
  BY DEF TypeOK, ForkTasks, Items
<1>2. ASSUME NEW view \in {"derive", "windows", "whole", "torn", "gone"}, Sees(t, view)
      PROVE  forkChecks' \subseteq ForkTasks
  BY <1>1, <1>2 DEF Sees, ForkTasks, TypeOK
<1>3. CASE DeriveState(t)
  <2>1. forkChecks' \subseteq ForkTasks
    BY <1>2, <1>3 DEF DeriveState
  <2> QED
    BY <1>3, <2>1 DEF DeriveState, TypeOK
<1>4. CASE ReadWindows(t)
  <2>1. forkChecks' \subseteq ForkTasks
    BY <1>2, <1>4 DEF ReadWindows
  <2> QED
    BY <1>4, <2>1 DEF ReadWindows, TypeOK
<1>5. CASE ForkBlockRefused(t)
  <2>1. t.from \in Peers \cup {Own}
    BY <1>1 DEF ForkTasks
  <2>2. banned' \subseteq Peers
    BY <2>1, <1>5 DEF ForkBlockRefused, Banned, TypeOK
  <2> QED
    BY <1>5, <2>2 DEF ForkBlockRefused, ForkReported, TypeOK
<1>6. CASE ReplaceTip(t)
  <2>1. Height[t.blk] \in 1..Len(chain)
    BY <1>1, <1>6, ForkPlace DEF ReplaceTip, StillReplaces
  <2>5. chain' \in Seq(Blocks) /\ Len(chain') > 0
    BY <1>1, <1>6, <2>1, ReplacedLemma DEF ReplaceTip, TypeOK
  <2>2. <<t.blk>> \in Seq(Blocks)
    BY <1>1
  <2>3. recent' \in Seq(Blocks)
    BY <1>6, <2>2, RememberType DEF ReplaceTip, TypeOK
  <2>4. orphans' \in Pools /\ work' \in Seq(Items)
    BY <1>1, <1>6, TakeType DEF ReplaceTip, TypeOK
  <2> QED
    BY <1>6, <2>3, <2>4, <2>5 DEF ReplaceTip, ForkReported, TypeOK
<1> QED
  BY <1>3, <1>4, <1>5, <1>6 DEF ForkChecked

------------------------------------------------------------------------------
(* What a session has staged continues the chain it was started on: no other
   handler moves the chain under it. *)
SessionLinked ==
    sync # NoSync =>
        /\ SessionBase \in 1..Len(chain)
        /\ \A j \in 1..Len(sync.staged) :
              /\ sync.staged[j] \in Sound
              /\ Parent[sync.staged[j]] =
                    (IF j = 1 THEN chain[SessionBase] ELSE sync.staged[j - 1])
              /\ Height[sync.staged[j]] = SessionBase - 1 + j
              /\ Weight[sync.staged[j]] > Weight[chain[SessionBase]]

LEMMA SessionType == TypeOK /\ Linked /\ SessionLinked /\ Session => TypeOK'
<1> SUFFICES ASSUME TypeOK, Linked, SessionLinked, Session PROVE TypeOK'
  OBVIOUS
<1>1. ASSUME NEW fork \in 1..Len(chain), StartSession(fork) PROVE TypeOK'
  <2>1. sync' \in SyncSessions
    BY <1>1, EmptySeq DEF StartSession, SyncSessions
  <2> QED
    BY <1>1, <2>1 DEF StartSession, TypeOK
<1>2. ASSUME NEW b \in Sound, SessionApplies(b) PROVE TypeOK'
  <2>1. sync \in SyncSessions /\ b \in Blocks
    BY <1>2, SoundLemma DEF SessionApplies, Syncing, TypeOK
  <2>2. Append(sync.staged, b) \in Seq(Blocks)
    BY <2>1 DEF SyncSessions
  <2>3. sync' \in SyncSessions
    BY <1>2, <2>1, <2>2 DEF SessionApplies, SyncSessions
  <2> QED
    BY <1>2, <2>3 DEF SessionApplies, TypeOK
<1>3. CASE SessionCommits
  <2>1. sync \in SyncSessions /\ sync.staged \in Seq(Blocks)
        /\ SessionBase \in 1..Len(chain)
    BY <1>3 DEF SessionCommits, Syncing, SyncSessions, TypeOK, SessionLinked
  <2>2. chain' \in Seq(Blocks) /\ Len(chain') = SessionBase + Len(sync.staged)
    BY <1>3, <2>1, SplicedLemma DEF SessionCommits, TypeOK
  <2>3. Len(chain') > 0
    BY <2>1, <2>2, LenProperties DEF TypeOK
  <2>4. recent' \in Seq(Blocks)
    BY <1>3, <2>1, RememberType DEF SessionCommits, TypeOK
  <2>5. sync' \in SyncSessions
    BY <1>3, <2>1, EmptySeq DEF SessionCommits, SyncSessions
  <2> QED
    BY <1>3, <2>2, <2>3, <2>4, <2>5 DEF SessionCommits, TypeOK
<1>4. CASE EndSession
  BY <1>4 DEF EndSession, TypeOK
<1> QED
  BY <1>1, <1>2, <1>3, <1>4 DEF Session

------------------------------------------------------------------------------
\* The handlers that touch the chain, the floor or the session.
LEMMA Moves ==
    ASSUME [Next]_vars
    PROVE  \/ UNCHANGED <<chain, floor, sync>>
           \/ RaiseFloor \/ Restart \/ AcceptBlock \/ Session
           \/ \E t \in forkChecks : ReplaceTip(t)
<1>1. CASE Handle
  BY <1>1 DEF Handle, Ignore, ScreenOrphan, RefuseTarget, Validate
<1>2. CASE Validated
  BY <1>2 DEF Validated, ValidatedInSession, ValidatedTooLate, ValidatedRefused,
              AcceptFails
<1>3. ASSUME NEW t \in orphanChecks, OrphanChecked(t) PROVE UNCHANGED <<chain, floor, sync>>
  BY <1>3 DEF OrphanChecked, OrphanRefused, OrphanOnTip, HoldOrphan, CheckForkBlock
<1>4. ASSUME NEW t \in forkChecks, ForkChecked(t)
      PROVE  UNCHANGED <<chain, floor, sync>> \/ ReplaceTip(t)
  BY <1>4 DEF ForkChecked, DeriveState, ReadWindows, ForkBlockRefused
<1>5. ASSUME NEW p \in Peers, NEW b \in Blocks, Receive(p, b)
      PROVE  UNCHANGED <<chain, floor, sync>>
  BY <1>5 DEF Receive
<1>6. ASSUME NEW b \in Mined, Submit(b) \/ Mine(b) PROVE UNCHANGED <<chain, floor, sync>>
  BY <1>6 DEF Submit, Mine
<1>7. CASE DrainQueue \/ EndDrain
  BY <1>7 DEF DrainQueue, EndDrain
<1>8. CASE UNCHANGED vars
  BY <1>8 DEF vars
<1> QED
  BY <1>1, <1>2, <1>3, <1>4, <1>5, <1>6, <1>7, <1>8 DEF Next

(* A run of blocks that continues a chain from height n continues it as a
   chain. *)
Continues(blks, c, n) ==
    \A j \in 1..Len(blks) :
        /\ blks[j] \in Blocks \ {Genesis}
        /\ Parent[blks[j]] = (IF j = 1 THEN c[n] ELSE blks[j - 1])
        /\ Height[blks[j]] = n - 1 + j

LEMMA SplicedLinked ==
    ASSUME NEW c \in Seq(Blocks), IsLinked(c), NEW n \in 1..Len(c),
           NEW blks \in Seq(Blocks), Continues(blks, c, n)
    PROVE  IsLinked(SubSeq(c, 1, n) \o blks)
<1> PICK d : d = SubSeq(c, 1, n) \o blks
  OBVIOUS
<1>1. Len(c) \in Nat /\ Len(blks) \in Nat /\ n \in Nat /\ n > 0 /\ n <= Len(c)
  BY LenProperties
<1>2. /\ d \in Seq(Blocks) /\ Len(d) = n + Len(blks)
      /\ \A i \in 1..n : d[i] = c[i]
      /\ \A j \in 1..Len(blks) : d[n + j] = blks[j]
  BY SplicedLemma
<1>3. \A i \in 1..n : Height[d[i]] = i - 1
  BY <1>1, <1>2 DEF IsLinked
<1>4. \A i \in 2..n : d[i] # Genesis /\ Parent[d[i]] = d[i - 1]
  <2> SUFFICES ASSUME NEW i \in 2..n PROVE d[i] # Genesis /\ Parent[d[i]] = d[i - 1]
    OBVIOUS
  <2>1. i \in 2..Len(c) /\ i \in 1..n /\ i - 1 \in 1..n
    BY <1>1
  <2> QED
    BY <1>2, <2>1 DEF IsLinked, IsChain
<1>5. ASSUME NEW j \in 1..Len(blks)
      PROVE  /\ d[n + j] # Genesis /\ Parent[d[n + j]] = d[n + j - 1]
             /\ Height[d[n + j]] = n + j - 1
  <2>1. d[n + j] = blks[j]
    BY <1>2
  <2>2. d[n + j - 1] = IF j = 1 THEN c[n] ELSE blks[j - 1]
    <3>1. CASE j = 1
      <4>1. n + j - 1 = n /\ n \in 1..n
        BY <1>1, <3>1
      <4> QED
        BY <1>2, <3>1, <4>1
    <3>2. CASE j # 1
      <4>1. j - 1 \in 1..Len(blks) /\ n + j - 1 = n + (j - 1)
        BY <1>1, <3>2
      <4> QED
        BY <1>2, <3>2, <4>1
    <3> QED
      BY <3>1, <3>2
  <2>3. n - 1 + j = n + j - 1
    BY <1>1
  <2> QED
    BY <2>1, <2>2, <2>3 DEF Continues
<1>6. ASSUME NEW i \in 1..Len(d), i > n
      PROVE  /\ d[i] # Genesis /\ Parent[d[i]] = d[i - 1]
             /\ Height[d[i]] = i - 1
  <2>1. PICK j \in 1..Len(blks) : n + j = i
    <3>1. i - n \in 1..Len(blks) /\ n + (i - n) = i
      BY <1>1, <1>2, <1>6
    <3> QED
      BY <3>1
  <2> QED
    BY <1>5, <2>1
<1>7. d[1] = Genesis /\ Len(d) > 0
  BY <1>1, <1>2 DEF IsLinked, IsChain
<1>8. \A i \in 2..Len(d) : d[i] # Genesis /\ Parent[d[i]] = d[i - 1]
  <2> SUFFICES ASSUME NEW i \in 2..Len(d) PROVE d[i] # Genesis /\ Parent[d[i]] = d[i - 1]
    OBVIOUS
  <2>1. i \in 1..Len(d) /\ (i \in 2..n \/ i > n)
    BY <1>1, <1>2
  <2> QED
    BY <1>4, <1>6, <2>1
<1>9. \A i \in 1..Len(d) : Height[d[i]] = i - 1
  <2> SUFFICES ASSUME NEW i \in 1..Len(d) PROVE Height[d[i]] = i - 1
    OBVIOUS
  <2>1. i \in 1..n \/ i > n
    BY <1>1, <1>2
  <2> QED
    BY <1>3, <1>6, <2>1
<1>10. IsLinked(d)
  BY <1>2, <1>7, <1>8, <1>9 DEF IsLinked, IsChain
<1> QED
  BY <1>10

\* A chain grown by one block on one of its own is linked.
LEMMA LinkedReplaced ==
    ASSUME TypeOK, Linked, NEW b \in Blocks, b # Genesis, Among(Parent[b], chain)
    PROVE  IsLinked(Replaced(chain, Height[b], b))
<1>1. Height[b] \in 1..Len(chain) /\ chain[Height[b]] = Parent[b]
  BY ForkPlace
<1>2. /\ <<b>> \in Seq(Blocks) /\ Len(<<b>>) = 1 /\ <<b>>[1] = b
  OBVIOUS
<1>3. Height[b] - 1 + 1 = Height[b]
  BY <1>1, ParentLemma
<1>4. Continues(<<b>>, chain, Height[b])
  BY <1>1, <1>2, <1>3 DEF Continues
<1>5. IsLinked(SubSeq(chain, 1, Height[b]) \o <<b>>)
  BY <1>1, <1>2, <1>4, SplicedLinked DEF Linked, TypeOK
<1>6. SubSeq(chain, 1, Height[b]) \in Seq(Blocks)
  BY <1>1, SubSeqProperties, ElementOfSeq, LenProperties DEF TypeOK
<1>7. Append(SubSeq(chain, 1, Height[b]), b) = SubSeq(chain, 1, Height[b]) \o <<b>>
  BY <1>6, AppendIsConcat
<1> QED
  BY <1>5, <1>7 DEF Replaced

\* Appending is replacing from the tip on.
LEMMA AppendReplaces ==
    ASSUME TypeOK, Linked, NEW b \in Blocks, b # Genesis, Parent[b] = Tip(chain)
    PROVE  Among(Parent[b], chain) /\ Append(chain, b) = Replaced(chain, Height[b], b)
           /\ Height[b] = Len(chain)
<1>1. Len(chain) \in Nat /\ Len(chain) > 0
  BY LenProperties DEF TypeOK
<1>2. chain[Len(chain)] = Parent[b]
  BY DEF Tip
<1>3. Among(Parent[b], chain)
  BY <1>1, <1>2 DEF Among
<1>4. Height[b] = Len(chain)
  BY <1>1, <1>2, ParentLemma DEF Linked, IsLinked
<1>5. SubSeq(chain, 1, Len(chain)) = chain
  BY SubSeqFull DEF TypeOK
<1> QED
  BY <1>3, <1>4, <1>5 DEF Replaced

\* What a session commits is linked.
LEMMA LinkedSpliced ==
    ASSUME TypeOK, Linked, SessionLinked, SessionCommits
    PROVE  IsLinked(SubSeq(chain, 1, SessionBase) \o sync.staged)
<1>1. sync # NoSync /\ sync.staged \in Seq(Blocks) /\ SessionBase \in 1..Len(chain)
  BY DEF SessionCommits, Syncing, SyncSessions, TypeOK, SessionLinked
<1>2. Continues(sync.staged, chain, SessionBase)
  BY <1>1, SoundLemma DEF SessionLinked, Continues
<1> QED
  BY <1>1, <1>2, SplicedLinked DEF Linked, TypeOK

\* Whatever moves the chain leaves it linked, and only a session moves it
\* while a session is on.
LEMMA LinkedStep == TypeOK /\ Linked /\ SessionLinked /\ [Next]_vars => Linked'
<1> SUFFICES ASSUME TypeOK, Linked, SessionLinked, [Next]_vars PROVE Linked'
  OBVIOUS
<1>1. CASE chain' = chain
  BY <1>1 DEF Linked
<1>2. CASE AcceptBlock
  <2>1. validating \in Items /\ validating.blk \in Blocks /\ validating.blk # Genesis
    BY <1>2 DEF AcceptBlock, ValidationReported, TypeOK, Items
  <2>2. chain' = Append(chain, validating.blk) /\ Parent[validating.blk] = Tip(chain)
    BY <1>2 DEF AcceptBlock, TipUnmoved
  <2>3. /\ Among(Parent[validating.blk], chain)
        /\ chain' = Replaced(chain, Height[validating.blk], validating.blk)
    BY <2>1, <2>2, AppendReplaces
  <2>4. IsLinked(Replaced(chain, Height[validating.blk], validating.blk))
    BY <2>1, <2>3, LinkedReplaced
  <2> QED
    BY <2>3, <2>4 DEF Linked
<1>3. ASSUME NEW t \in forkChecks, ReplaceTip(t) PROVE Linked'
  <2>1. t.blk \in Blocks /\ t.blk # Genesis
    BY DEF TypeOK, ForkTasks
  <2>2. Among(Parent[t.blk], chain) /\ chain' = Replaced(chain, Height[t.blk], t.blk)
    BY <1>3 DEF ReplaceTip, StillReplaces
  <2>3. IsLinked(Replaced(chain, Height[t.blk], t.blk))
    BY <2>1, <2>2, LinkedReplaced
  <2> QED
    BY <2>2, <2>3 DEF Linked
<1>4. CASE SessionCommits
  <2>1. chain' = SubSeq(chain, 1, SessionBase) \o sync.staged
    BY <1>4 DEF SessionCommits
  <2>2. IsLinked(SubSeq(chain, 1, SessionBase) \o sync.staged)
    BY <1>4, LinkedSpliced
  <2> QED
    BY <2>1, <2>2 DEF Linked
<1>5. RaiseFloor \/ Restart => chain' = chain
  BY DEF RaiseFloor, Restart
<1>6. Session => chain' = chain \/ SessionCommits
  BY DEF Session, StartSession, SessionApplies, EndSession
<1> QED
  BY <1>1, <1>2, <1>3, <1>4, <1>5, <1>6, Moves

LEMMA AppliesLinked ==
    ASSUME TypeOK, Linked, SessionLinked, NEW b \in Sound, SessionApplies(b)
    PROVE  SessionLinked'
<1> PICK base : base = SessionBase
  OBVIOUS
<1>1. /\ sync # NoSync /\ sync \in SyncSessions /\ sync.staged \in Seq(Blocks)
      /\ base \in 1..Len(chain)
  BY DEF SessionApplies, Syncing, SyncSessions, TypeOK, SessionLinked
<1>2. /\ chain' = chain /\ SessionBase' = base
      /\ sync'.staged = Append(sync.staged, b)
  BY <1>1 DEF SessionApplies, SessionBase, SyncSessions
<1>3. PICK k \in Nat : k = Len(sync.staged)
  BY <1>1, LenProperties
<1>4. /\ b \in Blocks /\ b # Genesis /\ Weight[b] > Weight[Parent[b]]
      /\ Weight[b] \in Nat /\ Weight[Parent[b]] \in Nat /\ Height[b] \in Nat
      /\ Parent[b] \in Blocks /\ Height[b] = Height[Parent[b]] + 1
  BY SoundLemma, ParentLemma, BlockTreeAssumption
<1>5. /\ Len(sync'.staged) = k + 1
      /\ \A j \in 1..k : sync'.staged[j] = sync.staged[j]
      /\ sync'.staged[k + 1] = b
  BY <1>1, <1>2, <1>3, <1>4, AppendProperties
<1>6. chain[base] \in Blocks /\ Weight[chain[base]] \in Nat /\ Height[chain[base]] = base - 1
  BY <1>1, ElementOfSeq, BlockTreeAssumption DEF TypeOK, Linked, IsLinked
<1>7. ASSUME NEW j \in 1..k
      PROVE  /\ sync.staged[j] \in Sound
             /\ Parent[sync.staged[j]] = (IF j = 1 THEN chain[base] ELSE sync.staged[j - 1])
             /\ Height[sync.staged[j]] = base - 1 + j
             /\ Weight[sync.staged[j]] > Weight[chain[base]]
  BY <1>1, <1>3 DEF SessionLinked
<1>8. ASSUME NEW j \in 1..k
      PROVE  /\ sync'.staged[j] \in Sound
             /\ Parent[sync'.staged[j]] = (IF j = 1 THEN chain[base] ELSE sync'.staged[j - 1])
             /\ Height[sync'.staged[j]] = base - 1 + j
             /\ Weight[sync'.staged[j]] > Weight[chain[base]]
  <2>1. j # 1 => j - 1 \in 1..k
    BY <1>3
  <2> QED
    BY <1>5, <1>7, <2>1
<1>9. /\ Parent[b] = (IF k + 1 = 1 THEN chain[base] ELSE sync'.staged[k])
      /\ Height[b] = base + k
      /\ Weight[b] > Weight[chain[base]]
  <2>1. Parent[b] = IF sync.staged = <<>> THEN chain[base] ELSE sync.staged[k]
    BY <1>1, <1>3 DEF SessionApplies, SessionTip, Tip
  <2>2. CASE k = 0
    <3>1. sync.staged = <<>>
      BY <1>1, <1>3, <2>2, EmptySeq
    <3> QED
      BY <1>1, <1>4, <1>6, <2>1, <2>2, <3>1
  <2>3. CASE k # 0
    <3>1. sync.staged # <<>> /\ k \in 1..k
      BY <1>3, <2>3
    <3>2. Weight[sync.staged[k]] > Weight[chain[base]] /\ Height[sync.staged[k]] = base - 1 + k
      BY <1>7, <3>1
    <3>3. Parent[b] = sync.staged[k] /\ sync'.staged[k] = sync.staged[k]
      BY <1>5, <2>1, <3>1
    <3>4. Height[b] = (base - 1 + k) + 1 /\ Weight[b] > Weight[sync.staged[k]]
      BY <1>4, <3>2, <3>3
    <3>5. Weight[sync.staged[k]] \in Nat
      BY <1>4, <3>3
    <3>6. Weight[b] > Weight[chain[base]]
      BY <1>4, <1>6, <3>2, <3>4, <3>5
    <3> QED
      BY <1>1, <1>3, <2>3, <3>3, <3>4, <3>6
  <2> QED
    BY <2>2, <2>3
<1>10. ASSUME NEW j \in 1..(k + 1)
       PROVE  /\ sync'.staged[j] \in Sound
              /\ Parent[sync'.staged[j]] = (IF j = 1 THEN chain[base] ELSE sync'.staged[j - 1])
              /\ Height[sync'.staged[j]] = base - 1 + j
              /\ Weight[sync'.staged[j]] > Weight[chain[base]]
  <2>1. CASE j \in 1..k
    BY <1>8, <2>1
  <2>2. CASE j = k + 1
    <3>1. j - 1 = k /\ base - 1 + j = base + k
      BY <1>1, <1>3, <2>2
    <3> QED
      BY <1>5, <1>9, <2>2, <3>1
  <2> QED
    BY <1>3, <2>1, <2>2
<1> QED
  BY <1>1, <1>2, <1>5, <1>10 DEF SessionLinked

LEMMA SessionLinkedStep ==
    TypeOK /\ Linked /\ SessionLinked /\ TypeOK' /\ [Next]_vars => SessionLinked'
<1> SUFFICES ASSUME TypeOK, Linked, SessionLinked, TypeOK', [Next]_vars
             PROVE  SessionLinked'
  OBVIOUS
<1>1. Len(chain) \in Nat /\ Len(chain) > 0 /\ Len(chain') \in Nat /\ Len(chain') > 0
  BY LenProperties DEF TypeOK
<1>2. CASE UNCHANGED <<chain, sync>>
  BY <1>2 DEF SessionLinked, SessionBase
<1>3. CASE sync' = NoSync
  BY <1>3 DEF SessionLinked
<1>4. ASSUME NEW fork \in 1..Len(chain), StartSession(fork) PROVE SessionLinked'
  <2>1. chain' = chain /\ sync'.staged = <<>> /\ SessionBase' \in 1..Len(chain)
    BY <1>1, <1>4 DEF StartSession, SessionBase
  <2> QED
    BY <2>1 DEF SessionLinked
<1>5. CASE SessionCommits
  <2>1. sync \in SyncSessions
    BY <1>5 DEF SessionCommits, Syncing, TypeOK
  <2>2. sync'.staged = <<>> /\ sync'.committed = TRUE
    BY <1>5, <2>1 DEF SessionCommits, SyncSessions
  <2>3. SessionBase' = Len(chain')
    BY <2>2 DEF SessionBase
  <2> QED
    BY <1>1, <2>2, <2>3 DEF SessionLinked
<1>6. RaiseFloor => UNCHANGED <<chain, sync>>
  BY DEF RaiseFloor
<1>7. Restart \/ AcceptBlock \/ EndSession => sync' = NoSync
  BY DEF Restart, AcceptBlock, EndSession, Syncing
<1>8. ASSUME NEW t \in forkChecks, ReplaceTip(t) PROVE sync' = NoSync
  BY <1>8 DEF ReplaceTip, MayReplace, Syncing
<1>9. CASE Session
  BY <1>3, <1>4, <1>5, <1>7, <1>9, AppliesLinked DEF Session
<1> QED
  BY <1>2, <1>3, <1>6, <1>7, <1>8, <1>9, Moves

LEMMA TypeStep == TypeOK /\ Linked /\ SessionLinked /\ [Next]_vars => TypeOK'
<1> SUFFICES ASSUME TypeOK, Linked, SessionLinked, [Next]_vars PROVE TypeOK'
  OBVIOUS
<1>1. ASSUME NEW p \in Peers, NEW b \in Blocks, Receive(p, b) PROVE TypeOK'
  <2>1. <<Item(b, p)>> \in Seq(Items) /\ sent' \subseteq Peers \X Blocks
    BY <1>1 DEF Receive, Item, Items, TypeOK
  <2> QED
    BY <1>1, <2>1 DEF Receive, TypeOK
<1>2. ASSUME NEW b \in Mined, Submit(b) \/ Mine(b) PROVE TypeOK'
  <2>1. b \in Blocks /\ b # Genesis
    BY ChainNodeAssumption
  <2>2. <<Item(b, Own)>> \in Seq(Items)
    BY <2>1 DEF Item, Items
  <2> QED
    BY <1>2, <2>1, <2>2 DEF Submit, Mine, TypeOK
<1>3. CASE DrainQueue
  <2>1. Head(queue) \in Items /\ Tail(queue) \in Seq(Items)
    BY <1>3, HeadTailProperties DEF DrainQueue, TypeOK
  <2>2. <<Head(queue)>> \in Seq(Items)
    BY <2>1
  <2> QED
    BY <1>3, <2>1, <2>2 DEF DrainQueue, DrainOn, TypeOK
<1>4. CASE EndDrain
  BY <1>4 DEF EndDrain, TypeOK
<1>5. CASE RaiseFloor
  <2>1. FinalityDepth \in Nat /\ Len(chain) \in Nat
    BY ChainNodeAssumption, LenProperties DEF TypeOK
  <2>2. floor' \in Nat
    BY <1>5, <2>1 DEF RaiseFloor, TypeOK
  <2> QED
    BY <1>5, <2>2 DEF RaiseFloor, TypeOK
<1>6. CASE Restart
  <2>1. NoOrphans \in Pools
    BY EmptySeq DEF NoOrphans, Pools
  <2> QED
    BY <1>6, <2>1, EmptySeq DEF Restart, TypeOK
<1>7. CASE UNCHANGED vars
  BY <1>7 DEF vars, TypeOK
<1> QED
  BY <1>1, <1>2, <1>3, <1>4, <1>5, <1>6, <1>7, HandleType, ValidatedType,
     OrphanCheckedType, ForkCheckedType, SessionType DEF Next

------------------------------------------------------------------------------
Inv == TypeOK /\ Linked /\ SessionLinked

LEMMA InvInit == Init => Inv
<1> SUFFICES ASSUME Init PROVE Inv
  OBVIOUS
<1>1. TypeOK
  BY TypeInit
<1>2. chain = <<Genesis>> /\ Len(chain) = 1 /\ chain[1] = Genesis /\ sync = NoSync
  BY DEF Init
<1>3. Linked
  BY <1>1, <1>2, BlockTreeAssumption DEF Linked, IsLinked, IsChain, TypeOK
<1>4. SessionLinked
  BY <1>2 DEF SessionLinked
<1> QED
  BY <1>1, <1>3, <1>4 DEF Inv

LEMMA InvStep == Inv /\ [Next]_vars => Inv'
  BY TypeStep, LinkedStep, SessionLinkedStep DEF Inv

LEMMA InvHolds == Spec => []Inv
  BY InvInit, InvStep, PTL DEF Spec

\* Every variable keeps its type, for every tree of blocks, peers and limits
\* (node.rs, the handlers of "Blocks").
THEOREM TypeCorrect == Spec => []TypeOK
<1>1. Inv => TypeOK
  BY DEF Inv
<1> QED
  BY <1>1, InvHolds, PTL

\* While a session owns the chain only the session moves it, and onto what it
\* staged: a block validated before it started is dropped, a fork block that
\* comes back after is refused (chain_syncing).
THEOREM SessionOwns == Spec => SessionOwnsChain
<1>1. [Next]_vars =>
        (Syncing /\ chain' # chain
          => /\ sync.staged # <<>>
             /\ chain' = SubSeq(chain, 1, SessionBase) \o sync.staged)
  <2> SUFFICES ASSUME [Next]_vars, Syncing, chain' # chain
               PROVE  /\ sync.staged # <<>>
                      /\ chain' = SubSeq(chain, 1, SessionBase) \o sync.staged
    OBVIOUS
  <2>1. ~AcceptBlock /\ ~RaiseFloor /\ ~Restart
    BY DEF AcceptBlock, RaiseFloor, Restart
  <2>2. ASSUME NEW t \in forkChecks, ReplaceTip(t) PROVE FALSE
    BY <2>2 DEF ReplaceTip, MayReplace
  <2>3. Session => SessionCommits
    BY DEF Session, StartSession, SessionApplies, EndSession
  <2> QED
    BY <2>1, <2>2, <2>3, Moves DEF SessionCommits
<1> QED
  BY <1>1, PTL DEF Spec, SessionOwnsChain

------------------------------------------------------------------------------
(* As long as no reorganisation falls between the reads of a fork check, what
   a check finds out is about the block's own parent. *)
Whole == \A t \in forkChecks : t.view \notin {"windows", "torn"}

LEMMA WholeStep ==
    ASSUME TornReads = FALSE, Whole, TypeOK, [Next]_vars
    PROVE  Whole'
<1>1. ASSUME NEW t \in orphanChecks, OrphanChecked(t) PROVE Whole'
  <2>1. CASE CheckForkBlock(t)
    BY <2>1 DEF CheckForkBlock, Whole
  <2>2. CASE OrphanRefused(t) \/ OrphanOnTip(t) \/ HoldOrphan(t)
    BY <2>2 DEF OrphanRefused, OrphanOnTip, HoldOrphan, Whole
  <2> QED
    BY <1>1, <2>1, <2>2 DEF OrphanChecked
<1>2. ASSUME NEW t \in forkChecks, ForkChecked(t) PROVE Whole'
  <2>1. t \in ForkTasks
    BY DEF TypeOK
  <2>2. ASSUME NEW view \in {"whole", "gone"}, Sees(t, view) PROVE Whole'
    BY <2>1, <2>2 DEF Sees, Whole, ForkTasks
  <2>3. CASE DeriveState(t)
    BY <2>2, <2>3 DEF DeriveState
  <2>4. ~ReadWindows(t)
    BY DEF ReadWindows, Whole
  <2>5. CASE ForkBlockRefused(t) \/ ReplaceTip(t)
    BY <2>5 DEF ForkBlockRefused, ReplaceTip, ForkReported, Whole
  <2> QED
    BY <1>2, <2>3, <2>4, <2>5 DEF ForkChecked
<1>3. CASE Handle
  BY <1>3 DEF Handle, Ignore, ScreenOrphan, RefuseTarget, Validate, Whole
<1>4. CASE Validated
  BY <1>4 DEF Validated, ValidatedInSession, ValidatedTooLate, ValidatedRefused,
              AcceptBlock, AcceptFails, Whole
<1>5. CASE DrainQueue \/ EndDrain \/ RaiseFloor \/ Restart
  BY <1>5 DEF DrainQueue, EndDrain, RaiseFloor, Restart, Whole
<1>6. CASE Session
  BY <1>6 DEF Session, StartSession, SessionApplies, SessionCommits, EndSession, Whole
<1>7. ASSUME NEW p \in Peers, NEW b \in Blocks, Receive(p, b) PROVE Whole'
  BY <1>7 DEF Receive, Whole
<1>8. ASSUME NEW b \in Mined, Submit(b) \/ Mine(b) PROVE Whole'
  BY <1>8 DEF Submit, Mine, Whole
<1>9. CASE UNCHANGED vars
  BY <1>9 DEF vars, Whole
<1> QED
  BY <1>1, <1>2, <1>3, <1>4, <1>5, <1>6, <1>7, <1>8, <1>9 DEF Next

\* Every block on the chain is sound, and the floor is not above the tip.
Grounded ==
    /\ \A i \in 2..Len(chain) : chain[i] \in Sound
    /\ floor <= Len(chain)

\* Adopting blocks above height first - 1, all sound and the last the heavier,
\* is what the abstract node may do.
LEMMA Adopts ==
    ASSUME TypeOK, Linked', Grounded, UNCHANGED floor,
           NEW first \in 1..Len(chain), floor <= first,
           NEW blks \in Seq(Blocks), Len(blks) > 0,
           chain' = SubSeq(chain, 1, first) \o blks,
           \A j \in 1..Len(blks) : blks[j] \in Sound,
           Weight[Tip(blks)] > Weight[Tip(chain)]
    PROVE  Abstract!Adopt /\ Grounded'
<1>1. /\ chain' \in Seq(Blocks) /\ Len(chain') = first + Len(blks)
      /\ \A i \in 1..first : chain'[i] = chain[i]
      /\ \A j \in 1..Len(blks) : chain'[first + j] = blks[j]
  BY SplicedLemma DEF TypeOK
<1>2. Len(blks) \in Nat /\ Len(chain) \in Nat /\ floor \in Nat /\ first \in Nat
  BY LenProperties DEF TypeOK
<1>3. ASSUME NEW i \in 2..Len(chain') PROVE chain'[i] \in Sound
  <2>1. CASE i <= first
    <3>1. i \in 1..first /\ i \in 2..Len(chain)
      BY <1>2, <2>1
    <3> QED
      BY <1>1, <3>1 DEF Grounded
  <2>2. CASE i > first
    <3>1. PICK j \in 1..Len(blks) : first + j = i
      <4>1. i - first \in 1..Len(blks) /\ first + (i - first) = i
        BY <1>1, <1>2, <2>2
      <4> QED
        BY <4>1
    <3> QED
      BY <1>1, <3>1
  <2> QED
    BY <1>1, <1>2, <2>1, <2>2
<1>4. Grounded'
  BY <1>1, <1>2, <1>3 DEF Grounded
<1>5. Abstract!IsSoundChain(chain')
  BY <1>3 DEF Linked, IsLinked, IsChain, Abstract!IsSoundChain, Abstract!IsChain
<1>6. Tip(chain') = Tip(blks)
  <2>1. Len(blks) \in 1..Len(blks)
    BY <1>2
  <2> QED
    BY <1>1, <2>1 DEF Tip
<1>7. Abstract!AgreeBelow(chain, chain', floor)
  BY <1>1, <1>2 DEF Abstract!AgreeBelow
<1> QED
  BY <1>4, <1>5, <1>6, <1>7 DEF Abstract!Adopt, Abstract!Tip, Tip

LEMMA OneAdopted ==
    ASSUME TypeOK, Linked, Linked', Grounded, UNCHANGED floor,
           NEW b \in Sound, Among(Parent[b], chain), floor <= Height[b],
           chain' = Replaced(chain, Height[b], b), OutweighsTip(b)
    PROVE  Abstract!Adopt /\ Grounded'
<1>1. b \in Blocks /\ b # Genesis
  BY SoundLemma
<1>2. Height[b] \in 1..Len(chain)
  BY <1>1, ForkPlace
<1>3. SubSeq(chain, 1, Height[b]) \in Seq(Blocks)
  BY <1>2, SubSeqProperties, ElementOfSeq, LenProperties DEF TypeOK
<1>4. chain' = SubSeq(chain, 1, Height[b]) \o <<b>>
  BY <1>1, <1>3, AppendIsConcat DEF Replaced
<1>5. PICK blks : blks = <<b>>
  OBVIOUS
<1>6. /\ blks \in Seq(Blocks) /\ Len(blks) = 1 /\ blks[1] = b
  BY <1>1, <1>5
<1>7. Len(blks) > 0 /\ Tip(blks) = b /\ \A j \in 1..Len(blks) : blks[j] \in Sound
  BY <1>6 DEF Tip
<1> QED
  BY <1>2, <1>4, <1>5, <1>6, <1>7, Adopts DEF OutweighsTip

\* Every step maps to one of the abstract node's or to a stutter.
LEMMA Maps ==
    ASSUME Inv, Inv', Whole, Grounded, [Next]_vars
    PROVE  [Abstract!Next]_Abstract!vars /\ Grounded'
<1> USE DEF Inv
<1>1. Len(chain) \in Nat /\ Len(chain) > 0 /\ floor \in Nat
  BY LenProperties DEF TypeOK
<1>2. CASE UNCHANGED <<chain, floor>>
  BY <1>2 DEF Abstract!vars, Grounded
<1>3. CASE RaiseFloor
  <2>1. FinalityDepth \in Nat
    BY ChainNodeAssumption
  <2>2. chain' = chain /\ floor' \in Nat /\ floor' > floor /\ floor' <= Len(chain)
    BY <1>1, <1>3, <2>1 DEF RaiseFloor
  <2> QED
    BY <2>2 DEF Abstract!Next, Abstract!Finalize, Grounded
<1>4. CASE AcceptBlock
  <2>1. PICK b : b = validating.blk
    OBVIOUS
  <2>2. /\ b \in Sound /\ chain' = Append(chain, b) /\ Parent[b] = Tip(chain)
        /\ floor <= Len(chain) /\ UNCHANGED floor
    BY <1>1, <1>4, <2>1 DEF AcceptBlock, TipUnmoved, Verdicts, CommitAllowed
  <2>3. b \in Blocks /\ b # Genesis /\ Weight[b] > Weight[Parent[b]]
    BY <2>2, SoundLemma
  <2>4. /\ Among(Parent[b], chain) /\ chain' = Replaced(chain, Height[b], b)
        /\ Height[b] = Len(chain)
    BY <2>2, <2>3, AppendReplaces
  <2>5. floor <= Height[b] /\ OutweighsTip(b)
    BY <2>2, <2>3, <2>4 DEF OutweighsTip
  <2> QED
    BY <2>2, <2>4, <2>5, OneAdopted DEF Abstract!Next
<1>5. ASSUME NEW t \in forkChecks, ReplaceTip(t)
      PROVE  Abstract!Adopt /\ Grounded'
  <2>1. PICK b : b = t.blk
    OBVIOUS
  <2>2. t.view = "whole"
    BY <1>5 DEF ReplaceTip, ForkVerdicts, Whole
  <2>3. b \in Sound
    BY <1>5, <2>1, <2>2 DEF ReplaceTip, ForkVerdicts, Verdicts
  <2>4. Height[b] \in Nat
    BY <2>3, SoundLemma, BlockTreeAssumption
  <2>5. /\ Among(Parent[b], chain) /\ OutweighsTip(b) /\ floor <= Height[b]
        /\ chain' = Replaced(chain, Height[b], b) /\ UNCHANGED floor
    BY <1>1, <1>5, <2>1, <2>4 DEF ReplaceTip, StillReplaces, CommitAllowed
  <2> QED
    BY <2>3, <2>5, OneAdopted
<1>6. CASE SessionCommits
  <2>1. PICK base : base = SessionBase
    OBVIOUS
  <2>2. PICK blks : blks = sync.staged
    OBVIOUS
  <2>3. /\ sync # NoSync /\ blks \in Seq(Blocks) /\ blks # <<>>
        /\ base \in 1..Len(chain)
    BY <1>6, <2>1, <2>2 DEF SessionCommits, Syncing, SyncSessions, TypeOK, SessionLinked
  <2>4. Len(blks) \in Nat /\ Len(blks) > 0
    BY <2>3, LenProperties, EmptySeq
  <2>5. \A j \in 1..Len(blks) : blks[j] \in Sound /\ Weight[blks[j]] > Weight[chain[base]]
    BY <2>1, <2>2, <2>3 DEF SessionLinked
  <2>6. Weight[Tip(blks)] > Weight[Tip(chain)]
    <3>1. CASE sync.committed
      <4>1. base = Len(chain) /\ Len(blks) \in 1..Len(blks)
        BY <2>1, <2>4, <3>1 DEF SessionBase
      <4> QED
        BY <2>5, <4>1 DEF Tip
    <3>2. CASE ~sync.committed
      BY <1>6, <2>2, <3>2 DEF SessionCommits, SessionTip, OutweighsTip
    <3> QED
      BY <3>1, <3>2
  <2>7. /\ floor <= base /\ UNCHANGED floor
        /\ chain' = SubSeq(chain, 1, base) \o blks
    BY <1>1, <1>6, <2>1, <2>2, <2>3 DEF SessionCommits, CommitAllowed
  <2> QED
    BY <2>3, <2>4, <2>5, <2>6, <2>7, Adopts DEF Abstract!Next
<1>7. Restart => UNCHANGED <<chain, floor>>
  BY DEF Restart
<1>8. Session => UNCHANGED <<chain, floor>> \/ SessionCommits
  BY DEF Session, StartSession, SessionApplies, EndSession
<1> QED
  BY <1>2, <1>3, <1>4, <1>5, <1>6, <1>7, <1>8, Moves DEF Abstract!Next

\* If the reads of a fork check see one chain, the node only ever moves to a
\* heavier chain of sound blocks that keeps what is below the floor, whatever
\* it was doing when a task's answer came (on_block_validated,
\* on_fork_block_checked, on_batches_applied, commit_chain).
THEOREM Follows ==
    ASSUME TornReads = FALSE
    PROVE  Spec => Implements
<1> DEFINE All == Inv /\ Whole /\ Grounded
<1>1. Init => All /\ Abstract!Init
  <2> SUFFICES ASSUME Init PROVE All /\ Abstract!Init
    OBVIOUS
  <2>1. Inv
    BY InvInit
  <2>2. Whole
    BY DEF Init, Whole
  <2>3. chain = <<Genesis>> /\ Len(chain) = 1 /\ floor = 0
    BY DEF Init
  <2>4. Grounded
    BY <2>3 DEF Grounded
  <2> QED
    BY <2>1, <2>2, <2>3, <2>4 DEF Abstract!Init
<1>2. All /\ [Next]_vars => All' /\ [Abstract!Next]_Abstract!vars
  BY InvStep, WholeStep, Maps DEF Inv
<1> QED
  BY <1>1, <1>2, PTL DEF Spec, Implements, Abstract!Spec

------------------------------------------------------------------------------
\* The queue is never left with nothing in front of it to serve it: the loop of
\* on_block_validated runs until it is empty or a block is being validated.
THEOREM QueueIsServed == Spec => []QueueServed
<1>1. Init => QueueServed
  BY DEF Init, QueueServed
<1>2. QueueServed /\ [Next]_vars => QueueServed'
  <2> SUFFICES ASSUME QueueServed, [Next]_vars PROVE QueueServed'
    OBVIOUS
  <2>1. CASE Handle
    BY <2>1 DEF Handle, Ignore, ScreenOrphan, RefuseTarget, Validate, QueueServed
  <2>2. CASE Validated
    BY <2>2 DEF Validated, ValidatedInSession, ValidatedTooLate, ValidatedRefused,
                AcceptBlock, AcceptFails, ValidationReported, QueueServed
  <2>3. CASE DrainQueue
    BY <2>3 DEF DrainQueue, DrainOn, QueueServed
  <2>4. CASE EndDrain
    BY <2>4 DEF EndDrain, QueueServed
  <2>5. ASSUME NEW t \in orphanChecks, OrphanChecked(t) PROVE QueueServed'
    BY <2>5 DEF OrphanChecked, OrphanRefused, OrphanOnTip, HoldOrphan, CheckForkBlock,
                QueueServed
  <2>6. ASSUME NEW t \in forkChecks, ForkChecked(t) PROVE QueueServed'
    BY <2>6 DEF ForkChecked, DeriveState, ReadWindows, ForkBlockRefused, ReplaceTip,
                QueueServed
  <2>7. CASE Session
    BY <2>7 DEF Session, StartSession, SessionApplies, SessionCommits, EndSession,
                QueueServed
  <2>8. CASE RaiseFloor \/ Restart
    BY <2>8 DEF RaiseFloor, Restart, QueueServed
  <2>9. ASSUME NEW p \in Peers, NEW b \in Blocks, Receive(p, b) PROVE QueueServed'
    BY <2>9 DEF Receive, QueueServed
  <2>10. ASSUME NEW b \in Mined, Submit(b) \/ Mine(b) PROVE QueueServed'
    BY <2>10 DEF Submit, Mine, QueueServed
  <2>11. CASE UNCHANGED vars
    BY <2>11 DEF vars, QueueServed
  <2> QED
    BY <2>1, <2>2, <2>3, <2>4, <2>5, <2>6, <2>7, <2>8, <2>9, <2>10, <2>11 DEF Next
<1> QED
  BY <1>1, <1>2, PTL DEF Spec

------------------------------------------------------------------------------
\* Whatever is being looked at was sent by whom it is said to come from.
SentBy(t) == t.from # Own => <<t.from, t.blk>> \in sent

Sourced ==
    /\ \A t \in orphanChecks : SentBy(t)
    /\ \A t \in forkChecks : SentBy(t)
    /\ validating # NoBlock => SentBy(validating)
    /\ \A i \in 1..Len(queue) : SentBy(queue[i])
    /\ \A i \in 1..Len(work) : SentBy(work[i])

LEMMA TailLemma ==
    ASSUME NEW S, NEW s \in Seq(S), s # <<>>
    PROVE  /\ Head(s) = s[1] /\ 1 \in 1..Len(s)
           /\ \A i \in 1..Len(Tail(s)) : i + 1 \in 1..Len(s) /\ Tail(s)[i] = s[i + 1]
  BY HeadTailProperties, LenProperties, EmptySeq

LEMMA SourcedHandle ==
    ASSUME TypeOK, Sourced, Handle
    PROVE  Sourced'
<1>1. work # <<>> /\ work \in Seq(Items) /\ queue \in Seq(Items) /\ sent' = sent
  BY DEF Handle, Ignore, ScreenOrphan, RefuseTarget, Validate, TypeOK
<1>2. PICK item \in Items : item = Head(work)
  BY <1>1, HeadTailProperties
<1>3. SentBy(item) /\ \A i \in 1..Len(Tail(work)) : SentBy(Tail(work)[i])
  BY <1>1, <1>2, TailLemma DEF Sourced
<1>4. work' = Tail(work)
  BY DEF Handle, Ignore, ScreenOrphan, RefuseTarget, Validate, Fresh, Handling
<1>5. forkChecks' = forkChecks
  BY DEF Handle, Ignore, ScreenOrphan, RefuseTarget, Validate
<1>6. \A t \in orphanChecks' : t \in orphanChecks \/ t = item
  BY <1>2 DEF Handle, Ignore, ScreenOrphan, RefuseTarget, Validate
<1>7. validating' = validating \/ validating' = item
  BY <1>2 DEF Handle, Ignore, ScreenOrphan, RefuseTarget, Validate
<1>8. queue' = queue \/ queue' = Append(queue, item)
  BY <1>2 DEF Handle, Ignore, ScreenOrphan, RefuseTarget, Validate
<1>9. \A i \in 1..Len(queue') : SentBy(queue'[i])
  <2>1. CASE queue' = queue
    BY <2>1 DEF Sourced
  <2>2. CASE queue' = Append(queue, item)
    <3>1. /\ Len(queue') = Len(queue) + 1 /\ Len(queue) \in Nat
          /\ \A i \in 1..Len(queue) : queue'[i] = queue[i]
          /\ queue'[Len(queue) + 1] = item
      BY <1>1, <2>2, AppendProperties, LenProperties
    <3> QED
      BY <1>3, <3>1 DEF Sourced
  <2> QED
    BY <1>8, <2>1, <2>2
<1>10. \A i \in 1..Len(work') : SentBy(work'[i])
  BY <1>3, <1>4
<1>11. /\ \A t \in orphanChecks' : SentBy(t)
       /\ \A t \in forkChecks' : SentBy(t)
       /\ validating' # NoBlock => SentBy(validating')
  BY <1>3, <1>5, <1>6, <1>7 DEF Sourced
<1> QED
  BY <1>1, <1>9, <1>10, <1>11 DEF Sourced, SentBy

LEMMA SourcedTaken ==
    ASSUME TypeOK, NEW b \in Blocks, TakeChildren(b)
    PROVE  \A i \in 1..Len(work') : work'[i].from = Own
<1>1. Len(orphans.byParent[b]) \in Nat
  BY LenProperties DEF TypeOK, Pools
<1> QED
  BY <1>1 DEF TakeChildren, Item

LEMMA SourcedStep ==
    ASSUME TypeOK, Sourced, [Next]_vars
    PROVE  Sourced'
<1>1. CASE Validated
  <2>1. validating \in Items /\ SentBy(validating) /\ validating.blk \in Blocks
    BY <1>1 DEF Validated, ValidatedInSession, ValidatedTooLate, ValidatedRefused,
       AcceptBlock, AcceptFails, ValidationReported, TypeOK, Items, Sourced
  <2>2. validating' = NoBlock /\ UNCHANGED <<orphanChecks, forkChecks, queue, sent>>
    BY <1>1 DEF Validated, ValidatedInSession, ValidatedTooLate, ValidatedRefused,
       AcceptBlock, AcceptFails, ValidationReported
  <2>3. CASE AcceptBlock
    BY <2>1, <2>2, <2>3, SourcedTaken DEF AcceptBlock, Sourced, SentBy
  <2>4. CASE ValidatedTooLate
    BY <2>1, <2>2, <2>4 DEF ValidatedTooLate, Sourced, SentBy
  <2>5. CASE work' = work
    BY <2>2, <2>5 DEF Sourced, SentBy
  <2> QED
    BY <1>1, <2>3, <2>4, <2>5 DEF Validated, ValidatedInSession, ValidatedRefused, AcceptFails
<1>2. CASE DrainQueue
  <2>1. queue \in Seq(Items) /\ queue # <<>>
    BY <1>2 DEF DrainQueue, TypeOK
  <2>2. SentBy(Head(queue)) /\ \A i \in 1..Len(Tail(queue)) : SentBy(Tail(queue)[i])
    BY <2>1, TailLemma DEF Sourced
  <2>3. work' = <<Head(queue)>> /\ queue' = Tail(queue)
    BY <1>2 DEF DrainQueue
  <2>4. \A i \in 1..Len(work') : work'[i] = Head(queue)
    BY <2>3
  <2> QED
    BY <1>2, <2>2, <2>3, <2>4 DEF DrainQueue, Sourced, SentBy
<1>3. ASSUME NEW t \in orphanChecks, OrphanChecked(t) PROVE Sourced'
  <2>1. SentBy(t) /\ t \in Items
    BY DEF Sourced, TypeOK
  <2>2. CASE OrphanOnTip(t)
    BY <2>1, <2>2 DEF OrphanOnTip, OrphanReported, Sourced, SentBy
  <2>3. CASE OrphanRefused(t) \/ HoldOrphan(t)
    BY <2>3 DEF OrphanRefused, HoldOrphan, OrphanReported, Sourced, SentBy
  <2>4. CASE CheckForkBlock(t)
    <3>1. \A u \in forkChecks' : u \in forkChecks \/ (u.blk = t.blk /\ u.from = t.from)
      BY <2>4 DEF CheckForkBlock
    <3> QED
      BY <2>1, <2>4, <3>1 DEF CheckForkBlock, OrphanReported, Sourced, SentBy
  <2> QED
    BY <1>3, <2>2, <2>3, <2>4 DEF OrphanChecked
<1>4. ASSUME NEW t \in forkChecks, ForkChecked(t) PROVE Sourced'
  <2>1. SentBy(t) /\ t \in ForkTasks /\ t.blk \in Blocks
    BY DEF Sourced, TypeOK, ForkTasks
  <2>2. ASSUME NEW view, Sees(t, view)
        PROVE  \A u \in forkChecks' : u \in forkChecks \/ (u.blk = t.blk /\ u.from = t.from)
    BY <2>1, <2>2 DEF Sees, ForkTasks
  <2>3. CASE DeriveState(t) \/ ReadWindows(t)
    <3>1. \A u \in forkChecks' : u \in forkChecks \/ (u.blk = t.blk /\ u.from = t.from)
      BY <2>2, <2>3 DEF DeriveState, ReadWindows
    <3> QED
      BY <2>1, <2>3, <3>1 DEF DeriveState, ReadWindows, Sourced, SentBy
  <2>4. CASE ForkBlockRefused(t)
    BY <2>4 DEF ForkBlockRefused, ForkReported, Sourced, SentBy
  <2>5. CASE ReplaceTip(t)
    BY <2>1, <2>5, SourcedTaken DEF ReplaceTip, ForkReported, Sourced, SentBy
  <2> QED
    BY <1>4, <2>3, <2>4, <2>5 DEF ForkChecked
<1>5. ASSUME NEW p \in Peers, NEW b \in Blocks, Receive(p, b) PROVE Sourced'
  <2>1. work' = <<Item(b, p)>> /\ sent' = sent \cup {<<p, b>>}
        /\ UNCHANGED <<orphanChecks, forkChecks, queue, validating>>
    BY <1>5 DEF Receive
  <2>2. \A i \in 1..Len(work') : work'[i].from = p /\ work'[i].blk = b
    BY <2>1 DEF Item
  <2> QED
    BY <2>1, <2>2 DEF Sourced, SentBy
<1>6. ASSUME NEW b \in Mined, Submit(b) \/ Mine(b) PROVE Sourced'
  <2>1. work' = <<Item(b, Own)>>
        /\ UNCHANGED <<orphanChecks, forkChecks, queue, validating, sent>>
    BY <1>6 DEF Submit, Mine
  <2>2. \A i \in 1..Len(work') : work'[i].from = Own
    BY <2>1 DEF Item
  <2> QED
    BY <2>1, <2>2 DEF Sourced, SentBy
<1>7. CASE EndDrain \/ RaiseFloor \/ UNCHANGED vars
  BY <1>7 DEF EndDrain, RaiseFloor, vars, Sourced, SentBy
<1>8. CASE Restart
  <2>1. /\ orphanChecks' = {} /\ forkChecks' = {} /\ validating' = NoBlock
        /\ Len(queue') = 0 /\ Len(work') = 0
    BY <1>8 DEF Restart
  <2> QED
    BY <2>1 DEF Sourced
<1>9. CASE Session
  BY <1>9 DEF Session, StartSession, SessionApplies, SessionCommits, EndSession,
              Sourced, SentBy
<1> QED
  BY <1>1, <1>2, <1>3, <1>4, <1>5, <1>6, <1>7, <1>8, <1>9, SourcedHandle DEF Next

\* Nobody is banned for a sound block, nor for one that was merely early.
LEMMA FairStep ==
    ASSUME TypeOK, Sourced, Whole, HonestNotBanned, [Next]_vars
    PROVE  HonestNotBanned'
<1>1. sent \subseteq sent'
  BY DEF Next, Handle, Ignore, ScreenOrphan, RefuseTarget, Validate,
         Validated, ValidatedInSession, ValidatedTooLate, ValidatedRefused,
         AcceptBlock, AcceptFails, DrainQueue, EndDrain, OrphanChecked, OrphanRefused,
         OrphanOnTip, HoldOrphan, CheckForkBlock, ForkChecked, DeriveState,
         ReadWindows, ForkBlockRefused, ReplaceTip, Session, StartSession,
         SessionApplies, SessionCommits, EndSession, RaiseFloor, Restart, Receive,
         Submit, Mine, vars
<1>2. ASSUME banned' = banned PROVE HonestNotBanned'
  BY <1>1, <1>2 DEF HonestNotBanned
<1>3. ASSUME NEW t, SentBy(t), t.blk \in Blocks \ Sound, banned' = Banned(t.from)
      PROVE  HonestNotBanned'
  BY <1>1, <1>3 DEF HonestNotBanned, Banned, SentBy
<1>4. CASE Validated
  <2>1. CASE ValidatedRefused
    <3>1. SentBy(validating) /\ validating.blk \in Blocks
      BY <2>1 DEF ValidatedRefused, ValidationReported, Sourced, TypeOK, Items
    <3>2. banned' = banned
          \/ (validating.blk \notin Sound /\ banned' = Banned(validating.from))
      BY <2>1 DEF ValidatedRefused, Verdicts
    <3> QED
      BY <1>2, <1>3, <3>1, <3>2
  <2>2. CASE ~ValidatedRefused
    BY <1>2, <1>4, <2>2 DEF Validated, ValidatedInSession, ValidatedTooLate, AcceptBlock,
                            AcceptFails
  <2> QED
    BY <2>1, <2>2
<1>5. ASSUME NEW t \in orphanChecks, OrphanChecked(t) PROVE HonestNotBanned'
  <2>1. SentBy(t) /\ t.blk \in Blocks
    BY DEF Sourced, TypeOK, Items
  <2>2. banned' = banned \/ (t.blk \notin Sound /\ banned' = Banned(t.from))
    BY <1>5 DEF OrphanChecked, OrphanRefused, OrphanOnTip, HoldOrphan, CheckForkBlock, Sound
  <2> QED
    BY <1>2, <1>3, <2>1, <2>2
<1>6. ASSUME NEW t \in forkChecks, ForkChecked(t) PROVE HonestNotBanned'
  <2>1. SentBy(t) /\ t.blk \in Blocks /\ t.view \notin {"windows", "torn"}
    BY DEF Sourced, TypeOK, ForkTasks, Whole
  <2>2. "bad" \in ForkVerdicts(t) => t.blk \notin Sound
    BY <2>1 DEF ForkVerdicts, Verdicts
  <2>3. banned' = banned \/ (t.blk \notin Sound /\ banned' = Banned(t.from))
    BY <1>6, <2>2 DEF ForkChecked, DeriveState, ReadWindows, ForkBlockRefused, ReplaceTip
  <2> QED
    BY <1>2, <1>3, <2>1, <2>3
<1>7. CASE Handle
  BY <1>2, <1>7 DEF Handle, Ignore, ScreenOrphan, RefuseTarget, Validate
<1>8. CASE DrainQueue \/ EndDrain \/ RaiseFloor \/ Restart \/ UNCHANGED vars
  BY <1>2, <1>8 DEF DrainQueue, EndDrain, RaiseFloor, Restart, vars
<1>9. CASE Session
  BY <1>2, <1>9 DEF Session, StartSession, SessionApplies, SessionCommits, EndSession
<1>10. ASSUME NEW p \in Peers, NEW b \in Blocks, Receive(p, b) PROVE HonestNotBanned'
  BY <1>2, <1>10 DEF Receive
<1>11. ASSUME NEW b \in Mined, Submit(b) \/ Mine(b) PROVE HonestNotBanned'
  BY <1>2, <1>11 DEF Submit, Mine
<1> QED
  BY <1>4, <1>5, <1>6, <1>7, <1>8, <1>9, <1>10, <1>11 DEF Next

\* If the reads of a fork check see one chain, a peer is only ever banned for a
\* block that breaks a rule (on_block_validated, on_orphan_checked,
\* on_fork_block_checked).
THEOREM OnlyForBadBlocks ==
    ASSUME TornReads = FALSE
    PROVE  Spec => []HonestNotBanned
<1> DEFINE Fair == Inv /\ Whole /\ Sourced /\ HonestNotBanned
<1>1. Init => Fair
  <2> SUFFICES ASSUME Init PROVE Fair
    OBVIOUS
  <2>1. Len(queue) = 0 /\ Len(work) = 0 /\ orphanChecks = {} /\ forkChecks = {}
        /\ validating = NoBlock /\ banned = {}
    BY DEF Init
  <2> QED
    BY <2>1, InvInit DEF Whole, Sourced, HonestNotBanned
<1>2. Fair /\ [Next]_vars => Fair'
  BY InvStep, WholeStep, SourcedStep, FairStep DEF Inv
<1>3. Fair => HonestNotBanned
  OBVIOUS
<1> QED
  BY <1>1, <1>2, <1>3, PTL DEF Spec

------------------------------------------------------------------------------
\* Sets with at most one member.
LEMMA AtMostOne ==
    ASSUME NEW S, \A x, y \in S : x = y
    PROVE  Cardinality(S) = IF S = {} THEN 0 ELSE 1
<1>1. CASE S = {}
  BY <1>1, FS_EmptySet
<1>2. CASE S # {}
  <2>1. PICK x : S = {x}
    BY <1>2
  <2> QED
    BY <2>1, FS_Singleton
<1> QED
  BY <1>1, <1>2

------------------------------------------------------------------------------
(* The pool as its code keeps it: no parent twice in the order, and in it
   exactly while it has children. *)
Kept(pool, limit) ==
    /\ Len(pool.order) <= limit
    /\ \A p \in Blocks : Len(pool.byParent[p]) <= OrphansPerParent
    /\ \A i, j \in 1..Len(pool.order) : pool.order[i] = pool.order[j] => i = j
    /\ \A p \in Blocks : pool.byParent[p] = <<>> <=> ~Among(p, pool.order)

\* What OrphanPoolSound says with cardinalities.
LEMMA KeptIsSound ==
    ASSUME orphans \in Pools, Kept(orphans, OrphanLimit)
    PROVE  OrphanPoolSound
<1>1. ASSUME NEW p \in Blocks
      PROVE  Cardinality({i \in 1..Len(orphans.order) : orphans.order[i] = p})
                = (IF orphans.byParent[p] = <<>> THEN 0 ELSE 1)
  <2> DEFINE S == {i \in 1..Len(orphans.order) : orphans.order[i] = p}
  <2>1. \A x, y \in S : x = y
    BY DEF Kept
  <2>2. Cardinality(S) = IF S = {} THEN 0 ELSE 1
    BY <2>1, AtMostOne
  <2>3. S = {} <=> orphans.byParent[p] = <<>>
    BY DEF Kept, Among
  <2> QED
    BY <2>2, <2>3
<1> QED
  BY <1>1 DEF Kept, OrphanPoolSound

\* A sequence without its entry i, as take_children writes it, and where what
\* is left was: what followed the entry moves up by one.
Cut(order, i) == SubSeq(order, 1, i - 1) \o SubSeq(order, i + 1, Len(order))
Skip(j, i) == IF j < i THEN j ELSE j + 1

\* The entries of a front part, of a back part, and of two sequences joined.
LEMMA Front == ASSUME NEW order \in Seq(Blocks), NEW m \in Int, m >= 0, m <= Len(order)
   PROVE /\ SubSeq(order, 1, m) \in Seq(Blocks) /\ Len(SubSeq(order, 1, m)) = m
      /\ \A j \in 1..m : SubSeq(order, 1, m)[j] = order[j]
  BY SubSeqProperties, ElementOfSeq, LenProperties

LEMMA Back == ASSUME NEW order \in Seq(Blocks), NEW m \in Int, m >= 1, m <= Len(order) + 1
   PROVE /\ SubSeq(order, m, Len(order)) \in Seq(Blocks) /\ Len(SubSeq(order, m, Len(order))) = Len(order) - m + 1
      /\ \A j \in 1..(Len(order) - m + 1) : SubSeq(order, m, Len(order))[j] = order[m + j - 1]
<1>1. Len(order) \in Nat /\ \A i \in m..Len(order) : order[i] \in Blocks
  BY ElementOfSeq, LenProperties
<1> QED
  BY <1>1, SubSeqProperties

LEMMA Join ==
    ASSUME NEW f \in Seq(Blocks), NEW g \in Seq(Blocks)
    PROVE  /\ Len(f \o g) = Len(f) + Len(g)
           /\ \A j \in 1..Len(f) : (f \o g)[j] = f[j]
           /\ \A j \in 1..Len(g) : (f \o g)[Len(f) + j] = g[j]
<1>1. /\ Len(f) \in Nat /\ Len(g) \in Nat
      /\ \A i \in 1 .. Len(f) + Len(g) : (f \o g)[i] = IF i <= Len(f) THEN f[i] ELSE g[i - Len(f)]
  BY ConcatProperties, LenProperties
<1>2. Len(f \o g) = Len(f) + Len(g)
  BY ConcatProperties
<1>3. ASSUME NEW j \in 1..Len(g) PROVE (f \o g)[Len(f) + j] = g[j]
  <2>1. Len(f) + j \in 1..(Len(f) + Len(g)) /\ ~(Len(f) + j <= Len(f)) /\ (Len(f) + j) - Len(f) = j
    BY <1>1
  <2> QED
    BY <1>1, <2>1
<1>4. ASSUME NEW j \in 1..Len(f) PROVE (f \o g)[j] = f[j]
  <2>1. j \in 1..(Len(f) + Len(g)) /\ j <= Len(f)
    BY <1>1
  <2> QED
    BY <1>1, <2>1
<1> QED
  BY <1>2, <1>3, <1>4

LEMMA SkipLemma ==
    ASSUME NEW len \in Nat, NEW i \in 1..len, NEW short \in Int, short + 1 = len
    PROVE  /\ \A j \in 1..short : Skip(j, i) \in 1..len /\ Skip(j, i) # i
           /\ \A j, k \in 1..short : Skip(j, i) = Skip(k, i) => j = k
           /\ \A m \in 1..len : m # i => \E j \in 1..short : Skip(j, i) = m
<1>1. ASSUME NEW m \in 1..len, m # i PROVE \E j \in 1..short : Skip(j, i) = m
  <2>1. CASE m < i
    <3>1. m \in 1..short /\ Skip(m, i) = m
      BY <2>1 DEF Skip
    <3> QED
      BY <3>1
  <2>2. CASE m > i
    <3>1. m - 1 \in 1..short /\ Skip(m - 1, i) = m
      BY <2>2 DEF Skip
    <3> QED
      BY <3>1
  <2> QED
    BY <1>1, <2>1, <2>2
<1> QED
  BY <1>1 DEF Skip

LEMMA CutSkips ==
    ASSUME NEW order \in Seq(Blocks), NEW i \in 1..Len(order)
    PROVE  /\ Len(Cut(order, i)) \in Nat /\ Len(Cut(order, i)) + 1 = Len(order)
           /\ \A j \in 1..Len(Cut(order, i)) : Cut(order, i)[j] = order[Skip(j, i)]
<1>1. PICK len \in Nat : len = Len(order)
  BY LenProperties
<1>2. i \in 1..len
  BY <1>1
<1>3. PICK m \in Nat : m + 1 = i
  <2>1. i - 1 \in Nat /\ (i - 1) + 1 = i
    BY <1>2
  <2> QED
    BY <2>1
<1>4. PICK k \in Nat : i + k = len
  <2>1. len - i \in Nat /\ i + (len - i) = len
    BY <1>2
  <2> QED
    BY <2>1
<1>5. /\ Len(Cut(order, i)) = m + k
      /\ \A j \in 1..m : Cut(order, i)[j] = order[j]
      /\ \A j \in 1..k : Cut(order, i)[m + j] = order[i + j]
  <2>1. PICK front : front = SubSeq(order, 1, m)
    OBVIOUS
  <2>2. PICK back : back = SubSeq(order, i + 1, len)
    OBVIOUS
  <2>3. /\ front \in Seq(Blocks) /\ Len(front) = m
        /\ \A j \in 1..m : front[j] = order[j]
    BY <1>1, <1>2, <1>3, <2>1, Front
  <2>4. /\ back \in Seq(Blocks) /\ Len(back) = k
        /\ \A j \in 1..k : back[j] = order[i + j]
    <3>1. /\ back \in Seq(Blocks) /\ Len(back) = len - (i + 1) + 1
          /\ \A j \in 1..(len - (i + 1) + 1) : back[j] = order[(i + 1) + j - 1]
      BY <1>1, <1>2, <2>2, Back
    <3>2. len - (i + 1) + 1 = k
      BY <1>1, <1>2, <1>4
    <3>3. \A j \in 1..k : (i + 1) + j - 1 = i + j
      BY <1>2
    <3> QED
      BY <3>1, <3>2, <3>3
  <2>5. Cut(order, i) = front \o back
    <3>1. i - 1 = m
      BY <1>2, <1>3
    <3> QED
      BY <1>1, <2>1, <2>2, <3>1 DEF Cut
  <2>6. /\ Len(front \o back) = m + k
        /\ \A j \in 1..m : (front \o back)[j] = front[j]
        /\ \A j \in 1..k : (front \o back)[m + j] = back[j]
    BY <2>3, <2>4, Join
  <2> QED
    BY <2>3, <2>4, <2>5, <2>6
<1>6. ASSUME NEW j \in 1..(m + k) PROVE Cut(order, i)[j] = order[Skip(j, i)]
  <2>1. CASE j <= m
    <3>1. j \in 1..m /\ Skip(j, i) = j
      BY <1>3, <2>1 DEF Skip
    <3> QED
      BY <1>5, <3>1
  <2>2. CASE j > m
    <3>1. j - m \in 1..k /\ m + (j - m) = j /\ i + (j - m) = Skip(j, i)
      BY <1>3, <2>2 DEF Skip
    <3> QED
      BY <1>5, <3>1
  <2> QED
    BY <2>1, <2>2
<1>7. m + k \in Nat /\ (m + k) + 1 = len
  BY <1>3, <1>4
<1> QED
  BY <1>1, <1>5, <1>6, <1>7

LEMMA CutLemma ==
    ASSUME NEW order \in Seq(Blocks), NEW i \in 1..Len(order),
           \A j, l \in 1..Len(order) : order[j] = order[l] => j = l
    PROVE  /\ Len(Cut(order, i)) \in Nat /\ Len(Cut(order, i)) + 1 = Len(order)
           /\ \A j, l \in 1..Len(Cut(order, i)) :
                 Cut(order, i)[j] = Cut(order, i)[l] => j = l
           /\ \A p : Among(p, Cut(order, i)) <=> Among(p, order) /\ p # order[i]
<1>1. /\ Len(Cut(order, i)) \in Nat /\ Len(Cut(order, i)) + 1 = Len(order)
      /\ \A j \in 1..Len(Cut(order, i)) : Cut(order, i)[j] = order[Skip(j, i)]
  BY CutSkips
<1>2. Len(order) \in Nat
  BY LenProperties
<1>3. /\ \A j \in 1..Len(Cut(order, i)) : Skip(j, i) \in 1..Len(order) /\ Skip(j, i) # i
      /\ \A j, k \in 1..Len(Cut(order, i)) : Skip(j, i) = Skip(k, i) => j = k
      /\ \A m \in 1..Len(order) : m # i => \E j \in 1..Len(Cut(order, i)) : Skip(j, i) = m
  BY <1>1, <1>2, SkipLemma
<1>4. \A j, l \in 1..Len(Cut(order, i)) : Cut(order, i)[j] = Cut(order, i)[l] => j = l
  <2>1. PICK cut : cut = Cut(order, i)
    OBVIOUS
  <2>2. ASSUME NEW j \in 1..Len(cut), NEW l \in 1..Len(cut), cut[j] = cut[l]
        PROVE  Skip(j, i) = Skip(l, i)
    <3>1. cut[j] = order[Skip(j, i)] /\ cut[l] = order[Skip(l, i)]
      BY <1>1, <2>1
    <3> QED
      BY <1>3, <2>1, <2>2, <3>1
  <2> QED
    BY <1>3, <2>1, <2>2
<1>5. \A p : Among(p, Cut(order, i)) => Among(p, order) /\ p # order[i]
  BY <1>1, <1>3, Zenon DEF Among
<1>6. \A p : Among(p, order) /\ p # order[i] => Among(p, Cut(order, i))
  BY <1>1, <1>3, Zenon DEF Among
<1> QED
  BY <1>1, <1>4, <1>5, <1>6

\* take_children leaves the pool kept, and empty of the block's children.
LEMMA TakeKeeps ==
    ASSUME orphans \in Pools, Kept(orphans, OrphanLimit), NEW b \in Blocks, TakeChildren(b)
    PROVE  Kept(orphans', OrphanLimit) /\ orphans'.byParent[b] = <<>>
<1>1. orphans.order \in Seq(Blocks) /\ Len(orphans.order) \in Nat /\ OrphanLimit \in Nat
  BY ChainNodeAssumption, LenProperties DEF Pools
<1>2. CASE ~Among(b, orphans.order) /\ UNCHANGED orphans
  BY <1>2 DEF Kept
<1>3. ASSUME NEW i \in 1..Len(orphans.order), orphans.order[i] = b,
             orphans' = WithoutParents(orphans, {b},
                     SubSeq(orphans.order, 1, i - 1)
                         \o SubSeq(orphans.order, i + 1, Len(orphans.order)))
      PROVE  Kept(orphans', OrphanLimit) /\ orphans'.byParent[b] = <<>>
  <2>00. PICK cut : cut = Cut(orphans.order, i)
    OBVIOUS
  <2>0. \A j, k \in 1..Len(orphans.order) : orphans.order[j] = orphans.order[k] => j = k
    BY DEF Kept
  <2>1. /\ Len(cut) \in Nat /\ Len(cut) + 1 = Len(orphans.order)
        /\ \A j, k \in 1..Len(cut) : cut[j] = cut[k] => j = k
        /\ \A p : Among(p, cut) <=> Among(p, orphans.order) /\ p # b
    <3>1. PICK order : order = orphans.order
      OBVIOUS
    <3>2. /\ order \in Seq(Blocks) /\ i \in 1..Len(order) /\ order[i] = b /\ cut = Cut(order, i)
          /\ \A j, k \in 1..Len(order) : order[j] = order[k] => j = k
      BY <1>1, <1>3, <2>00, <2>0, <3>1
    <3>3. /\ Len(Cut(order, i)) \in Nat /\ Len(Cut(order, i)) + 1 = Len(order)
          /\ \A j, k \in 1..Len(Cut(order, i)) : Cut(order, i)[j] = Cut(order, i)[k] => j = k
          /\ \A p : Among(p, Cut(order, i)) <=> Among(p, order) /\ p # order[i]
      BY <3>2, CutLemma
    <3> QED
      BY <3>1, <3>2, <3>3
  <2>2. /\ orphans'.order = cut
        /\ \A p \in Blocks : orphans'.byParent[p] = IF p = b THEN <<>> ELSE orphans.byParent[p]
    BY <1>3, <2>00 DEF WithoutParents, Cut
  <2>3. OrphansPerParent \in Nat /\ Len(<<>>) = 0
    BY ChainNodeAssumption
  <2>4. \A p \in Blocks : Len(orphans'.byParent[p]) <= OrphansPerParent
    BY <2>2, <2>3 DEF Kept
  <2>5. \A p \in Blocks : orphans'.byParent[p] = <<>> <=> ~Among(p, orphans'.order)
    BY <2>1, <2>2 DEF Kept
  <2>6. Len(orphans'.order) <= OrphanLimit
    BY <1>1, <2>1, <2>2 DEF Kept
  <2> QED
    BY <2>1, <2>2, <2>4, <2>5, <2>6 DEF Kept
<1> QED
  BY <1>2, <1>3 DEF TakeChildren

\* Evicting the older half brings a pool that is one parent over back.
LEMMA EvictKeeps ==
    ASSUME NEW pool \in Pools, Kept(pool, OrphanLimit + 1)
    PROVE  Kept(Evicted(pool), OrphanLimit)
<1>0. PICK order : order = pool.order
  OBVIOUS
<1>1. PICK n : n = OrphanLimit \div 2
  OBVIOUS
<1>2. /\ OrphanLimit \in Nat /\ order \in Seq(Blocks) /\ Len(order) \in Nat
      /\ n \in Nat /\ n >= 1 /\ n <= OrphanLimit
  BY <1>0, <1>1, ChainNodeAssumption, LenProperties DEF Pools
<1>3. /\ \A i, j \in 1..Len(order) : order[i] = order[j] => i = j
      /\ Len(order) <= OrphanLimit + 1
      /\ \A p \in Blocks : pool.byParent[p] = <<>> <=> ~Among(p, order)
      /\ \A p \in Blocks : Len(pool.byParent[p]) <= OrphansPerParent
  BY <1>0 DEF Kept
<1>4. CASE ~(Len(order) > OrphanLimit)
  <2>1. Evicted(pool) = pool
    BY <1>0, <1>4 DEF Evicted
  <2>2. Len(order) <= OrphanLimit
    BY <1>2, <1>4
  <2> QED
    BY <1>0, <1>3, <2>1, <2>2 DEF Kept
<1>5. CASE Len(order) > OrphanLimit
  <2>0. PICK rest : rest = SubSeq(order, n + 1, Len(order))
    OBVIOUS
  <2>1. PICK gone : gone = {order[i] : i \in 1..n}
    OBVIOUS
  <2>2. /\ Len(rest) = Len(order) - n
        /\ \A i \in 1..(Len(order) - n) : rest[i] = order[n + i]
    <3>1. /\ Len(rest) = Len(order) - (n + 1) + 1
          /\ \A i \in 1..(Len(order) - (n + 1) + 1) : rest[i] = order[(n + 1) + i - 1]
      <4>1. n + 1 \in Int /\ n + 1 >= 1 /\ n + 1 <= Len(order) + 1
        BY <1>2, <1>5
      <4> QED
        BY <1>2, <2>0, <4>1, Back
    <3>2. Len(order) - (n + 1) + 1 = Len(order) - n
      BY <1>2
    <3>3. ASSUME NEW i \in 1..(Len(order) - n) PROVE rest[i] = order[n + i]
      <4>1. (n + 1) + i - 1 = n + i
        BY <1>2
      <4> QED
        BY <3>1, <3>2, <4>1
    <3> QED
      BY <3>1, <3>2, <3>3
  <2>3. /\ Evicted(pool).order = rest
        /\ \A p \in Blocks :
              Evicted(pool).byParent[p] = IF p \in gone THEN <<>> ELSE pool.byParent[p]
    <3>1. Evicted(pool) = WithoutParents(pool, gone, rest)
      BY <1>0, <1>1, <1>5, <2>0, <2>1 DEF Evicted
    <3> QED
      BY <3>1 DEF WithoutParents
  <2>4. Len(rest) <= OrphanLimit
    BY <1>2, <1>3, <2>2
  <2>5. \A i, j \in 1..Len(rest) : rest[i] = rest[j] => i = j
    <3> TAKE i, j \in 1..Len(rest)
    <3>1. n + i \in 1..Len(order) /\ n + j \in 1..Len(order) /\ i \in Int /\ j \in Int
      BY <1>2, <2>2
    <3>2. rest[i] = order[n + i] /\ rest[j] = order[n + j]
      BY <1>2, <2>2
    <3>3. order[n + i] = order[n + j] => n + i = n + j
      BY <1>3, <3>1
    <3> QED
      BY <1>2, <3>1, <3>2, <3>3
  <2>6. ASSUME NEW p PROVE Among(p, rest) <=> Among(p, order) /\ p \notin gone
    <3>1. ASSUME NEW i \in 1..Len(rest), rest[i] = p
          PROVE  Among(p, order) /\ p \notin gone
      <4>1. i \in Nat /\ i >= 1 /\ n + i \in 1..Len(order) /\ order[n + i] = p
        BY <1>2, <2>2, <3>1
      <4>2. ASSUME NEW j \in 1..n, order[j] = p PROVE FALSE
        <5>1. j \in 1..Len(order) /\ j # n + i
          BY <1>2, <1>5, <4>1
        <5> QED
          BY <1>3, <4>1, <4>2, <5>1
      <4> QED
        BY <2>1, <4>1, <4>2 DEF Among
    <3>2. ASSUME NEW j \in 1..Len(order), order[j] = p, p \notin gone
          PROVE  Among(p, rest)
      <4>1. ~(j <= n)
        <5>1. j <= n => j \in 1..n
          BY <1>2
        <5> QED
          BY <2>1, <3>2, <5>1
      <4>2. j - n \in 1..Len(rest) /\ n + (j - n) = j
        BY <1>2, <2>2, <4>1
      <4>3. rest[j - n] = p
        BY <1>2, <2>2, <3>2, <4>2
      <4> QED
        BY <4>2, <4>3 DEF Among
    <3> QED
      BY <3>1, <3>2 DEF Among
  <2>7. OrphansPerParent \in Nat /\ Len(<<>>) = 0
    BY ChainNodeAssumption
  <2>8. \A p \in Blocks : Len(Evicted(pool).byParent[p]) <= OrphansPerParent
    BY <1>3, <2>3, <2>7
  <2>9. \A p \in Blocks : Evicted(pool).byParent[p] = <<>> <=> ~Among(p, rest)
    <3> TAKE p \in Blocks
    <3>1. p \in gone => Among(p, order)
      <4>1. \A i \in 1..n : i \in 1..Len(order)
        BY <1>2, <1>5
      <4> QED
        BY <2>1, <4>1 DEF Among
    <3>2. pool.byParent[p] = <<>> <=> ~Among(p, order)
      BY <1>3
    <3> QED
      BY <2>3, <2>6, <3>1, <3>2
  <2> QED
    BY <2>3, <2>4, <2>5, <2>8, <2>9 DEF Kept
<1> QED
  BY <1>4, <1>5

\* insert keeps the pool, and touches the children of no parent but the
\* block's except to drop them.
LEMMA HeldKeeps ==
    ASSUME NEW pool \in Pools, Kept(pool, OrphanLimit), NEW b \in Blocks, b # Genesis
    PROVE  /\ Kept(Held(b, pool), OrphanLimit)
           /\ \A p \in Blocks : p # Parent[b] /\ pool.byParent[p] = <<>>
                                  => Held(b, pool).byParent[p] = <<>>
<1>0. PICK list : list = pool.byParent[Parent[b]]
  OBVIOUS
<1>1. /\ Parent[b] \in Blocks /\ OrphanLimit \in Nat /\ OrphansPerParent \in Nat
      /\ list \in Seq(Blocks \ {Genesis}) /\ Len(list) \in Nat
      /\ pool.order \in Seq(Blocks) /\ Len(pool.order) \in Nat
      /\ pool.byParent \in [Blocks -> Seq(Blocks \ {Genesis})]
  <2>1. Parent[b] \in Blocks
    BY ParentLemma
  <2> QED
    BY <1>0, <2>1, ChainNodeAssumption, LenProperties DEF Pools
<1>2. CASE Among(b, list) \/ Len(list) >= OrphansPerParent
  BY <1>0, <1>2 DEF Held
<1>3. CASE ~(Among(b, list) \/ Len(list) >= OrphansPerParent)
  <2>0. PICK grown :
           grown = [byParent |-> [pool.byParent EXCEPT ![Parent[b]] = Append(@, b)],
                    order |-> IF list = <<>> THEN Append(pool.order, Parent[b])
                                             ELSE pool.order]
    OBVIOUS
  <2>1. Held(b, pool) = Evicted(grown)
    BY <1>0, <1>3, <2>0 DEF Held
  <2>2. /\ Append(list, b) \in Seq(Blocks \ {Genesis}) /\ Append(list, b) # <<>>
        /\ Len(Append(list, b)) = Len(list) + 1
    <3>1. list \in Seq(Blocks \ {Genesis}) /\ b \in Blocks \ {Genesis}
      BY <1>1
    <3> QED
      BY <3>1, AppendProperties
  <2>3. /\ Append(pool.order, Parent[b]) \in Seq(Blocks)
        /\ Len(Append(pool.order, Parent[b])) = Len(pool.order) + 1
        /\ \A i \in 1..Len(pool.order) : Append(pool.order, Parent[b])[i] = pool.order[i]
        /\ Append(pool.order, Parent[b])[Len(pool.order) + 1] = Parent[b]
    BY <1>1, AppendProperties
  <2>4. grown \in Pools
    BY <1>0, <1>1, <2>0, <2>2, <2>3 DEF Pools
  <2>5. \A p \in Blocks : grown.byParent[p] = IF p = Parent[b] THEN Append(list, b)
                                                               ELSE pool.byParent[p]
    BY <1>0, <1>1, <2>0
  <2>6. grown.order = IF list = <<>> THEN Append(pool.order, Parent[b]) ELSE pool.order
    BY <2>0
  <2>7. \A p \in Blocks : Len(grown.byParent[p]) <= OrphansPerParent
    <3>1. ASSUME NEW p \in Blocks PROVE Len(grown.byParent[p]) <= OrphansPerParent
      <4>1. CASE p = Parent[b]
        <5>1. grown.byParent[p] = Append(list, b)
          BY <2>5, <4>1
        <5>2. Len(list) + 1 <= OrphansPerParent
          BY <1>1, <1>3
        <5> QED
          BY <2>2, <5>1, <5>2
      <4>2. CASE p # Parent[b]
        BY <2>5, <4>2 DEF Kept
      <4> QED
        BY <4>1, <4>2
    <3> QED
      BY <3>1
  <2>8. /\ Len(grown.order) <= OrphanLimit + 1
        /\ \A i, j \in 1..Len(grown.order) : grown.order[i] = grown.order[j] => i = j
        /\ \A p \in Blocks : Among(p, grown.order) <=> Among(p, pool.order) \/ p = Parent[b]
    <3>1. CASE list # <<>>
      <4>1. Among(Parent[b], pool.order)
        BY <1>0, <1>1, <3>1 DEF Kept
      <4> QED
        BY <1>1, <2>6, <3>1, <4>1 DEF Kept
    <3>2. CASE list = <<>>
      <4>1. ~Among(Parent[b], pool.order)
        BY <1>0, <1>1, <3>2 DEF Kept
      <4>2. /\ Len(grown.order) = Len(pool.order) + 1
            /\ \A i \in 1..Len(pool.order) : grown.order[i] = pool.order[i]
            /\ grown.order[Len(pool.order) + 1] = Parent[b]
        BY <2>3, <2>6, <3>2
      <4>3. \A i \in 1..Len(grown.order) :
               i \in 1..Len(pool.order) \/ i = Len(pool.order) + 1
        BY <1>1, <4>2
      <4>4. \A i, j \in 1..Len(grown.order) : grown.order[i] = grown.order[j] => i = j
        BY <4>1, <4>2, <4>3 DEF Kept, Among
      <4>5. \A i \in 1..Len(pool.order) : i \in 1..Len(grown.order)
        BY <1>1, <4>2
      <4>6. Len(pool.order) + 1 \in 1..Len(grown.order)
        BY <1>1, <4>2
      <4>7. \A p \in Blocks : Among(p, grown.order) <=> Among(p, pool.order) \/ p = Parent[b]
        BY <4>2, <4>3, <4>5, <4>6 DEF Among
      <4>8. Len(grown.order) <= OrphanLimit + 1
        BY <1>1, <4>2 DEF Kept
      <4> QED
        BY <4>4, <4>7, <4>8
    <3> QED
      BY <3>1, <3>2
  <2>9. \A p \in Blocks : grown.byParent[p] = <<>> <=> ~Among(p, grown.order)
    <3>1. ASSUME NEW p \in Blocks PROVE grown.byParent[p] = <<>> <=> ~Among(p, grown.order)
      <4>1. CASE p = Parent[b]
        BY <2>2, <2>5, <2>8, <4>1
      <4>2. CASE p # Parent[b]
        BY <1>1, <2>5, <2>8, <4>2 DEF Kept
      <4> QED
        BY <4>1, <4>2
    <3> QED
      BY <3>1
  <2>10. Kept(grown, OrphanLimit + 1)
    BY <2>7, <2>8, <2>9 DEF Kept
  <2>11. \A p \in Blocks : Evicted(grown).byParent[p] \in {<<>>, grown.byParent[p]}
    BY DEF Evicted, WithoutParents
  <2> QED
    BY <2>1, <2>4, <2>5, <2>10, <2>11, EvictKeeps
<1> QED
  BY <1>2, <1>3

------------------------------------------------------------------------------
\* The places where a block is checked or waits to be.
Screened(b) == \E t \in orphanChecks : t.blk = b
Forking(b) == \E t \in forkChecks : t.blk = b
Validating(b) == validating # NoBlock /\ validating.blk = b
Queued(b) == \E i \in 1..Len(queue) : queue[i].blk = b

(* One check for each block in each place, and no block in two of them: a
   fork check is one task, whose view changes as it reads. *)
Once ==
    /\ \A t, u \in orphanChecks : t.blk = u.blk => t = u
    /\ \A t, u \in forkChecks : t.blk = u.blk => t = u
    /\ \A i, j \in 1..Len(queue) : queue[i].blk = queue[j].blk => i = j

Apart ==
    \A b \in Blocks :
        /\ Screened(b) => ~Forking(b) /\ ~Validating(b) /\ ~Queued(b)
        /\ Forking(b) => ~Validating(b) /\ ~Queued(b)
        /\ Validating(b) => ~Queued(b)

LEMMA OnceIsOnePlace ==
    ASSUME Once, Apart, NEW b \in Blocks
    PROVE  Places(b) <= 1
<1>1. PICK s : s = {t \in orphanChecks : t.blk = b}
  OBVIOUS
<1>2. PICK f : f = {t \in forkChecks : t.blk = b}
  OBVIOUS
<1>3. PICK q : q = {i \in 1..Len(queue) : queue[i].blk = b}
  OBVIOUS
<1>4. PICK v : v = IF validating # NoBlock /\ validating.blk = b THEN 1 ELSE 0
  OBVIOUS
<1>5. Cardinality(s) = IF s = {} THEN 0 ELSE 1
  <2>1. \A x, y \in s : x = y
    BY <1>1 DEF Once
  <2> QED
    BY <2>1, AtMostOne
<1>6. Cardinality(f) = IF f = {} THEN 0 ELSE 1
  <2>1. \A x, y \in f : x = y
    BY <1>2 DEF Once
  <2> QED
    BY <2>1, AtMostOne
<1>7. Cardinality(q) = IF q = {} THEN 0 ELSE 1
  <2>1. \A x, y \in q : x = y
    BY <1>3 DEF Once
  <2> QED
    BY <2>1, AtMostOne
<1>8. /\ s # {} => f = {} /\ v = 0 /\ q = {}
      /\ f # {} => v = 0 /\ q = {}
      /\ v # 0 => q = {}
  BY <1>1, <1>2, <1>3, <1>4 DEF Apart, Screened, Forking, Validating, Queued
<1>9. v \in {0, 1}
  BY <1>4
<1>10. Places(b) = Cardinality(s) + Cardinality(f) + v + Cardinality(q)
  BY <1>1, <1>2, <1>3, <1>4 DEF Places
<1> QED
  BY <1>5, <1>6, <1>7, <1>8, <1>9, <1>10

\* A block that is nowhere else may be put in one place.
LEMMA NotKnown ==
    ASSUME NEW b, ~Known(b)
    PROVE  ~Screened(b) /\ ~Forking(b) /\ ~Validating(b) /\ ~Queued(b)
  BY DEF Known, Screened, Forking, Validating, Queued

LEMMA FewerPlaces ==
    ASSUME Once, Apart, orphanChecks' \subseteq orphanChecks,
           forkChecks' \subseteq forkChecks, validating' \in {validating, NoBlock},
           queue' = queue
    PROVE  Once' /\ Apart'
<1>1. Once'
  BY DEF Once
<1>2. \A b \in Blocks : /\ Screened(b)' => Screened(b)
                        /\ Forking(b)' => Forking(b)
                        /\ Validating(b)' => Validating(b)
                        /\ Queued(b)' => Queued(b)
  BY DEF Screened, Forking, Validating, Queued
<1>3. Apart'
  BY <1>2 DEF Apart
<1> QED
  BY <1>1, <1>3

LEMMA OnceHandle ==
    ASSUME TypeOK, Once, Apart, Handle
    PROVE  Once' /\ Apart'
<1>1. work # <<>> /\ work \in Seq(Items) /\ queue \in Seq(Items)
  BY DEF Handle, TypeOK
<1>2. PICK item \in Items : item = Head(work)
  BY <1>1, HeadTailProperties
<1>3. CASE Ignore(item)
  BY <1>3, FewerPlaces DEF Ignore
<1>4. CASE RefuseTarget(item)
  BY <1>4, FewerPlaces DEF RefuseTarget
<1>5. CASE ScreenOrphan(item)
  <2>1. UNCHANGED <<validating, queue, forkChecks>>
    BY <1>5 DEF ScreenOrphan
  <2>2. CASE orphanChecks' = orphanChecks
    BY <2>1, <2>2, FewerPlaces
  <2>3. CASE orphanChecks' = orphanChecks \cup {item}
    <3>1. ~Screened(item.blk) /\ ~Forking(item.blk) /\ ~Validating(item.blk) /\ ~Queued(item.blk)
      BY <1>5, NotKnown DEF ScreenOrphan, Fresh
    <3>2. Once'
      BY <2>1, <2>3, <3>1 DEF Once, Screened
    <3>3. \A b \in Blocks : /\ Screened(b)' => Screened(b) \/ b = item.blk
                            /\ Forking(b)' => Forking(b)
                            /\ Validating(b)' => Validating(b)
                            /\ Queued(b)' => Queued(b)
      BY <2>1, <2>3 DEF Screened, Forking, Validating, Queued
    <3>4. Apart'
      BY <3>1, <3>3 DEF Apart
    <3> QED
      BY <3>2, <3>4
  <2> QED
    BY <1>5, <2>2, <2>3 DEF ScreenOrphan
<1>6. CASE Validate(item)
  <2>1. UNCHANGED <<orphanChecks, forkChecks>>
    BY <1>6 DEF Validate
  <2>2. ~Screened(item.blk) /\ ~Forking(item.blk) /\ ~Validating(item.blk) /\ ~Queued(item.blk)
    BY <1>6, NotKnown DEF Validate, Fresh
  <2>3. CASE UNCHANGED <<validating, queue>>
    BY <2>1, <2>3, FewerPlaces
  <2>4. CASE validating = NoBlock /\ validating' = item /\ UNCHANGED queue
    <3>1. Once'
      BY <2>1, <2>4 DEF Once
    <3>2. \A b \in Blocks : /\ Screened(b)' => Screened(b)
                            /\ Forking(b)' => Forking(b)
                            /\ Validating(b)' => b = item.blk
                            /\ Queued(b)' => Queued(b)
      BY <2>1, <2>4 DEF Screened, Forking, Validating, Queued
    <3>3. Apart'
      BY <2>2, <3>2 DEF Apart
    <3> QED
      BY <3>1, <3>3
  <2>5. CASE queue' = Append(queue, item) /\ UNCHANGED validating
    <3>1. /\ Len(queue') = Len(queue) + 1 /\ Len(queue) \in Nat
          /\ \A i \in 1..Len(queue) : queue'[i] = queue[i]
          /\ queue'[Len(queue) + 1] = item
      BY <1>1, <2>5, AppendProperties, LenProperties
    <3>2. \A i \in 1..Len(queue') : i \in 1..Len(queue) \/ i = Len(queue) + 1
      BY <3>1
    <3>3. \A i, j \in 1..Len(queue') : queue'[i].blk = queue'[j].blk => i = j
      BY <2>2, <3>1, <3>2 DEF Once, Queued
    <3>4. Once'
      BY <2>1, <3>3 DEF Once
    <3>5. \A b \in Blocks : /\ Screened(b)' => Screened(b)
                            /\ Forking(b)' => Forking(b)
                            /\ Validating(b)' => Validating(b)
                            /\ Queued(b)' => Queued(b) \/ b = item.blk
      BY <2>1, <2>5, <3>1, <3>2 DEF Screened, Forking, Validating, Queued
    <3>6. Apart'
      BY <2>2, <3>5 DEF Apart
    <3> QED
      BY <3>4, <3>6
  <2> QED
    BY <1>6, <2>3, <2>4, <2>5 DEF Validate
<1> QED
  BY <1>2, <1>3, <1>4, <1>5, <1>6 DEF Handle

LEMMA OnceDrain ==
    ASSUME TypeOK, Once, Apart, DrainQueue
    PROVE  Once' /\ Apart'
<1>1. /\ queue \in Seq(Items) /\ queue # <<>> /\ queue' = Tail(queue)
      /\ UNCHANGED <<orphanChecks, forkChecks, validating>>
  BY DEF DrainQueue, TypeOK
<1>2. \A i \in 1..Len(queue') : i + 1 \in 1..Len(queue) /\ queue'[i] = queue[i + 1]
  BY <1>1, TailLemma
<1>3. \A i, j \in 1..Len(queue') : queue'[i].blk = queue'[j].blk => i = j
  <2> TAKE i, j \in 1..Len(queue')
  <2> HAVE queue'[i].blk = queue'[j].blk
  <2>1. i + 1 = j + 1
    BY <1>2 DEF Once
  <2>2. i \in Int /\ j \in Int
    OBVIOUS
  <2> QED
    BY <2>1, <2>2
<1>4. \A b \in Blocks : /\ Screened(b)' => Screened(b)
                        /\ Forking(b)' => Forking(b)
                        /\ Validating(b)' => Validating(b)
                        /\ Queued(b)' => Queued(b)
  BY <1>1, <1>2 DEF Screened, Forking, Validating, Queued
<1> QED
  BY <1>1, <1>3, <1>4 DEF Once, Apart

LEMMA OnceOrphanChecked ==
    ASSUME TypeOK, Once, Apart, NEW t \in orphanChecks, OrphanChecked(t)
    PROVE  Once' /\ Apart'
<1>1. orphanChecks' = orphanChecks \ {t} /\ UNCHANGED <<validating, queue>>
  BY DEF OrphanChecked, OrphanRefused, OrphanOnTip, HoldOrphan, CheckForkBlock,
         OrphanReported
<1>2. CASE forkChecks' = forkChecks
  BY <1>1, <1>2, FewerPlaces
<1>3. ASSUME NEW u, u.blk = t.blk, forkChecks' = forkChecks \cup {u}
      PROVE  Once' /\ Apart'
  <2>1. t.blk \in Blocks /\ Screened(t.blk)
    BY DEF TypeOK, Items, Screened
  <2>2. ~Forking(t.blk) /\ ~Validating(t.blk) /\ ~Queued(t.blk)
    BY <2>1 DEF Apart
  <2>3. Once'
    BY <1>1, <1>3, <2>2 DEF Once, Forking
  <2>4. \A b \in Blocks : /\ Screened(b)' => Screened(b) /\ b # t.blk
                          /\ Forking(b)' => Forking(b) \/ b = t.blk
                          /\ Validating(b)' => Validating(b)
                          /\ Queued(b)' => Queued(b)
    BY <1>1, <1>3 DEF Once, Screened, Forking, Validating, Queued
  <2>5. Apart'
    BY <2>2, <2>4 DEF Apart
  <2> QED
    BY <2>3, <2>5
<1>4. forkChecks' = forkChecks \/ \E u : u.blk = t.blk /\ forkChecks' = forkChecks \cup {u}
  BY DEF OrphanChecked, OrphanRefused, OrphanOnTip, HoldOrphan, CheckForkBlock
<1> QED
  BY <1>2, <1>3, <1>4

LEMMA OnceForkChecked ==
    ASSUME TypeOK, Once, Apart, NEW t \in forkChecks, ForkChecked(t)
    PROVE  Once' /\ Apart'
<1>1. UNCHANGED <<orphanChecks, validating, queue>>
  BY DEF ForkChecked, DeriveState, ReadWindows, ForkBlockRefused, ReplaceTip
<1>2. CASE forkChecks' = forkChecks \ {t}
  BY <1>1, <1>2, FewerPlaces
<1>3. ASSUME NEW u, u.blk = t.blk, forkChecks' = (forkChecks \ {t}) \cup {u}
      PROVE  Once' /\ Apart'
  <2>1. Once'
    BY <1>1, <1>3 DEF Once
  <2>2. \A b \in Blocks : /\ Screened(b)' => Screened(b)
                          /\ Forking(b)' => Forking(b)
                          /\ Validating(b)' => Validating(b)
                          /\ Queued(b)' => Queued(b)
    BY <1>1, <1>3 DEF Screened, Forking, Validating, Queued
  <2> QED
    BY <2>1, <2>2 DEF Apart
<1>4. ASSUME NEW view, Sees(t, view) PROVE Once' /\ Apart'
  <2>1. [t EXCEPT !.view = view].blk = t.blk
    BY DEF TypeOK, ForkTasks
  <2> QED
    BY <1>3, <1>4, <2>1 DEF Sees
<1> QED
  BY <1>2, <1>4 DEF ForkChecked, DeriveState, ReadWindows, ForkBlockRefused, ReplaceTip,
                    ForkReported

LEMMA OnceStep ==
    ASSUME TypeOK, Once, Apart, [Next]_vars
    PROVE  Once' /\ Apart'
<1>1. CASE UNCHANGED <<orphanChecks, forkChecks, validating, queue>>
  BY <1>1, FewerPlaces
<1>2. CASE Handle
  BY <1>2, OnceHandle
<1>3. CASE Validated
  BY <1>3, FewerPlaces
     DEF Validated, ValidatedInSession, ValidatedTooLate, ValidatedRefused,
         AcceptBlock, AcceptFails, ValidationReported
<1>4. CASE DrainQueue
  BY <1>4, OnceDrain
<1>5. CASE EndDrain
  BY <1>1, <1>5 DEF EndDrain
<1>6. ASSUME NEW t \in orphanChecks, OrphanChecked(t) PROVE Once' /\ Apart'
  BY <1>6, OnceOrphanChecked
<1>7. ASSUME NEW t \in forkChecks, ForkChecked(t) PROVE Once' /\ Apart'
  BY <1>7, OnceForkChecked
<1>8. CASE Session
  BY <1>1, <1>8 DEF Session, StartSession, SessionApplies, SessionCommits, EndSession
<1>9. CASE RaiseFloor
  BY <1>1, <1>9 DEF RaiseFloor
<1>10. CASE Restart
  BY <1>10 DEF Restart, Once, Apart, Screened, Forking, Validating, Queued
<1>11. ASSUME NEW p \in Peers, NEW b \in Blocks, Receive(p, b) PROVE Once' /\ Apart'
  BY <1>1, <1>11 DEF Receive
<1>12. ASSUME NEW b \in Mined, Submit(b) \/ Mine(b) PROVE Once' /\ Apart'
  BY <1>1, <1>12 DEF Submit, Mine
<1>13. CASE UNCHANGED vars
  BY <1>1, <1>13 DEF vars
<1> QED
  BY <1>2, <1>3, <1>4, <1>5, <1>6, <1>7, <1>8, <1>9, <1>10, <1>11, <1>12, <1>13 DEF Next

------------------------------------------------------------------------------
\* The pool is touched by the handlers that take a block's children, by the one
\* that holds an orphan, and by a restart.
LEMMA KeptStep ==
    ASSUME TypeOK, Kept(orphans, OrphanLimit), [Next]_vars
    PROVE  Kept(orphans', OrphanLimit)
<1>1. orphans \in Pools
  BY DEF TypeOK
<1>2. CASE UNCHANGED orphans
  BY <1>2 DEF Kept
<1>3. CASE Handle
  BY <1>2, <1>3 DEF Handle, Ignore, ScreenOrphan, RefuseTarget, Validate
<1>4. CASE AcceptBlock
  <2>1. validating.blk \in Blocks
    BY <1>4 DEF AcceptBlock, ValidationReported, TypeOK, Items
  <2> QED
    BY <1>1, <1>4, <2>1, TakeKeeps DEF AcceptBlock
<1>5. CASE ValidatedInSession \/ ValidatedTooLate \/ ValidatedRefused \/ AcceptFails
  BY <1>2, <1>5 DEF ValidatedInSession, ValidatedTooLate, ValidatedRefused, AcceptFails
<1>6. CASE DrainQueue \/ EndDrain
  BY <1>2, <1>6 DEF DrainQueue, EndDrain
<1>7. ASSUME NEW t \in orphanChecks, OrphanChecked(t) PROVE Kept(orphans', OrphanLimit)
  <2>1. t.blk \in Blocks /\ t.blk # Genesis
    BY DEF TypeOK, Items
  <2>2. Kept(Held(t.blk, orphans), OrphanLimit)
    BY <1>1, <2>1, HeldKeeps
  <2>3. orphans' \in {orphans, Held(t.blk, orphans)}
    BY <1>7 DEF OrphanChecked, OrphanRefused, OrphanOnTip, HoldOrphan, CheckForkBlock
  <2> QED
    BY <2>2, <2>3
<1>8. ASSUME NEW t \in forkChecks, ReplaceTip(t) PROVE Kept(orphans', OrphanLimit)
  <2>1. t.blk \in Blocks
    BY DEF TypeOK, ForkTasks
  <2> QED
    BY <1>1, <1>8, <2>1, TakeKeeps DEF ReplaceTip
<1>9. ASSUME NEW t \in forkChecks, DeriveState(t) \/ ReadWindows(t) \/ ForkBlockRefused(t)
      PROVE  Kept(orphans', OrphanLimit)
  BY <1>2, <1>9 DEF DeriveState, ReadWindows, ForkBlockRefused
<1>10. CASE Session \/ RaiseFloor
  BY <1>2, <1>10 DEF Session, StartSession, SessionApplies, SessionCommits, EndSession,
                     RaiseFloor
<1>11. CASE Restart
  <2>1. orphans' = NoOrphans /\ OrphanLimit \in Nat /\ OrphansPerParent \in Nat
    BY <1>11, ChainNodeAssumption DEF Restart
  <2> QED
    BY <2>1 DEF NoOrphans, Kept, Among
<1>12. ASSUME NEW p \in Peers, NEW b \in Blocks, Receive(p, b)
       PROVE  Kept(orphans', OrphanLimit)
  BY <1>2, <1>12 DEF Receive
<1>13. ASSUME NEW b \in Mined, Submit(b) \/ Mine(b) PROVE Kept(orphans', OrphanLimit)
  BY <1>2, <1>13 DEF Submit, Mine
<1>14. CASE UNCHANGED vars
  BY <1>2, <1>14 DEF vars
<1> QED
  BY <1>3, <1>4, <1>5, <1>6, <1>7, <1>8, <1>9, <1>10, <1>11, <1>12, <1>13, <1>14
     DEF Next, Validated, ForkChecked

LEMMA PlacesInit == Init => Once /\ Apart /\ Kept(orphans, OrphanLimit)
<1> SUFFICES ASSUME Init PROVE Once /\ Apart /\ Kept(orphans, OrphanLimit)
  OBVIOUS
<1>1. Once /\ Apart
  BY DEF Init, Once, Apart, Screened, Forking, Validating, Queued
<1>2. orphans = NoOrphans /\ OrphanLimit \in Nat /\ OrphansPerParent \in Nat
  BY ChainNodeAssumption DEF Init
<1> QED
  BY <1>1, <1>2 DEF NoOrphans, Kept, Among

\* A block is checked in one place at a time, and the orphan pool keeps its
\* limits with its halves in agreement, for every limit and every order of
\* reports (handle_new_batch's first test; OrphanPool's insert and take_children).
THEOREM ChecksInOnePlace == Spec => []OnePlace
<1>1. Spec => []TypeOK
  BY TypeCorrect
<1>2. Init => Once /\ Apart /\ Kept(orphans, OrphanLimit)
  BY PlacesInit
<1>3. TypeOK /\ Once /\ Apart /\ Kept(orphans, OrphanLimit) /\ [Next]_vars
        => Once' /\ Apart' /\ Kept(orphans, OrphanLimit)'
  <2>1. Kept(orphans, OrphanLimit)' <=> Kept(orphans', OrphanLimit)
    BY DEF Kept, Among
  <2> QED
    BY <2>1, OnceStep, KeptStep
<1>4. TypeOK /\ Once /\ Apart /\ Kept(orphans, OrphanLimit) => OnePlace
  <2> SUFFICES ASSUME TypeOK, Once, Apart, Kept(orphans, OrphanLimit) PROVE OnePlace
    OBVIOUS
  <2>1. OrphanPoolSound
    BY KeptIsSound DEF TypeOK
  <2>2. \A b \in Blocks : Places(b) <= 1
    BY OnceIsOnePlace
  <2> QED
    BY <2>1, <2>2 DEF OnePlace
<1> QED
  BY <1>1, <1>2, <1>3, <1>4, PTL DEF Spec

------------------------------------------------------------------------------
\* No orphan waits for the tip, even while a handler runs.
Childless == orphans.byParent[Tip(chain)] = <<>>

(* Only a session's commit, which takes no children, can leave one: the other
   handlers that move the tip empty the pool of its children at once, and the
   one that holds an orphan has looked at the tip. *)
LEMMA ChildlessStep ==
    ASSUME TypeOK, Linked, Kept(orphans, OrphanLimit), Childless, [Next]_vars,
           ~SessionCommits
    PROVE  Childless'
<1>1. orphans \in Pools /\ chain \in Seq(Blocks)
  BY DEF TypeOK
<1>2. CASE UNCHANGED <<orphans, chain>>
  BY <1>2 DEF Childless, Tip
<1>3. CASE Handle
  BY <1>2, <1>3 DEF Handle, Ignore, ScreenOrphan, RefuseTarget, Validate
<1>4. CASE AcceptBlock
  <2>1. validating.blk \in Blocks /\ chain' = Append(chain, validating.blk)
    BY <1>4 DEF AcceptBlock, ValidationReported, TypeOK, Items
  <2>2. Tip(chain') = validating.blk
    BY <1>1, <2>1, AppendProperties DEF Tip
  <2>3. orphans'.byParent[validating.blk] = <<>>
    BY <1>1, <1>4, <2>1, TakeKeeps DEF AcceptBlock
  <2> QED
    BY <2>2, <2>3 DEF Childless
<1>5. CASE ValidatedInSession \/ ValidatedTooLate \/ ValidatedRefused \/ AcceptFails
  BY <1>2, <1>5 DEF ValidatedInSession, ValidatedTooLate, ValidatedRefused, AcceptFails
<1>6. CASE DrainQueue \/ EndDrain
  BY <1>2, <1>6 DEF DrainQueue, EndDrain
<1>7. ASSUME NEW t \in orphanChecks, HoldOrphan(t) PROVE Childless'
  <2>1. t.blk \in Blocks /\ t.blk # Genesis /\ Parent[t.blk] # Tip(chain) /\ chain' = chain
    BY <1>7 DEF HoldOrphan, ParentArrived, TypeOK, Items
  <2>2. Tip(chain) \in Blocks
    BY <1>1, ElementOfSeq, LenProperties DEF Tip, TypeOK
  <2>3. Held(t.blk, orphans).byParent[Tip(chain)] = <<>>
    BY <1>1, <2>1, <2>2, HeldKeeps DEF Childless
  <2>4. orphans' \in {orphans, Held(t.blk, orphans)}
    BY <1>7 DEF HoldOrphan
  <2> QED
    BY <2>1, <2>3, <2>4 DEF Childless
<1>8. ASSUME NEW t \in orphanChecks, OrphanRefused(t) \/ OrphanOnTip(t) \/ CheckForkBlock(t)
      PROVE  Childless'
  BY <1>2, <1>8 DEF OrphanRefused, OrphanOnTip, CheckForkBlock
<1>9. ASSUME NEW t \in forkChecks, ReplaceTip(t) PROVE Childless'
  <2>1. t.blk \in Blocks /\ t.blk # Genesis
    BY DEF TypeOK, ForkTasks
  <2>2. Height[t.blk] \in 1..Len(chain)
    BY <1>9, <2>1, ForkPlace DEF ReplaceTip, StillReplaces
  <2>3. Tip(chain') = t.blk
    BY <1>1, <1>9, <2>1, <2>2, ReplacedLemma DEF ReplaceTip, Tip
  <2>4. orphans'.byParent[t.blk] = <<>>
    BY <1>1, <1>9, <2>1, TakeKeeps DEF ReplaceTip
  <2> QED
    BY <2>3, <2>4 DEF Childless
<1>10. ASSUME NEW t \in forkChecks, DeriveState(t) \/ ReadWindows(t) \/ ForkBlockRefused(t)
       PROVE  Childless'
  BY <1>2, <1>10 DEF DeriveState, ReadWindows, ForkBlockRefused
<1>11. CASE Session \/ RaiseFloor
  BY <1>2, <1>11 DEF Session, StartSession, SessionApplies, EndSession, RaiseFloor
<1>12. CASE Restart
  <2>1. Tip(chain) \in Blocks
    BY <1>1, ElementOfSeq, LenProperties DEF Tip, TypeOK
  <2> QED
    BY <1>12, <2>1 DEF Restart, NoOrphans, Childless
<1>13. ASSUME NEW p \in Peers, NEW b \in Blocks, Receive(p, b) PROVE Childless'
  BY <1>2, <1>13 DEF Receive
<1>14. ASSUME NEW b \in Mined, Submit(b) \/ Mine(b) PROVE Childless'
  BY <1>2, <1>14 DEF Submit, Mine
<1>15. CASE UNCHANGED vars
  BY <1>2, <1>15 DEF vars
<1> QED
  BY <1>3, <1>4, <1>5, <1>6, <1>7, <1>8, <1>9, <1>10, <1>11, <1>12, <1>13, <1>14, <1>15
     DEF Next, Validated, OrphanChecked, ForkChecked

\* On a node whose chain moves block by block no orphan is left in the pool
\* for a parent that is the tip, whatever order checks and reports come in
\* (take_children, and on_orphan_checked's second look at the tip).
THEOREM NoOrphanLeft ==
    ASSUME ~Sessions
    PROVE  Spec => []NoOrphanOnTip
<1>1. Spec => [](Inv /\ Kept(orphans, OrphanLimit))
  <2>1. TypeOK /\ Kept(orphans, OrphanLimit) /\ [Next]_vars => Kept(orphans, OrphanLimit)'
    <3>1. Kept(orphans, OrphanLimit)' <=> Kept(orphans', OrphanLimit)
      BY DEF Kept, Among
    <3> QED
      BY <3>1, KeptStep
  <2> QED
    BY <2>1, InvHolds, TypeCorrect, PlacesInit, PTL DEF Spec
<1>2. Init => sync = NoSync /\ Childless
  BY BlockTreeAssumption DEF Init, NoOrphans, Childless, Tip
<1>3. Inv /\ Kept(orphans, OrphanLimit) /\ sync = NoSync /\ Childless /\ [Next]_vars
        => (sync = NoSync)' /\ Childless'
  <2> SUFFICES ASSUME Inv, Kept(orphans, OrphanLimit), sync = NoSync, Childless, [Next]_vars
               PROVE  sync' = NoSync /\ Childless'
    OBVIOUS
  <2>1. ~SessionCommits
    BY DEF SessionCommits, Syncing
  <2>2. Childless'
    BY <2>1, ChildlessStep DEF Inv
  <2>3. sync' = NoSync
    BY DEF Next, Receive, Submit, Mine, Handle, Ignore, ScreenOrphan, RefuseTarget,
           Validate, Validated, ValidatedInSession, ValidatedTooLate, ValidatedRefused,
           AcceptBlock, AcceptFails, DrainQueue, EndDrain, OrphanChecked, OrphanRefused,
           OrphanOnTip, HoldOrphan, CheckForkBlock, ForkChecked, DeriveState, ReadWindows,
           ForkBlockRefused, ReplaceTip, Session, StartSession, SessionApplies,
           SessionCommits, EndSession, Syncing, RaiseFloor, Restart, vars
  <2> QED
    BY <2>2, <2>3
<1>4. Childless => NoOrphanOnTip
  BY DEF Childless, NoOrphanOnTip
<1> QED
  BY <1>1, <1>2, <1>3, <1>4, PTL DEF Spec
=============================================================================
