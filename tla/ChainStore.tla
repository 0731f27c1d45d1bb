------------------------------ MODULE ChainStore ------------------------------
(***************************************************************************)
(* The chain on disk (storage.rs): tables that every block changes by its  *)
(* diff, undo records that take blocks back off, and the state a restart   *)
(* or a fork check derives from them.                                      *)
(*                                                                         *)
(* A node accepts a block on its tip (adopt_block), or derives the state   *)
(* below it, applies a branch to it and replaces the blocks above          *)
(* (adopt_chain).  commit_chain replays what it is given on the tables and *)
(* refuses when the outcome is not the state it was given.  Blocks are     *)
(* numbered from genesis at height 0: table[h + 1] is for height h.        *)
(***************************************************************************)
EXTENDS ChainState

CONSTANTS
    Contents,       \* what producers put in blocks; the time is a gap after
                    \* the tip's, the reward's coin is the block's height
    UndoKeep,       \* UNDO_KEEP
    MaxHeight       \* bound: the chain's length

VARIABLES
    tip,            \* Node::state
    tables,         \* chain.redb
    refused         \* commit_chain refused a chain the node had applied

vars == <<tip, tables, refused>>

------------------------------------------------------------------------------
\* StoredGroup: a range-proof group and which of its members are spent.
GroupId(outputs) == CoinsOf(outputs)
NewGroup(outputs) == [id |-> GroupId(outputs), spent |-> {}]
GroupOf(group, coin) == coin \in group.id

Meta(state) == [height |-> state.height, time |-> state.time,
                depth |-> state.depth, supply |-> state.supply]

GenesisTables ==
    [blocks |-> <<>>, utxos |-> {}, groups |-> {}, kernels |-> {}, bonds |-> {},
     relay |-> GenesisRelay, signers |-> <<NoSigner>>, capped |-> <<0>>,
     minted |-> <<0>>, depths |-> <<GenesisWork>>, undo |-> <<>>, meta |-> Meta(GenesisState)]

Drop(seq, n) == SubSeq(seq, 1, n)

\* header_works: the work of the headers from height first to last.
WorkOfHeader(blocks, h) ==
    IF h = 0 THEN GenesisWork
    ELSE TargetWork(h, IF h = 1 THEN GenesisState.time ELSE blocks[h - 1].time)
HeaderWorks(blocks, first, last) ==
    [i \in 1..(last - first + 1) |-> WorkOfHeader(blocks, first + i - 1)]

\* rebuild_fork_choice_windows, for a block at height end.
SignersBefore(signers, end) ==
    RebuiltSigners(SubSeq(signers, Less(end, CapWindow) + 1, end))
FloorBeforeShort(blocks, end) ==
    RebuiltFloor(Less(end, WorkCapWindow - 1),
                 HeaderWorks(blocks, Less(end, WorkCapWindow - 1), end - 1))
FloorBefore(blocks, end) ==
    RebuiltFloor(Less(end, WorkCapWindow),
                 HeaderWorks(blocks, Less(end, WorkCapWindow), end - 1))

------------------------------------------------------------------------------
\* Step 1 of commit_chain: the newest block is taken back off the tables.
RevertedBlock(t) ==
    LET h == t.meta.height - 1
        u == t.undo[h]
        groups == {g \in t.groups : g.id \notin u.createdGroups}
    IN  [t EXCEPT
          !.blocks = Drop(@, h - 1),
          !.groups = {g \in groups : g.id \notin {x.id : x \in u.touchedGroups}}
                        \cup u.touchedGroups,
          !.utxos = {c \in @ : c.coin \notin u.created} \cup u.spent,
          !.kernels = @ \ u.kernels,
          !.bonds = UndoneEffects(@, u.effects.bondsRemoved, u.effects.bondsAdded),
          !.relay = RevertedChange(@, u.effects.relayRemoved, u.effects.relayAdded),
          !.signers = Drop(@, h), !.capped = Drop(@, h),
          !.minted = Drop(@, h), !.depths = Drop(@, h),
          !.undo = [k \in DOMAIN @ \ {h} |-> @[k]],
          !.meta = u.prev]

RevertedTo(t, first) ==
    LET n == t.meta.height - first
        after[i \in 0..n] == IF i = 0 THEN t ELSE RevertedBlock(after[i - 1])
    IN  after[n]

\* Step 2: the groups a block's spends touch, as they were and as they become.
Touched(t, blk) ==
    {g \in t.groups : \E c \in SpentCoins(blk) :
        GroupOf(g, c) /\ c \notin g.spent}
AfterSpends(group, blk) ==
    [group EXCEPT !.spent = @ \cup (SpentCoins(blk) \cap group.id)]
KeptAll(groups) == groups
Kept(groups) == {g \in groups : g.spent # g.id}

GroupsMade(blk) ==
    {NewGroup(g) : g \in blk.groups \cup (IF blk.reward = {} THEN {} ELSE {blk.reward})}

\* StoredBlock: the tables after a block is applied to them, with its undo
\* record; effects is what applying it to the state changed.
StoredBlock(t, blk, effects) ==
    LET h == t.meta.height
        bonds == AppliedEffects(t.bonds, effects.bondsRemoved, effects.bondsAdded)
        work == WorkOfHeader(t.blocks, h)
        window == Recorded(SignersBefore(t.signers, h), blk.signer)
        credited == Credited(window.counts, bonds, h, blk.signer,
                             Creditable(FloorBefore(t.blocks, h), h, work), blk.time)
        subsidy == SubsidyFor(RewardAt(h), blk.signer, window.counts, bonds, blk.time)
        capped == t.capped[h] + (work - credited)
        touched == Touched(t, blk)
        spent == {c \in t.utxos : c.coin \in SpentCoins(blk)}
        groups == (t.groups \ touched) \cup Kept({AfterSpends(g, blk) : g \in touched})
        made == GroupsMade(blk)
        outputs == Made(t.meta, OutputsOf(blk), FALSE) \cup Made(t.meta, blk.reward, TRUE)
        meta == [height |-> h + 1, time |-> blk.time, depth |-> t.meta.depth + work,
                 supply |-> t.meta.supply + (IF blk.reward = {} THEN 0 ELSE subsidy)]
    IN  [blocks |-> Append(t.blocks, blk),
         utxos |-> (t.utxos \ spent) \cup outputs,
         groups |-> {g \in groups : g.id \notin {m.id : m \in made}} \cup made,
         kernels |-> t.kernels \cup {k.id : k \in blk.kernels},
         bonds |-> bonds,
         relay |-> AppliedChange(t.relay, effects.relayRemoved, effects.relayAdded),
         signers |-> Append(t.signers, blk.signer), capped |-> Append(t.capped, capped),
         minted |-> Append(t.minted, subsidy), depths |-> Append(t.depths, meta.depth),
         undo |-> [k \in DOMAIN t.undo \cup {h} |->
                     IF k # h THEN t.undo[k] ELSE
                     [spent |-> spent, created |-> {o.coin : o \in outputs},
                      kernels |-> {k2.id : k2 \in blk.kernels}, prev |-> t.meta,
                      createdGroups |-> {m.id : m \in made}, touchedGroups |-> touched,
                      effects |-> effects]],
         meta |-> meta]

\* The claim every replayed block makes must be what the replay gives.
ClaimStands(t) == t.blocks[Len(t.blocks)].weight
                    = Less(t.meta.depth, t.capped[Len(t.capped)])

\* Step 3: the outcome must be the caller's state.
Agrees(t, state) ==
    /\ t.meta = Meta(state)
    /\ t.capped[Len(t.capped)] = state.capped
    /\ t.bonds = state.bonds
    /\ TipEntry(t.relay) = TipEntry(state.relay)
    /\ Cardinality(t.relay) = Cardinality(state.relay)

\* Step 4: the undo window.
TrimmedUndo(t) ==
    [t EXCEPT !.undo = [h \in {k \in DOMAIN @ : k >= Less(t.meta.height, UndoKeep)}
                           |-> @[h]]]

\* CommitChain: one write transaction.  blks[i] was applied with effects[i];
\* states[i] is what it left.
CommitChain(first, blks, effects, state) ==
    LET replay[i \in 0..Len(blks)] ==
            IF i = 0 THEN RevertedTo(tables, first)
            ELSE StoredBlock(replay[i - 1], blks[i], effects[i])
        final == replay[Len(blks)]
    IN  IF (\A i \in 1..Len(blks) : ClaimStands(replay[i])) /\ Agrees(final, state)
        THEN tables' = TrimmedUndo(final) /\ tip' = state /\ UNCHANGED refused
        ELSE refused' = TRUE /\ UNCHANGED <<tip, tables>>

------------------------------------------------------------------------------
\* state_at: the state after the first h blocks, from the tip and the undo
\* records of the blocks above; windows and withheld work from the tables.
UndoneState(state, u) ==
    [state EXCEPT
      !.height = u.prev.height, !.time = u.prev.time,
      !.depth = u.prev.depth, !.supply = u.prev.supply,
      !.utxos = {c \in @ : c.coin \notin u.created} \cup u.spent,
      !.kernels = @ \ u.kernels,
      !.bonds = UndoneEffects(@, u.effects.bondsRemoved, u.effects.bondsAdded),
      !.relay = RevertedChange(@, u.effects.relayRemoved, u.effects.relayAdded)]

WithWindows(state, t) ==
    LET window == SignersBefore(t.signers, state.height)
    IN  [state EXCEPT !.capped = t.capped[state.height],
                      !.recent = window.recent, !.counts = window.counts,
                      !.low = FloorBefore(t.blocks, state.height)]

Derivable(h) == h <= tip.height /\ \A k \in h..(tip.height - 1) : k \in DOMAIN tables.undo

StateAt(h) ==
    LET n == tip.height - h
        after[i \in 0..n] ==
            IF i = 0 THEN tip ELSE UndoneState(after[i - 1], tables.undo[tip.height - i])
    IN  WithWindows(after[n], tables)

\* load_state: what a restart makes of the tables.
LoadState(t) ==
    WithWindows([height |-> t.meta.height, time |-> t.meta.time,
                 depth |-> t.meta.depth, supply |-> t.meta.supply, capped |-> 0,
                 utxos |-> t.utxos, kernels |-> t.kernels, bonds |-> t.bonds,
                 relay |-> t.relay, recent |-> <<>>, counts |-> <<>>, low |-> <<>>], t)

------------------------------------------------------------------------------
Init == tip = GenesisState /\ tables = GenesisTables /\ refused = FALSE

\* A producer fills in what depends on the state it builds on.
Timed(state, c) ==
    [weight |-> 0, time |-> state.time + c.gap, signer |-> c.signer, relay |-> c.relay,
     regs |-> c.regs, spends |-> c.spends, groups |-> c.groups,
     reward |-> IF c.paid THEN {[coin |-> state.height, owner |-> c.owner]} ELSE {},
     kernels |-> c.kernels, fees |-> 0]
Claimed(blk, weight) == [blk EXCEPT !.weight = weight]
ClaimedBy(state, blk, times, over) ==
    Claimed(blk, ApplyBatch(state, blk, times).claim + over)

Tried(blk, outcome) ==
    [ok |-> outcome.ok, blk |-> blk, effects |-> outcome.effects, state |-> outcome.state]
TriedOn(state, times, blk) == Tried(blk, ApplyBatch(state, blk, times))
OnState(state, below, c) ==
    TriedOn(state, TimesOf(below),
            ClaimedBy(state, Timed(state, c), TimesOf(below), c.overclaim))

\* adopt_block: the block applies on the tip.
Taken(next) ==
    next.ok /\ CommitChain(tip.height, <<next.blk>>, <<next.effects>>, next.state)
AcceptBlock(c) == tip.height < MaxHeight /\ Taken(OnState(tip, tables.blocks, c))

\* adopt_chain: the blocks from height first on give way to a heavier branch.
TakenBranch(first, one) ==
    /\ one.ok /\ WeightOf(one.state) > WeightOf(tip)
    /\ CommitChain(first, <<one.blk>>, <<one.effects>>, one.state)
TakenBranchOfTwo(first, one, two) ==
    /\ two.ok /\ WeightOf(two.state) > WeightOf(tip)
    /\ CommitChain(first, <<one.blk, two.blk>>, <<one.effects, two.effects>>, two.state)

Below(first) == Drop(tables.blocks, first - 1)
LongerBranch(first, one, d) ==
    /\ one.ok
    /\ TakenBranchOfTwo(first, one, OnState(one.state, Append(Below(first), one.blk), d))

AdoptChain(first, c) ==
    /\ first \in 1..(tip.height - 1) /\ Derivable(first)
    /\ \/ TakenBranch(first, OnState(StateAt(first), Below(first), c))
       \/ /\ first + 2 <= MaxHeight
          /\ \E d \in Contents :
                LongerBranch(first, OnState(StateAt(first), Below(first), c), d)

Restart == tip' = LoadState(tables) /\ UNCHANGED <<tables, refused>>

Next ==
    \/ \E c \in Contents : AcceptBlock(c)
    \/ \E first \in 1..MaxHeight : \E c \in Contents : AdoptChain(first, c)
    \/ Restart

Spec == Init /\ [][Next]_vars
------------------------------------------------------------------------------
\* The replay of commit_chain never disagrees with the blocks' validation:
\* a chain the node has applied can always be stored (storage.rs:1133).
NeverRefused == ~refused

\* Undoing any number of blocks gives the state replaying the rest would
\* (state_at): coins, kernels, bonds, the relay and the fork-choice windows.
UndoneIsReplayed ==
    \A h \in 1..(tip.height - 1) :
        Derivable(h) => StateAt(h) = Replay(Drop(tables.blocks, h - 1)).state

\* The relay is one chain of linked headers whatever was added, replaced, left
\* behind or put back (Relay::extend, revert_change), and every bond that may
\* sign was proven against one of its headers, or one it has left behind the
\* window (revoke_above).
BondsProven ==
    /\ FormsChain(tip.relay)
    /\ \A b \in tip.bonds : \E e \in tip.relay :
          e.hash = b.hash \/ (e = BaseEntry(tip.relay) /\ b.proven < e.height)

WeightAfter(h) == Less(tables.depths[h + 1], tables.capped[h + 1])
HeadersAgree ==
    \A h \in 1..(tip.height - 1) :
        CreditPossible(Creditable(FloorBefore(tables.blocks, h), h,
                                  WorkOfHeader(tables.blocks, h)),
                       tables.blocks[h].signer # NoSigner, h,
                       WeightAfter(h) - WeightAfter(h - 1))

(* Fork choice by the book: what each block counted for, from the chain alone.
   No block counts for more than a quarter above the lowest work of the window
   before it, and one whose signer has more of the signer window than its
   share, or that nobody signed, for a sliver (bond.rs:1478, 1501).  Sync takes
   every block that applies: what it counts for is one of the outcomes its
   header allows (credit_possible). *)
LowestBefore(h) == Min({WorkOfHeader(tables.blocks, i) : i \in Less(h, WorkCapWindow)..(h - 1)})
SignedBy(h, s) == Cardinality({i \in (Less(h + 1, CapWindow))..h : tables.signers[i + 1] = s})
CountsFor(h) ==
    LET work == WorkOfHeader(tables.blocks, h)
        allowed == Least(work, LowestBefore(h) + LowestBefore(h) \div Headroom)
        blk == tables.blocks[h]
        bonds == Replay(Drop(tables.blocks, h)).state.bonds
    IN  IF blk.signer = NoSigner
        THEN IF h >= BondedFrom THEN Sliver(allowed) ELSE allowed
        ELSE IF SignedBy(h, blk.signer) > SignerCap(bonds, blk.time)
             THEN Sliver(allowed) ELSE allowed
WeighedByTheBook ==
    /\ WeightAfter(0) = GenesisWork /\ WeightAfter(tip.height - 1) = WeightOf(tip)
    /\ \A h \in 1..(tip.height - 1) : WeightAfter(h) = WeightAfter(h - 1) + CountsFor(h)
    /\ HeadersAgree

\* Every stored group has an unspent member, and every unspent output is an
\* unspent member of one group (wallets page through them, unspent_outputs).
GroupsHoldUnspent ==
    /\ UNION {g.id \ g.spent : g \in tables.groups} = {u.coin : u \in tables.utxos}
    /\ \A g, k \in tables.groups : g # k => (g.id \ g.spent) \cap (k.id \ k.spent) = {}
    /\ \A g \in tables.groups : g.spent # g.id

\* The store keeps its promise (ReplayedChain): accepting, reorganising and
\* restarting are steps of a chain whose state is always its replay.
Promise == INSTANCE ReplayedChain
              WITH chain <- tables.blocks, state <- tip
KeepsPromise == Promise!Spec
=============================================================================
