-------------------------------- MODULE Bonds --------------------------------
(***************************************************************************)
(* Bonded mining (core/bond.rs): which bonds may sign a block, what        *)
(* registering one takes, and what a block counts for in fork choice.      *)
(*                                                                         *)
(* A bond set is a set of entries, one per bond.  The fork-choice windows  *)
(* are kept block by block and rebuilt from storage after a restart or a   *)
(* reorganisation, so what they hold must depend on the chain alone.       *)
(***************************************************************************)
EXTENDS Integers, Sequences, FiniteSets, FiniteSetsExt

CONSTANTS
    NoSigner,
    EarlyUntil, EarlyMinBond, EarlyMinLock,   \* BondRules: the early phase
    MinBond, MinLock,                         \* and what follows it
    ClockMargin, BlockSeconds,                \* est_midstate_height
    MaxHorizon,                               \* MAX_BOND_HORIZON
    RetargetFrom, MaxDoublings, PerDoubling,  \* registration_min_bond
    GenesisBits,                              \* ilog2 of the launch work
    WorkBlocks, MinHeaders,                   \* REGISTRATION_WORK_BLOCKS, ..
    BondedFrom,                               \* BONDED_MINING_FROM
    CapWindow, CapK,                          \* CAP_WINDOW, CAP_K
    WorkCapWindow, Headroom,                  \* WORK_CAP_WINDOW, .._HEADROOM
    SliverDivisor,                            \* OVER_CAP_WORK_DIVISOR
    RefreshMargin                             \* PROOF_REFRESH_MARGIN

Least(a, b) == IF a <= b THEN a ELSE b
Most(a, b) == IF a >= b THEN a ELSE b
Clamped(n, low, high) == Least(Most(n, low), high)
Less(a, b) == Most(a - b, 0)                  \* saturating_sub
CeilDiv(a, b) == (a + b - 1) \div b

------------------------------------------------------------------------------
\* Eligibility: large enough, and locked for long enough past the height
\* midstate's clock is estimated to have reached.
InEarlyPhase(t) == t < EarlyUntil
MinBondAt(t) == IF InEarlyPhase(t) THEN EarlyMinBond ELSE MinBond
MinLockAt(t) == IF InEarlyPhase(t) THEN EarlyMinLock ELSE MinLock

EstHeight(t) == t \div BlockSeconds + ClockMargin

Eligible(value, until, t) ==
    value >= MinBondAt(t) /\ until >= EstHeight(t) + MinLockAt(t)
EligibleAt(bond, t) == Eligible(bond.value, bond.until, t)

AnyCanSign(bonds, t) == \E b \in bonds : EligibleAt(b, t)

------------------------------------------------------------------------------
\* The bond set.
Registered(bonds, id) == \E b \in bonds : b.id = id

Expired(bonds, earliest) == {b \in bonds : ~EligibleAt(b, earliest)}

ProvenAbove(bonds, fork) == {b \in bonds : b.proven > fork}

\* apply_bond_effects and undo_bond_effects: what leaves goes before what
\* comes, in both directions.
WithEntries(bonds, gone, come) ==
    {b \in bonds : b.id \notin {g.id : g \in gone} \cup {c.id : c \in come}} \cup come

UndoneAddedLast(bonds, removed, added) ==
    {b \in WithEntries(bonds, {}, removed) : b.id \notin {a.id : a \in added}}
AppliedEffects(bonds, removed, added) == WithEntries(bonds, removed, added)
UndoneEffects(bonds, removed, added) == WithEntries(bonds, added, removed)

------------------------------------------------------------------------------
\* Registration.  The minimum is retargeted, in whole doublings of work.
Log2(n) == IF n <= 1 THEN 0 ELSE CHOOSE k \in 1..n : 2^k <= n /\ n < 2^(k + 1)
DoublingsSinceGenesis(work) == Log2(Most(work, 1)) - GenesisBits

\* Division truncates toward zero, so a chain easier than at launch is at 0.
RegistrationMinBond(work, t) ==
    IF t < RetargetFrom THEN MinBondAt(t)
    ELSE MinBondAt(t)
         * 2^Clamped(Most(DoublingsSinceGenesis(work), 0) \div PerDoubling, 0, MaxDoublings)

RegistrationWork(work) == work * WorkBlocks
RegistrationCap(work) == Most(RegistrationWork(work) \div MinHeaders, 1)

PrecheckRegistration(bonds, reg, work, t) ==
    /\ ~Registered(bonds, reg.bond.id)
    /\ reg.bond.value >= RegistrationMinBond(work, t)
    /\ reg.bond.until <= EstHeight(t) + MaxHorizon
    /\ Eligible(reg.bond.value, reg.bond.until, t)

------------------------------------------------------------------------------
\* What a block counts for.  counts[s] is how many of the last CapWindow
\* blocks s signed; a signer with none is not in its domain.
CountOf(counts, s) == IF s \in DOMAIN counts THEN counts[s] ELSE 0

Counted(counts, s) ==
    [x \in DOMAIN counts \cup {s} |-> CountOf(counts, x) + (IF x = s THEN 1 ELSE 0)]
Uncounted(counts, s) ==
    [x \in {y \in DOMAIN counts : y # s \/ counts[y] > 1}
        |-> counts[x] - (IF x = s THEN 1 ELSE 0)]

SignerCap(bonds, t) ==
    CeilDiv(CapWindow, Clamped(Cardinality({b \in bonds : EligibleAt(b, t)}), 1, CapK))

Sliver(work) == Most(work \div SliverDivisor, 1)

CappedSubsidy(reward, n, cap) == IF n <= cap THEN reward ELSE (reward * cap) \div n

SubsidyFor(reward, signer, counts, bonds, t) ==
    IF signer # NoSigner /\ t >= EarlyUntil
    THEN CappedSubsidy(reward, CountOf(counts, signer), SignerCap(bonds, t))
    ELSE reward

\* cap_work: the window is a run of <<height, work>> pairs with work rising,
\* each undercut by no later block; its front is the window's minimum.
KeptWindow(low, height) ==
    LET kept == {i \in 1..Len(low) : low[i].height >= Less(height, WorkCapWindow)}
    IN  IF kept = {} THEN <<>> ELSE SubSeq(low, Min(kept), Len(low))

PopsNothing(low, work) == low
Undercut(low, work) ==
    SubSeq(low, 1, Max({0} \cup {i \in 1..Len(low) : low[i].work < work}))

Creditable(low, height, work) ==
    LET kept == KeptWindow(low, height)
    IN  IF kept = <<>> THEN work
        ELSE Least(work, kept[1].work + kept[1].work \div Headroom)

CappedWindow(low, height, work) ==
    KeptWindow(Append(Undercut(KeptWindow(low, height), work),
                      [height |-> height, work |-> work]), height + 1)

\* credit_in_window: the signer is recorded, the oldest forgotten.
Recorded(window, signer) ==
    LET counts == IF signer = NoSigner THEN window.counts
                  ELSE Counted(window.counts, signer)
        recent == Append(window.recent, signer)
    IN  IF Len(recent) <= CapWindow THEN [recent |-> recent, counts |-> counts]
        ELSE [recent |-> Tail(recent),
              counts |-> IF Head(recent) = NoSigner THEN counts
                         ELSE Uncounted(counts, Head(recent))]

Credited(counts, bonds, height, signer, work, t) ==
    IF signer # NoSigner
    THEN IF CountOf(counts, signer) > SignerCap(bonds, t) THEN Sliver(work) ELSE work
    ELSE IF height >= BondedFrom THEN Sliver(work) ELSE work

\* What headers alone can say of a claimed weight.
CreditPossible(creditable, signed, height, credited) ==
    CASE signed -> credited \in {creditable, Sliver(creditable)}
      [] ~signed /\ height >= BondedFrom -> credited = Sliver(creditable)
      [] OTHER -> credited = creditable

EmptyWindow == [recent |-> <<>>, counts |-> <<>>]

RebuiltSigners(signers) ==
    LET after[n \in 0..Len(signers)] ==
            IF n = 0 THEN EmptyWindow ELSE Recorded(after[n - 1], signers[n])
    IN  after[Len(signers)]

\* works[i] is the work of the block at height start + i - 1.
RebuiltFloor(start, works) ==
    LET after[n \in 0..Len(works)] ==
            IF n = 0 THEN <<>> ELSE CappedWindow(after[n - 1], start + n - 1, works[n])
    IN  after[Len(works)]

------------------------------------------------------------------------------
\* signer_for: of a producer's bonds, its own first, the registered and
\* eligible one that has signed least of the window.
SignerFor(ids, key, bonds, counts, t) ==
    LET can == {i \in 1..Len(ids) :
                  \E b \in bonds : b.id = ids[i] /\ b.key = key /\ EligibleAt(b, t)}
    IN  IF can = {} THEN NoSigner
        ELSE ids[CHOOSE i \in can : \A j \in can :
                   \/ CountOf(counts, ids[i]) < CountOf(counts, ids[j])
                   \/ CountOf(counts, ids[i]) = CountOf(counts, ids[j]) /\ i <= j]
=============================================================================
