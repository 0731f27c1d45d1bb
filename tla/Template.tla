------------------------------- MODULE Template -------------------------------
(***************************************************************************)
(* The block a producer builds on a state (core/template.rs): which        *)
(* transactions, which midstate headers and whose registration it carries, *)
(* which of its bonds signs it, what it pays and what weight it claims.    *)
(* None of this is consensus: ApplyBatch judges the block afterwards.      *)
(*                                                                         *)
(* A transaction is a record: spends, groups, kernels and fee.  A producer *)
(* is its mining key and a sequence of bonds, its own first; a bond has at *)
(* most one registration (regs) and may carry the midstate headers that    *)
(* bury it.  A feed maps midstate heights to a header and the one below.   *)
(***************************************************************************)
EXTENDS ChainState, SequencesExt

CONSTANTS
    MaxBlockWeight, InputWeight, OutputWeight, KernelWeight,
    HeaderWeight,          \* RELAY_WEIGHT_PER_HEADER
    RegistrationWeight     \* REGISTRATION_WEIGHT, and the room kept for it

------------------------------------------------------------------------------
\* RelayFeed: runs are merged by height.  What prune forgets next_for never uses.
EmptyFeed == <<>>
FeedWith(feed, run, replace) ==
    LET new == [h \in run.start..(run.start + Len(run.links) - 1) |->
                  LET i == h - run.start + 1
                  IN  [below |-> IF i = 1 THEN run.prev ELSE run.links[i - 1],
                       link |-> run.links[i]]]
    IN  [h \in DOMAIN feed \cup DOMAIN new |->
            IF h \in DOMAIN new /\ (replace \/ h \notin DOMAIN feed) THEN new[h] ELSE feed[h]]

\* The run from a height on: linked, and no longer than a block may relay.
RunFrom(feed, start) ==
    LET goesOn(n) == \A i \in 1..n :
            /\ start + i \in DOMAIN feed
            /\ feed[start + i].below = feed[start + i - 1].link
        last == Max({n \in 0..(MaxRelay - 1) : goesOn(n)})
    IN  [prev |-> feed[start].below, links |-> [i \in 1..(last + 1) |-> feed[start + i - 1].link]]

\* next_for: on the relay's tip, or else where the feed last leaves the relay.
LeavesAt(feed, relay, h) ==
    /\ h \in DOMAIN feed /\ HasHeight(relay, h - 1) /\ HasHeight(relay, h)
    /\ feed[h].below = AtHeight(relay, h - 1).hash /\ feed[h].link # AtHeight(relay, h).hash
NextFor(feed, relay) ==
    LET tip == TipEntry(relay)
        forks == {h \in (BaseEntry(relay).height + 1)..tip.height : LeavesAt(feed, relay, h)}
    IN  CASE tip.height + 1 \in DOMAIN feed /\ feed[tip.height + 1].below = tip.hash ->
                RunFrom(feed, tip.height + 1)
          [] ~(tip.height + 1 \in DOMAIN feed /\ feed[tip.height + 1].below = tip.hash)
                /\ forks # {} -> RunFrom(feed, Max(forks))
          [] OTHER -> NoRun

\* choose_relay: the first run that fits the room and the clock and that the
\* relay would accept, the feed's or one its unregistered bonds carry.
Trimmed(run, room, t) ==
    LET early == {n \in 0..Least(Len(run.links), room) :
                    \A i \in 1..n : LinkTime[run.links[i]] <= t + RelayMaxFuture}
    IN  [run EXCEPT !.links = SubSeq(@, 1, Max(early))]
Pending(producer, bonds) ==
    {i \in 1..Len(producer.bonds) : ~Registered(bonds, producer.bonds[i].id)}
FeedOf(feed, producer, i) ==
    IF i = 0 THEN feed ELSE FeedWith(EmptyFeed, producer.bonds[i].carries, TRUE)
ChooseRelay(state, feed, producer, room, t) ==
    LET own == {i \in Pending(producer, state.bonds) : producer.bonds[i].carries # NoRun}
        proposed(i) == NextFor(FeedOf(feed, producer, i), state.relay)
        run(i) == Trimmed(proposed(i), room, t)
        fits == {i \in {0} \cup own :
                   /\ proposed(i) # NoRun /\ run(i).links # <<>>
                   /\ ExtendAllowed(state.relay, run(i), t)}
    IN  IF fits = {} THEN NoRun ELSE run(Min(fits))

------------------------------------------------------------------------------
\* Weights, and the transactions a block has room for.
BodyWeight(body) ==
    InputWeight * Cardinality(body.spends) + OutputWeight * Cardinality(OutputsOf(body))
        + KernelWeight * Cardinality(body.kernels)
RunWeight(run) == IF run = NoRun THEN 0 ELSE HeaderWeight * Len(run.links)

WholeBlock(state, payouts, producer, feed) == MaxBlockWeight
TransactionBudget(state, payouts, producer, feed) ==
    LET waits == \E i \in 1..Len(producer.bonds) :
                    /\ ~Registered(state.bonds, producer.bonds[i].id)
                    /\ producer.bonds[i].regs # <<>>
    IN  Less(Less(Less(Less(MaxBlockWeight, payouts * OutputWeight), KernelWeight),
                  IF waits THEN RegistrationWeight ELSE 0),
             RunWeight(NextFor(feed, state.relay)))

Aggregate(txs) ==
    [spends |-> UNION {tx.spends : tx \in txs}, groups |-> UNION {tx.groups : tx \in txs},
     kernels |-> UNION {tx.kernels : tx \in txs},
     fees |-> SumFunction([tx \in txs |-> tx.fee])]

Conflicts(tx, chosen) ==
    LET coins(body) == SpentCoins(body) \cup CoinsOf(OutputsOf(body))
    IN  coins(tx) \cap coins(chosen) # {} \/ tx.kernels \cap chosen.kernels # {}

\* select_transactions: by fee for their weight, as long as there is room; the
\* one that pays least for its weight is looked at last.
NoBetter(a, b) == a.fee * Most(BodyWeight(b), 1) <= b.fee * Most(BodyWeight(a), 1)
PaysLeast(txs) == CHOOSE tx \in txs : \A other \in txs : NoBetter(tx, other)
FitsWith(chosen, tx, height, budget) ==
    /\ \A k \in tx.kernels : k.minHeight <= height
    /\ BodyWeight(Aggregate(chosen \cup {tx})) <= budget
    /\ ~Conflicts(tx, Aggregate(chosen))
SelectTransactions(candidates, height, budget) ==
    MapThenFoldSet(LAMBDA tx, chosen : IF FitsWith(chosen, tx, height, budget)
                                       THEN chosen \cup {tx} ELSE chosen,
                   {}, LAMBDA tx : tx, PaysLeast, candidates)

\* split_by_weight: whole shares, then one unit each to the largest fractions,
\* the first of equals; an empty share is left out.
Whole(total, weights) ==
    [i \in 1..Len(weights) |-> (total * weights[i]) \div SumFunction(weights)]
Fraction(total, weights) ==
    [i \in 1..Len(weights) |-> (total * weights[i]) % SumFunction(weights)]
Ahead(fraction, i) ==
    {j \in DOMAIN fraction : \/ fraction[j] > fraction[i]
                             \/ fraction[j] = fraction[i] /\ j < i}
ExtraTo(fraction, left, i) == IF Cardinality(Ahead(fraction, i)) < left THEN 1 ELSE 0
Positive(values) ==
    LET kept[n \in 0..Len(values)] ==
            IF n = 0 THEN <<>>
            ELSE IF values[n] > 0 THEN Append(kept[n - 1], values[n]) ELSE kept[n - 1]
    IN  kept[Len(values)]
SplitByWeight(total, weights) ==
    LET whole == Whole(total, weights)
        fraction == Fraction(total, weights)
        left == total - SumFunction(whole)
    IN  Positive([i \in 1..Len(weights) |-> whole[i] + ExtraTo(fraction, left, i)])

\* A coinbase's outputs are new coins.
Rewards(state, n) == {[coin |-> state.height + 100 * (i - 1), owner |-> "o"] : i \in 1..n}

------------------------------------------------------------------------------
\* The registration a block carries: the producer's own bond's until the chain
\* has it, then one its co-bonds wait with, if the chain would take it.
TakenBy(after, reg, work, t) ==
    /\ PrecheckRegistration(after.bonds, reg, work, t)
    /\ RegistrationVerifies(after.relay, reg, work)
Retired(own, t) == own.regs # <<>> /\ ~Eligible(own.regs[1].bond.value, own.regs[1].bond.until, t)

OwnWaits(producer, after, work, t) ==
    /\ producer.bonds # <<>> /\ ~Registered(after.bonds, producer.bonds[1].id)
    /\ ~Retired(producer.bonds[1], t)
NotReady(producer, after, work, t) ==
    /\ OwnWaits(producer, after, work, t)
    /\ \A i \in 1..Len(producer.bonds[1].regs) :
          ~TakenBy(after, producer.bonds[1].regs[i], work, t)
CarriedRegs(producer, after, work, t) ==
    IF NotReady(producer, after, work, t) THEN <<>>
    ELSE IF OwnWaits(producer, after, work, t) THEN producer.bonds[1].regs
    ELSE LET ready == {i \in 2..Len(producer.bonds) :
                /\ ~Registered(after.bonds, producer.bonds[i].id)
                /\ producer.bonds[i].regs # <<>>
                /\ TakenBy(after, producer.bonds[i].regs[1], work, t)}
         IN  IF ready = {} THEN <<>> ELSE producer.bonds[Min(ready)].regs

SignerOf(producer, bonds, counts, t) ==
    SignerFor([i \in 1..Len(producer.bonds) |-> producer.bonds[i].id], producer.key,
              bonds, counts, t)

\* A producer none of whose bonds can sign leaves the block to those who can.
Refuses(producer, signer, bonds, height, t) ==
    /\ signer = NoSigner /\ (producer.bonds # <<>> \/ height >= BondedFrom)
    /\ AnyCanSign(bonds, t)

\* build_template_relayed: what the block is, or that there is none.
Block(state, body, run, regs, signer, shares, weighed, t) ==
    [time |-> t, signer |-> signer, relay |-> run, regs |-> regs, spends |-> body.spends,
     groups |-> body.groups, reward |-> Rewards(state, Len(shares)), kernels |-> body.kernels,
     fees |-> body.fees, weight |-> Claim(state, weighed)]

BodyApplies(state, blk, subsidy) ==
    /\ KernelsOk(state, blk) /\ SpendsOk(state, blk) /\ OutputsOk(state, blk)
    /\ state.supply + subsidy <= IssuedBefore(state.height + 1)
BlockWeight(blk) ==
    BodyWeight(blk) + RunWeight(blk.relay) + RegistrationWeight * Len(blk.regs)
        + (IF blk.reward = {} THEN 0
           ELSE OutputWeight * Cardinality(blk.reward) + KernelWeight)

\* validate_block_contents, without the relayed headers' proofs of work.
SelfChecked(blk, subsidy) ==
    /\ StructureOk(blk) /\ Len(blk.regs) <= MaxRegistrations
    /\ blk.reward = {} <=> subsidy + blk.fees = 0
    /\ BlockWeight(blk) <= MaxBlockWeight

NoTemplate(why) == [ok |-> FALSE, why |-> why]
Finished(state, blk, shares, subsidy) ==
    IF BodyApplies(state, blk, subsidy) /\ SelfChecked(blk, subsidy)
    THEN [ok |-> TRUE, blk |-> blk, shares |-> shares] ELSE NoTemplate("fails")

Shares(amount, payouts) == IF amount = 0 THEN <<>> ELSE SplitByWeight(amount, payouts)
WholeReward(state, signer, weighed, bonds, t) == RewardAt(state.height)
Pay(state, signer, weighed, bonds, t) ==
    SubsidyFor(RewardAt(state.height), signer, weighed.window.counts, bonds, t)
Signed(state, after, body, run, regs, bonds, signer, payouts, t) ==
    LET weighed == WeighedIn(state, bonds, [signer |-> signer, time |-> t], WorkOf(state),
                     Recorded([recent |-> state.recent, counts |-> state.counts], signer))
        subsidy == Pay(state, signer, weighed, bonds, t)
        shares == Shares(subsidy + body.fees, payouts)
    IN  Finished(after, Block(state, body, run, regs, signer, shares, weighed, t), shares,
                 subsidy)

AfterRelay(pruned, run) ==
    LET change == RelayChange(pruned, [relay |-> run])
    IN  [pruned EXCEPT !.relay = Without(@, change.removed) \cup change.added,
                       !.bonds = @ \ RevokedBy(@, change)]
Registering(state, after, body, run, producer, payouts, t) ==
    LET regs == CarriedRegs(producer, after, WorkOf(state), t)
        bonds == after.bonds \cup {EntryOf(regs[i]) : i \in 1..Len(regs)}
        signer == SignerOf(producer, bonds, state.counts, t)
    IN  IF Refuses(producer, signer, bonds, state.height, t) THEN NoTemplate("refused")
        ELSE Signed(state, after, body, run, regs, bonds, signer, payouts, t)

BuildTemplate(state, times, txs, payouts, t, producer, feed) ==
    LET pruned == [state EXCEPT !.bonds = @ \ Expired(@, MinNextTime(times))]
        body == Aggregate(txs)
        shares == Shares(RewardAt(state.height) + body.fees, payouts)
        used == BodyWeight(body) + RegistrationWeight
                  + (IF shares = <<>> THEN 0 ELSE OutputWeight * Len(shares) + KernelWeight)
        run == ChooseRelay(pruned, feed, producer,
                           Less(MaxBlockWeight, used) \div HeaderWeight, t)
    IN  Registering(state, AfterRelay(pruned, run), body, run, producer, payouts, t)
=============================================================================
