------------------------------- MODULE Producer -------------------------------
(***************************************************************************)
(* A producer at work on the chain the store holds: on the tip, or past a  *)
(* run of other producers' over-cap blocks where its own block would count *)
(* in full (core/orphan.rs; node.rs, refresh_mining).                      *)
(***************************************************************************)
EXTENDS ChainStore, Template, TLC

CONSTANTS
    Producers, Feeds,
    PoolTxs,         \* transactions; the mempool offers those that apply on the tip
    Payouts,         \* weights a reward is split by
    Delays,          \* how long after the earliest time a template is stamped
    OrphanDepth      \* max_orphan_depth

\* mempool.candidates and orphan_template: what applies by itself.
AppliesAlone(state, tx) ==
    BodyApplies(state, [tx EXCEPT !.fee = 0] @@ [reward |-> {}], 0)
Offered(state) == {tx \in PoolTxs : AppliesAlone(state, tx)}

Times == TimesOf(tables.blocks)

\* refresh_mining, on the tip: with transactions, or else without.
OnTip(txs, payouts, delay, producer, feed) ==
    BuildTemplate(tip, Times, txs, payouts, MinNextTime(Times) + delay, producer, feed)
Chosen(state, candidates, payouts, producer, feed) ==
    SelectTransactions(candidates, state.height,
                       TransactionBudget(state, Len(payouts), producer, feed))

------------------------------------------------------------------------------
\* What a block added to its chain's weight, by the headers, and whether that
\* is more than an over-cap or an unsigned block adds.
Added(h) == WeightAfter(h) - WeightAfter(h - 1)
FullWeight(added, work) == added > Sliver(work) \/ added = work
CountedInFull(h) == FullWeight(Added(h), WorkOfHeader(tables.blocks, h))

\* orphanable_run: how many blocks at the tip a producer may build past.
OwnFirst(producer, signer) == producer.bonds # <<>> /\ producer.bonds[1].id = signer
Own(producer, signer) == \E i \in 1..Len(producer.bonds) : producer.bonds[i].id = signer
RunOf(producer) ==
    LET top == tip.height - 1
        light(h) == ~CountedInFull(h) /\ ~Own(producer, tables.blocks[h].signer)
    IN  Max({n \in 0..Least(OrphanDepth, top) : \A h \in (top - n + 1)..top : light(h)})

(* orphan_template, on the block at height base - 1: the run's transactions
   and the pool's, as far as they apply there; nothing unless the block would
   count in full and outweigh the tip. *)
Carried(base) ==
    {[spends |-> b.spends, groups |-> b.groups, kernels |-> b.kernels, fee |-> 0] :
        b \in {tables.blocks[h] : h \in base..(tip.height - 1)}}
Candidates(base, state) == {tx \in Carried(base) \cup Offered(tip) : AppliesAlone(state, tx)}
CountsInFull(blk, state) == FullWeight(Less(blk.weight, WeightOf(state)), WorkOf(state))
Pays(blk, state) == CountsInFull(blk, state) /\ blk.weight > WeightOf(tip)
OrElse(first, second) == IF first.ok THEN first ELSE second
IfPays(template, state) ==
    IF template.ok /\ Pays(template.blk, state) THEN template ELSE NoTemplate("declined")
Past(base, state, times, payouts, producer, feed) ==
    LET full(t) == BuildTemplate(state, times, t, payouts, MinNextTime(times), producer, feed)
    IN  IfPays(OrElse(full(Chosen(state, Candidates(base, state), payouts, producer, feed)),
                      full({})), state)
Orphaning(payouts, producer, feed) ==
    LET base == tip.height - RunOf(producer)
    IN  IF producer.bonds = <<>> \/ base = tip.height \/ ~Derivable(base)
        THEN NoTemplate("no run")
        ELSE Past(base, StateAt(base), TimesOf(Below(base)), payouts, producer, feed)

------------------------------------------------------------------------------
Total(shares) == SumFunction(shares)
\* The block applies, and pays what it mints and what its transactions leave.
Stands(state, times, template, applied) ==
    /\ applied.ok
    /\ Total(template.shares) = (applied.state.supply - state.supply) + template.blk.fees
Valid(state, times, template) ==
    Stands(state, times, template, ApplyBatch(state, template.blk, times))

(* What a producer builds on the tip is a block the chain accepts: its relay
   run, its registration, its signer, the weight it claims and what it pays
   are those apply_batch works out again (template.rs:404-655). *)
TemplatesApply ==
    \A producer \in Producers, feed \in Feeds, payouts \in Payouts, delay \in Delays :
        LET template == OnTip(Chosen(tip, Offered(tip), payouts, producer, feed),
                              payouts, delay, producer, feed)
        IN  template.ok => Valid(tip, Times, template)

\* Whatever the mempool offers, a producer that could mine an empty block has a
\* template with transactions (select_transactions, transaction_budget).
PoolNeverStopsMining ==
    \A producer \in Producers, feed \in Feeds, payouts \in Payouts :
        OnTip({}, payouts, 0, producer, feed).ok
          => OnTip(Chosen(tip, Offered(tip), payouts, producer, feed), payouts, 0,
                   producer, feed).ok

OverCap(h) ==
    LET blk == tables.blocks[h]
        bonds == Replay(Drop(tables.blocks, h)).state.bonds
    IN  blk.signer = NoSigner \/ SignedBy(h, blk.signer) > SignerCap(bonds, blk.time)
Replaces(applied) == applied.ok /\ WeightOf(applied.state) > WeightOf(tip)
OnlySlivers(template, base, producer) ==
    template.ok =>
        /\ \A h \in base..(tip.height - 1) :
              /\ OverCap(h)
              /\ \A i \in 1..Len(producer.bonds) :
                    tables.blocks[h].signer # producer.bonds[i].id
        /\ Replaces(ApplyBatch(StateAt(base), template.blk, TimesOf(Below(base))))

(* A block built past a run applies there, makes a chain the node would adopt,
   and throws away only what counted for a sliver and is not the producer's:
   blocks nobody signed, or whose signer was over its cap (orphan.rs:1-30). *)
OrphansOnlySlivers ==
    \A producer \in Producers, feed \in Feeds, payouts \in Payouts :
        OnlySlivers(Orphaning(payouts, producer, feed), tip.height - RunOf(producer), producer)
=============================================================================
