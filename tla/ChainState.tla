------------------------------ MODULE ChainState ------------------------------
(***************************************************************************)
(* What a block does to the chain's state (core/state.rs, apply_batch):    *)
(* unspent outputs, kernels, supply, bonds, the midstate relay and the     *)
(* fork-choice windows, with the diffs its undo record will need.          *)
(*                                                                         *)
(* A block is a record: time, signer, relay (a run or NoRun), regs (at     *)
(* most one registration), spends, groups, reward (the coinbase's group),  *)
(* kernels, fees and the chain weight its header claims.  That it was      *)
(* built on the state it is applied to, its proof of work and the root it  *)
(* commits to are taken as checked: here the state itself is compared.     *)
(***************************************************************************)
EXTENDS Bonds, Relay

CONSTANTS
    GenesisWork,         \* work of the genesis target
    TargetWork(_, _),    \* calculate_work(calculate_target(height, time))
    RewardAt(_),         \* block_reward
    IssuedBefore(_),     \* issued_before
    Maturity,            \* COINBASE_MATURITY
    MedianWindow,        \* MEDIAN_TIME_PAST_WINDOW (11)
    MaxRegistrations,    \* MAX_REGISTRATIONS_PER_BLOCK (1)
    NoRun

GenesisState ==
    [height |-> 1, time |-> 0, depth |-> GenesisWork, capped |-> 0, supply |-> 0,
     utxos |-> {}, kernels |-> {}, bonds |-> {}, relay |-> GenesisRelay,
     recent |-> <<NoSigner>>, counts |-> <<>>,
     low |-> <<[height |-> 0, work |-> GenesisWork]>>]

WeightOf(state) == Less(state.depth, state.capped)

\* median_time_floor: of the last MedianWindow timestamps, or the last one.
TimeFloor(times) ==
    IF Len(times) < MedianWindow THEN times[Len(times)]
    ELSE LET last == SubSeq(times, Len(times) - MedianWindow + 1, Len(times))
             Below(t) == Cardinality({i \in 1..MedianWindow : last[i] < t})
             UpTo(t) == Cardinality({i \in 1..MedianWindow : last[i] <= t})
         IN  CHOOSE t \in {last[i] : i \in 1..MedianWindow} :
                Below(t) <= MedianWindow \div 2 /\ MedianWindow \div 2 < UpTo(t)

MinNextTime(times) == TimeFloor(times) + 1

------------------------------------------------------------------------------
\* The body.  Outputs come in groups; spends name an output and its owner.
OutputsOf(blk) == UNION blk.groups
CoinsOf(outputs) == {o.coin : o \in outputs}
SpentCoins(blk) == {s.coin : s \in blk.spends}

\* A coin's record is found by its commitment.
HasCoin(utxos, coin) == \E u \in utxos : u.coin = coin
CoinEntry(utxos, coin) == CHOOSE u \in utxos : u.coin = coin

SpendsOk(state, blk) ==
    \A s \in blk.spends :
        /\ HasCoin(state.utxos, s.coin)
        /\ LET u == CoinEntry(state.utxos, s.coin)
           IN  u.owner = s.owner /\ (u.coinbase => state.height >= u.height + Maturity)

\* Transaction::validate_structure: no group is empty, no output is repeated or
\* spent where it is made, and nothing moves without a kernel.
StructureOk(blk) ==
    /\ {} \notin blk.groups
    /\ \A g, k \in blk.groups : \A o \in g, p \in k : o.coin = p.coin => g = k /\ o = p
    /\ CoinsOf(OutputsOf(blk)) \cap SpentCoins(blk) = {}
    /\ blk.kernels = {} => blk.spends = {} /\ blk.groups = {}

\* Inputs are removed before outputs are added; a coin may be made again once
\* it is spent, and a block does not spend its own coinbase.
OutputsOk(state, blk) ==
    LET made == CoinsOf(OutputsOf(blk)) \cup CoinsOf(blk.reward)
        left == {u.coin : u \in state.utxos} \ SpentCoins(blk)
    IN  /\ made \cap left = {}
        /\ CoinsOf(blk.reward) \cap (CoinsOf(OutputsOf(blk)) \cup SpentCoins(blk)) = {}

KernelsOk(state, blk) ==
    /\ \A k \in blk.kernels : k.minHeight <= state.height
    /\ {k.id : k \in blk.kernels} \cap state.kernels = {}

Made(state, outputs, coinbase) ==
    {[coin |-> o.coin, owner |-> o.owner, height |-> state.height,
      coinbase |-> coinbase] : o \in outputs}

\* The coinbase claims the subsidy and the fees: with neither there is none.
ContentsOk(blk, subsidy) ==
    /\ StructureOk(blk) /\ Len(blk.regs) <= MaxRegistrations
    /\ blk.relay # NoRun => RunVerifies(blk.relay)
    /\ blk.reward = {} <=> subsidy + blk.fees = 0

------------------------------------------------------------------------------
(* BondRegistration::verify, against the relay as the block leaves it: the
   proof's header is on the relay, it proves this bond, and it is buried. *)
RegistrationVerifies(relay, reg, work) ==
    /\ HasHeight(relay, reg.proven) /\ reg.proven # RelayRoot.height
    /\ AtHeight(relay, reg.proven).hash = reg.hash
    /\ CreditedAbove(relay, reg.proven, RegistrationCap(work)) >= RegistrationWork(work)

EntryOf(reg) ==
    [id |-> reg.bond.id, key |-> reg.bond.key, value |-> reg.bond.value,
     until |-> reg.bond.until, proven |-> reg.proven, hash |-> reg.hash]

\* check_miner_authorization, and when a block may go without.
Authorized(bonds, blk, height) ==
    IF blk.signer # NoSigner
    THEN \E b \in bonds : b.id = blk.signer /\ EligibleAt(b, blk.time)
    ELSE height >= BondedFrom => ~AnyCanSign(bonds, blk.time)

\* Step 4 of apply_batch: what the block changes in the bonds and the relay.  A
\* run that builds on nothing is refused (ExtendAllowed) and changes nothing.
NoChange == [added |-> {}, removed |-> {}, forks |-> FALSE, fork |-> 0]
RelayChange(state, blk) ==
    IF blk.relay = NoRun \/ ~OnRelay(state.relay, blk.relay.prev) THEN NoChange
    ELSE Extended(state.relay, blk.relay)

RevokesNothing(bonds, change) == {}
RevokedBy(bonds, change) ==
    IF change.forks THEN ProvenAbove(bonds, change.fork) ELSE {}

EffectsOf(state, blk, expired, change) ==
    [bondsRemoved |-> expired \cup RevokedBy(state.bonds \ expired, change),
     bondsAdded |-> {EntryOf(blk.regs[i]) : i \in 1..Len(blk.regs)},
     relayAdded |-> change.added, relayRemoved |-> change.removed]
Effects(state, blk, times) ==
    EffectsOf(state, blk, Expired(state.bonds, MinNextTime(times)), RelayChange(state, blk))

BondsWith(state, effects) ==
    (state.bonds \ effects.bondsRemoved) \cup effects.bondsAdded
RelayWith(state, effects) ==
    Without(state.relay, effects.relayRemoved) \cup effects.relayAdded

\* Step 5a: the windows with the block in them, and what it counts for.
WorkOf(state) == TargetWork(state.height, state.time)
WeighedIn(state, bonds, blk, work, window) ==
    [work |-> work, window |-> window,
     low |-> CappedWindow(state.low, state.height, work),
     credited |-> Credited(window.counts, bonds, state.height, blk.signer,
                           Creditable(state.low, state.height, work), blk.time)]
Weighed(state, bonds, blk) ==
    WeighedIn(state, bonds, blk, WorkOf(state),
              Recorded([recent |-> state.recent, counts |-> state.counts], blk.signer))

Claim(state, weighed) == WeightOf(state) + weighed.credited

(* What apply_batch checks, once the effects, the bonds the block leaves, its
   weight and its subsidy are worked out.  The clock, which refuses a time too
   far ahead, is left out. *)
Accepts(state, blk, times, effects, bonds, weighed, subsidy) ==
    /\ blk.time >= MinNextTime(times)
    /\ blk.relay # NoRun => ExtendAllowed(state.relay, blk.relay, blk.time)
    /\ \A i \in 1..Len(blk.regs) :
          /\ PrecheckRegistration(state.bonds \ effects.bondsRemoved, blk.regs[i],
                                  weighed.work, blk.time)
          /\ RegistrationVerifies(RelayWith(state, effects), blk.regs[i], weighed.work)
    /\ Authorized(bonds, blk, state.height)
    /\ blk.weight = Claim(state, weighed)
    /\ ContentsOk(blk, subsidy)
    /\ KernelsOk(state, blk) /\ SpendsOk(state, blk) /\ OutputsOk(state, blk)
    /\ state.supply + subsidy <= IssuedBefore(state.height + 1)

\* apply_body and steps 6 and 7.
After(state, blk, effects, bonds, weighed, subsidy) ==
    [height |-> state.height + 1, time |-> blk.time,
     depth |-> state.depth + weighed.work,
     capped |-> state.capped + (weighed.work - weighed.credited),
     supply |-> state.supply + subsidy,
     utxos |-> {u \in state.utxos : u.coin \notin SpentCoins(blk)}
                  \cup Made(state, OutputsOf(blk), FALSE)
                  \cup Made(state, blk.reward, TRUE),
     kernels |-> state.kernels \cup {k.id : k \in blk.kernels},
     bonds |-> bonds, relay |-> RelayWith(state, effects),
     recent |-> weighed.window.recent, counts |-> weighed.window.counts,
     low |-> weighed.low]

\* apply_batch, one value worked out from the ones before it.
Subsidized(state, blk, times, effects, bonds, weighed, subsidy) ==
    [ok |-> Accepts(state, blk, times, effects, bonds, weighed, subsidy),
     claim |-> Claim(state, weighed), effects |-> effects,
     state |-> After(state, blk, effects, bonds, weighed, subsidy)]
Weighted(state, blk, times, effects, bonds, weighed) ==
    Subsidized(state, blk, times, effects, bonds, weighed,
               SubsidyFor(RewardAt(state.height), blk.signer, weighed.window.counts,
                          bonds, blk.time))
Bonded(state, blk, times, effects, bonds) ==
    Weighted(state, blk, times, effects, bonds, Weighed(state, bonds, blk))
Changed(state, blk, times, effects) ==
    Bonded(state, blk, times, effects, BondsWith(state, effects))
ApplyBatch(state, blk, times) == Changed(state, blk, times, Effects(state, blk, times))

\* A chain is the blocks above genesis; times are those of its last blocks.
TimesOf(chain) == <<0>> \o [i \in 1..Len(chain) |-> chain[i].time]

\* The state a chain leaves, and whether every block of it applies.
ReplayedBlock(below, blk, times) ==
    LET applied == ApplyBatch(below.state, blk, times)
    IN  [sound |-> below.sound /\ applied.ok, state |-> applied.state]
Replay(chain) ==
    LET after[n \in 0..Len(chain)] ==
            IF n = 0 THEN [sound |-> TRUE, state |-> GenesisState]
            ELSE ReplayedBlock(after[n - 1], chain[n], TimesOf(SubSeq(chain, 1, n - 1)))
    IN  after[Len(chain)]
=============================================================================
