-------------------------------- MODULE TxPool --------------------------------
(***************************************************************************)
(* Transactions on their way into blocks: the pool (mempool.rs), the       *)
(* Dandelion++ stem pool and the handlers that feed them (node.rs), while  *)
(* blocks confirm, conflict with and, replaced, give back transactions.    *)
(*                                                                         *)
(* A transaction is a set of parts, one kernel each: a wallet makes one of *)
(* one part, an aggregate has several.  Fees, proofs and signatures are    *)
(* data: WellFormed parts pass every check that needs no state.            *)
(***************************************************************************)
EXTENDS Integers, Sequences, FiniteSets, FiniteSetsExt, SequencesExt

CONSTANTS
    Parts, WellFormed,
    InsOf, OutsOf,         \* [Parts -> SUBSET coins]
    FeeOf, SizeOf,         \* [Parts -> Nat]
    LockOf,                \* [Parts -> Nat]: lock_height
    FirstCoins,            \* unspent before the first block
    MaxPool, MaxTx,        \* MAX_POOL_WEIGHT, what a relayed one may weigh
    CacheBlocks,           \* REORG_CACHE_BLOCKS
    MaxStem,               \* MAX_STEM_POOL
    MaxValidations,        \* MAX_TX_VALIDATIONS
    SeenLimit,             \* SEEN_TX_LIMIT
    MaxHeard, MaxConfirmed \* bounds: transactions that arrive, blocks

TxPoolAssumption ==
    /\ IsFiniteSet(Parts)
    /\ \A p \in Parts : FeeOf[p] \in Nat /\ SizeOf[p] \in Nat
    /\ MaxPool \in Nat /\ MaxTx \in Nat /\ MaxTx <= MaxPool
    /\ CacheBlocks \in Nat \ {0}
    /\ MaxConfirmed \in Nat

VARIABLES
    confirmed,    \* the chain: the parts each block confirmed
    pool,         \* Mempool::entries
    claimed,      \* Mempool::spends, creates and kernels
    cache,        \* ReorgCache: <<height, transactions>>
    stem,         \* Node::stem_pool
    seen,         \* Node::seen_order
    validating,   \* worker threads: the transaction and where it came from
    abroad,       \* parts some node has broadcast
    heard         \* how many transactions have come in

txVars == <<confirmed, pool, claimed, cache, stem, seen, validating, abroad, heard>>

Txs == {T \in SUBSET Parts : T # {}}

Ins(T) == UNION {InsOf[p] : p \in T}
Outs(T) == UNION {OutsOf[p] : p \in T}
Size(T) == MapThenSumSet(LAMBDA p : SizeOf[p], T)
Fee(T) == MapThenSumSet(LAMBDA p : FeeOf[p], T)
Better(T, U) == Fee(T) * Size(U) > Fee(U) * Size(T)      \* Entry::rate

\* apply_body on the state a chain leaves.
Kernels(chain) == UNION Range(chain)
Coins(chain) ==
    LET after[n \in 0..Len(chain)] ==
            IF n = 0 THEN FirstCoins
            ELSE (after[n - 1] \ Ins(chain[n])) \cup Outs(chain[n])
    IN  after[Len(chain)]
Applies(chain, T) ==
    /\ Ins(T) \subseteq Coins(chain)
    /\ Outs(T) \cap (Coins(chain) \ Ins(T)) = {}
    /\ T \cap Kernels(chain) = {}
    /\ \A p \in T : LockOf[p] <= Len(chain) + 1

\* Transaction::aggregate, validate_structure: no input, output or kernel
\* twice, and nothing spent that the same body makes.
Aggregates(S) ==
    /\ \A T, U \in S : T # U => Ins(T) \cap Ins(U) = {} /\ Outs(T) \cap Outs(U) = {}
                                /\ T \cap U = {}
    /\ Ins(UNION S) \cap Outs(UNION S) = {}
WellBuilt(T) == Aggregates({{p} : p \in T})
Structured(T) == WellBuilt(T) /\ Size(T) <= MaxTx

------------------------------------------------------------------------------
NoClaims == [spends |-> {}, creates |-> {}, kernels |-> {}]
Claiming(c, T) == [spends |-> c.spends \cup Ins(T), creates |-> c.creates \cup Outs(T),
                   kernels |-> c.kernels \cup T]
ReleasesCoins(c, S) == [spends |-> c.spends \ Ins(UNION S), creates |-> c.creates \ Outs(UNION S),
                        kernels |-> c.kernels]
Releasing(c, S) == [spends |-> c.spends \ Ins(UNION S), creates |-> c.creates \ Outs(UNION S),
                    kernels |-> c.kernels \ UNION S]

\* A pool and what it claims, changed together.
Holding(entries, claims) == [entries |-> entries, claims |-> claims]
Dropping(m, S) == Holding(m.entries \ S, Releasing(m.claims, S))

Free(m, T) ==
    /\ Ins(T) \cap (m.claims.spends \cup m.claims.creates) = {}
    /\ Outs(T) \cap m.claims.creates = {} /\ T \cap m.claims.kernels = {}

Check(m, chain, T) ==
    T \notin m.entries /\ Structured(T) /\ Free(m, T) /\ Applies(chain, T)

(* add: cheaper transactions are evicted one by one until T fits.  It may not
   fit after all: those evicted are gone. *)
Cheapest(m, T) ==
    {R \in SUBSET {U \in m.entries : Better(T, U)} :
        \A U \in R, V \in m.entries \ R : ~Better(U, V)}
MakesRoom(m, T, R) == Size(UNION (m.entries \ R)) + Size(T) <= MaxPool
Enter(m, T) == Holding(m.entries \cup {T}, Claiming(m.claims, T))
Add(m, chain, T) ==
    IF ~Check(m, chain, T) THEN [ok |-> FALSE, pool |-> m]
    ELSE LET enough == {R \in Cheapest(m, T) : MakesRoom(m, T, R)}
             least == CHOOSE R \in enough : \A Q \in enough : Cardinality(R) <= Cardinality(Q)
         IN  IF enough # {}
             THEN [ok |-> TRUE, pool |-> Enter(Dropping(m, least), T)]
             ELSE [ok |-> FALSE, pool |-> Dropping(m, {U \in m.entries : Better(T, U)})]

AddAll(m, chain, order) ==
    LET after[n \in 0..Len(order)] ==
            IF n = 0 THEN m ELSE Add(after[n - 1], chain, order[n]).pool
    IN  after[Len(order)]

Revalidated(m, chain) == Dropping(m, {T \in m.entries : ~Applies(chain, T)})

\* on_block: what the block mined or made impossible leaves.
Mined(m, B) == {T \in m.entries : T \subseteq B}
Doomed(m, B) == {T \in m.entries : T \cap B # {} \/ Ins(T) \cap Ins(B) # {}}
OnBlock(m, chain, B) == Revalidated(Dropping(m, Mined(m, B) \cup Doomed(m, B)), chain)

AtLeast1(n) == IF n < 1 THEN 1 ELSE n
Record(c, height, txs) ==
    IF txs = {} THEN c
    ELSE LET grown == Append(c, [height |-> height, txs |-> txs])
         IN  SubSeq(grown, AtLeast1(Len(grown) - CacheBlocks + 1), Len(grown))
\* take_from: the blocks popped off the back.
CachedAbove(c, first) == {i \in 1..Len(c) : c[i].height > first}
CachedFrom(c, first) == {i \in 1..Len(c) : c[i].height >= first}

Older(c, popped) == SubSeq(c, 1, Len(c) - Cardinality(popped))

Node == Holding(pool, claimed)
Become(m) == pool' = m.entries /\ claimed' = m.claims

\* mark_tx_seen.
MarkSeen(order, T) ==
    IF T \in Range(order) THEN order
    ELSE LET grown == Append(order, T)
         IN  SubSeq(grown, AtLeast1(Len(grown) - SeenLimit + 1), Len(grown))

\* What of S gets into the pool is broadcast.
Enters(m, S) == Become(m) /\ abroad' = abroad \cup UNION (m.entries \cap S)

\* fluff: into the node's own pool, and broadcast if it gets there.
Fluff(T) == seen' = MarkSeen(seen, T) /\ Enters(Add(Node, confirmed, T).pool, {T})
FluffEach(order) ==
    LET marked[n \in 0..Len(order)] ==
            IF n = 0 THEN seen ELSE MarkSeen(marked[n - 1], order[n])
    IN  seen' = marked[Len(order)] /\ Enters(AddAll(Node, confirmed, order), Range(order))
------------------------------------------------------------------------------
PoolInit ==
    /\ confirmed = <<>> /\ pool = {} /\ claimed = NoClaims /\ cache = <<>>
    /\ stem = {} /\ seen = <<>> /\ validating = {} /\ abroad = {} /\ heard = 0

\* validate_tx: refused when it is being validated already or too many are.
Validating(T, from) ==
    IF (\E v \in validating : v.tx = T) \/ Cardinality(validating) >= MaxValidations
    THEN validating ELSE validating \cup {[tx |-> T, from |-> from]}

Hears == heard < MaxHeard /\ heard' = heard + 1

SubmitLocal(p) ==
    /\ Hears /\ validating' = Validating({p}, "local")
    /\ UNCHANGED <<confirmed, pool, claimed, cache, stem, seen, abroad>>

\* handle_new_transaction: one seen before is not looked at again.
HearGossip(T) ==
    /\ Hears /\ seen' = MarkSeen(seen, T) /\ abroad' = abroad \cup T
    /\ IF T \in Range(seen) \/ T \in pool THEN UNCHANGED <<stem, validating>>
       ELSE stem' = stem \ {T} /\ validating' = Validating(T, "gossip")
    /\ UNCHANGED <<confirmed, pool, claimed, cache>>

\* handle_stem_transaction.
HearStem(T) ==
    /\ Hears
    /\ validating' = IF T \in stem \/ T \in pool \/ Cardinality(stem) >= MaxStem
                     THEN validating ELSE Validating(T, "stem")
    /\ UNCHANGED <<confirmed, pool, claimed, cache, stem, seen, abroad>>

\* on_tx_validated, by where the transaction came from.
Sound(v) == v.tx \subseteq WellFormed /\ Structured(v.tx)
Validated(v) == v \in validating /\ validating' = validating \ {v}

GossipValidated(v) ==
    /\ Validated(v) /\ v.from = "gossip"
    /\ Become(IF Sound(v) THEN Add(Node, confirmed, v.tx).pool ELSE Node)
    /\ UNCHANGED <<confirmed, cache, stem, seen, abroad, heard>>

\* route_stem: on to the next hop, or fluffed by chance or for want of one.
StemValidated(v) ==
    /\ Validated(v) /\ v.from = "stem"
    /\ IF Sound(v) /\ v.tx \notin stem /\ Check(Node, confirmed, v.tx)
       THEN \/ Fluff(v.tx) /\ UNCHANGED stem
            \/ stem' = stem \cup {v.tx} /\ UNCHANGED <<pool, claimed, seen, abroad>>
       ELSE UNCHANGED <<pool, claimed, stem, seen, abroad>>
    /\ UNCHANGED <<confirmed, cache, heard>>

\* submit_validated_local: the first stem hop, or alone straight to the pool.
LocalValidated(v) ==
    /\ Validated(v) /\ v.from = "local"
    /\ IF Sound(v) /\ Check(Node, confirmed, v.tx)
       THEN /\ seen' = MarkSeen(seen, v.tx)
            /\ \/ stem' = stem \cup {v.tx} /\ UNCHANGED <<pool, claimed>>
               \/ Become(Add(Node, confirmed, v.tx).pool) /\ UNCHANGED stem
       ELSE UNCHANGED <<pool, claimed, stem, seen>>
    /\ UNCHANGED <<confirmed, cache, abroad, heard>>

\* flush_stem_pool: what expires together goes out as one if it can.
ReadyUnlessSeen(S) == {T \in S \ Range(seen) : Check(Node, confirmed, T)}
Ready(S) == {T \in S : Check(Node, confirmed, T)}
Embargo(S) ==
    /\ S # {} /\ S \subseteq stem /\ stem' = stem \ S
    /\ IF /\ Cardinality(Ready(S)) > 1 /\ Aggregates(Ready(S))
          /\ Check(Node, confirmed, UNION Ready(S))
       THEN Fluff(UNION Ready(S))
       ELSE \E order \in SetToSeqs(Ready(S)) : FluffEach(order)
    /\ UNCHANGED <<confirmed, cache, validating, heard>>

\* adopt_block.
BlockOn(chain, B) == B \subseteq WellFormed /\ WellBuilt(B) /\ Applies(chain, B)
AdoptBlock(B) ==
    /\ Len(confirmed) < MaxConfirmed /\ BlockOn(confirmed, B)
    /\ confirmed' = Append(confirmed, B)
    /\ Become(OnBlock(Node, confirmed', B))
    /\ cache' = Record(cache, Len(confirmed'), Mined(Node, B))
    /\ stem' = {T \in stem : Applies(confirmed', T)}
    /\ UNCHANGED <<seen, validating, abroad, heard>>

(* adopt_chain: blocks from height first on are replaced, or a session's are
   added.  Every new block is taken off the pool at the final state, and what
   the replaced ones mined is offered back. *)
AfterBlocks(first, blocks, chain) ==
    LET after[n \in 0..Len(blocks)] ==
            IF n = 0 THEN [pool |-> Node,
                           cache |-> Older(cache, CachedFrom(cache, first))]
            ELSE [pool |-> OnBlock(after[n - 1].pool, chain, blocks[n]),
                  cache |-> Record(after[n - 1].cache, first + n - 1,
                                   Mined(after[n - 1].pool, blocks[n]))]
    IN  after[Len(blocks)]

Restorable(first) == UNION {cache[i].txs : i \in CachedFrom(cache, first)}
AdoptChain(first, blocks) ==
    LET chain == SubSeq(confirmed, 1, first - 1) \o blocks
        Keep(after) ==
            /\ cache' = after.cache
            /\ \E order \in SetToSeqs(Restorable(first)) :
                  Enters(AddAll(Revalidated(after.pool, chain), chain, order), Range(order))
    IN  /\ first \in 1..(Len(confirmed) + 1)
        /\ Len(confirmed) <= Len(chain) /\ Len(chain) <= MaxConfirmed
        /\ \A n \in 1..Len(blocks) : BlockOn(SubSeq(chain, 1, first + n - 2), blocks[n])
        /\ confirmed' = chain
        /\ Keep(AfterBlocks(first, blocks, chain))
        /\ UNCHANGED <<stem, seen, validating, heard>>

TxBlocks == SUBSET Parts
PoolNext ==
    \/ \E p \in Parts : SubmitLocal(p)
    \/ \E T \in Txs : HearGossip(T) \/ HearStem(T)
    \/ \E v \in validating : GossipValidated(v) \/ StemValidated(v) \/ LocalValidated(v)
    \/ \E S \in SUBSET stem : Embargo(S)
    \/ \E B \in TxBlocks : AdoptBlock(B)
    \/ \E first \in 1..MaxConfirmed : \E B, C \in TxBlocks :
          \E blocks \in {<<B>>, <<B, C>>} : AdoptChain(first, blocks)

\* Every embargo runs out.
Flushes(T) == \E S \in SUBSET stem : T \in S /\ Embargo(S)
PoolFairness == \A p \in Parts : WF_txVars(Flushes({p}))

PoolSpec == PoolInit /\ [][PoolNext]_txVars /\ PoolFairness
------------------------------------------------------------------------------
\* A template may take any of the pool: every transaction of it applies on the
\* tip, and no two of them stand in each other's way (check, revalidate).
PoolApplies == Aggregates(pool) /\ \A T \in pool : Applies(confirmed, T)

\* The maps kept beside the entries hold what the entries claim, whatever was
\* added, evicted, mined and restored (insert, remove).
PoolIndexed ==
    claimed = [spends |-> Ins(UNION pool), creates |-> Outs(UNION pool),
               kernels |-> UNION pool]

\* The pool can be mined from, and what stands in a new transaction's way is
\* looked up where all of it is (check, insert, remove, revalidate).
PoolSound == PoolApplies /\ PoolIndexed

\* What a reorganisation would give back was mined by the block at the height
\* it is cached under, of the chain as it is now (ReorgCache).
CacheOnChain ==
    \A i \in 1..Len(cache) :
        /\ cache[i].height <= Len(confirmed)
        /\ \A T \in cache[i].txs : T \subseteq confirmed[cache[i].height]

\* After a reorganisation what the replaced blocks had mined is back in the
\* pool, unless the new chain stands against it, or something no worse, or
\* claiming the same, that was in the pool or came back with it.
ReplacedAt(i) == i <= Len(confirmed) /\ confirmed'[i] # confirmed[i]
Cached == UNION {cache[i].txs : i \in 1..Len(cache)}
InTheWay(U, T) ==
    \/ ~Better(T, U)
    \/ Ins(T) \cap (Ins(U) \cup Outs(U)) # {} \/ Outs(T) \cap Outs(U) # {}
    \/ T \cap U # {}
GivesBack ==
    \A i \in 1..Len(cache) : ReplacedAt(cache[i].height) =>
        \A T \in cache[i].txs :
            \/ T \in pool' \/ ~Applies(confirmed', T)
            \/ \E U \in (pool \cup Cached) \ {T} :
                  Applies(confirmed', U) /\ InTheWay(U, T)
\* No step of the node forgets what a reorganisation should give back
\* (adopt_chain, take_from, add).
ReorgReturns == [][GivesBack]_txVars

\* A transaction in its stem phase is broadcast or confirmed, though no other
\* hop lets it through, unless something stands against it by then.
Stands(T) == Add(Node, confirmed, T).ok
Spread(T) == T \subseteq abroad \cup UNION pool \cup Kernels(confirmed)
StemSpreads == \A p \in Parts : ({p} \in stem) ~> (Spread({p}) \/ ~Stands({p}))
=============================================================================
