---------------------------- MODULE TxPoolProofs ----------------------------
(***************************************************************************)
(* The transaction pool.  Its invariant, PoolHolds, says of a pool and a   *)
(* chain what PoolSound says of the node's: every operation on the pool is *)
(* shown to keep it, whatever the chain, and the handlers follow.  What a  *)
(* reorganisation gives back is followed through the additions one by one. *)
(***************************************************************************)
EXTENDS TxPool, FiniteFacts, SequenceTheorems

\* What a pool's entries claim, and that its maps say so.
ClaimsOf(S) == [spends |-> Ins(UNION S), creates |-> Outs(UNION S), kernels |-> UNION S]
Indexed(m) == m = Holding(m.entries, ClaimsOf(m.entries))
\* A pool whose entries are sound by themselves and do not clash.
Apart(m) == /\ m.entries \subseteq Txs /\ Aggregates(m.entries) /\ Indexed(m)
            /\ \A T \in m.entries : Structured(T)
PoolHolds(m, chain) == Apart(m) /\ \A T \in m.entries : Applies(chain, T)

LEMMA Claims ==
  ASSUME NEW S
  PROVE  /\ ClaimsOf(S).spends = Ins(UNION S) /\ ClaimsOf(S).creates = Outs(UNION S)
         /\ ClaimsOf(S).kernels = UNION S
BY DEF ClaimsOf

\* What transactions spend and make is what each of them does.
LEMMA Together ==
  ASSUME NEW S
  PROVE  /\ \A x : x \in Ins(UNION S) <=> \E T \in S : x \in Ins(T)
         /\ \A x : x \in Outs(UNION S) <=> \E T \in S : x \in Outs(T)
BY DEF Ins, Outs

\* What a transaction of its own parts is.
LEMMA Built ==
  ASSUME NEW T
  PROVE  WellBuilt(T) => Ins(T) \cap Outs(T) = {}
<1>1. UNION {{p} : p \in T} = T
  OBVIOUS
<1> QED BY <1>1 DEF WellBuilt, Aggregates

\* Fewer transactions still do not clash.
LEMMA FewerAggregate ==
  ASSUME NEW S, NEW R, R \subseteq S, Aggregates(S)
  PROVE  Aggregates(R)
<1>1. Ins(UNION R) \subseteq Ins(UNION S) /\ Outs(UNION R) \subseteq Outs(UNION S)
  BY DEF Ins, Outs
<1> QED BY <1>1 DEF Aggregates

\* Taking entries out leaves the maps right, because no two entries claim the same (remove).
LEMMA DropKeeps ==
  ASSUME NEW m, NEW S, Apart(m), S \subseteq m.entries
  PROVE  Apart(Dropping(m, S)) /\ Dropping(m, S).entries = m.entries \ S
<1> DEFINE E == m.entries
<1>1. Dropping(m, S) = Holding(E \ S, Releasing(m.claims, S)) /\ Dropping(m, S).entries = E \ S
  BY DEF Dropping, Holding
<1>2. m.claims = ClaimsOf(E)
  BY DEF Apart, Indexed, Holding
<1>3. Aggregates(E) /\ Aggregates(E \ S)
  BY FewerAggregate DEF Apart
<1> HIDE DEF E
<1>4. \A T \in E \ S, U \in S : Ins(T) \cap Ins(U) = {} /\ Outs(T) \cap Outs(U) = {} /\ T \cap U = {}
  BY <1>3 DEF Aggregates, E
<1>5. Ins(UNION (E \ S)) = Ins(UNION E) \ Ins(UNION S)
  <2>1. ASSUME NEW x PROVE x \in Ins(UNION (E \ S)) <=> x \in Ins(UNION E) /\ x \notin Ins(UNION S)
    <3>1. x \in Ins(UNION (E \ S)) <=> \E T \in E \ S : x \in Ins(T)
      BY Together
    <3>2. x \in Ins(UNION E) <=> \E T \in E : x \in Ins(T)
      BY Together
    <3>3. x \in Ins(UNION S) <=> \E T \in S : x \in Ins(T)
      BY Together
    <3> QED BY <3>1, <3>2, <3>3, <1>4 DEF E
  <2> QED BY <2>1
<1>6. Outs(UNION (E \ S)) = Outs(UNION E) \ Outs(UNION S)
  <2>1. ASSUME NEW x PROVE x \in Outs(UNION (E \ S)) <=> x \in Outs(UNION E) /\ x \notin Outs(UNION S)
    <3>1. x \in Outs(UNION (E \ S)) <=> \E T \in E \ S : x \in Outs(T)
      BY Together
    <3>2. x \in Outs(UNION E) <=> \E T \in E : x \in Outs(T)
      BY Together
    <3>3. x \in Outs(UNION S) <=> \E T \in S : x \in Outs(T)
      BY Together
    <3> QED BY <3>1, <3>2, <3>3, <1>4 DEF E
  <2> QED BY <2>1
<1>7. UNION (E \ S) = (UNION E) \ (UNION S)
  BY <1>4 DEF E
<1>8. Releasing(m.claims, S) = ClaimsOf(E \ S)
  BY <1>2, <1>5, <1>6, <1>7, Claims DEF Releasing, ClaimsOf
<1> QED BY <1>1, <1>3, <1>8 DEF Apart, Indexed, E

\* A transaction that checks clashes with no entry (check, insert).
LEMMA EnterKeeps ==
  ASSUME NEW m, NEW chain, NEW T \in Txs,
         PoolHolds(m, chain), Structured(T), Free(m, T), Applies(chain, T)
  PROVE  PoolHolds(Enter(m, T), chain) /\ Enter(m, T).entries = m.entries \cup {T}
<1> DEFINE E == m.entries
<1>1. Enter(m, T) = Holding(E \cup {T}, Claiming(m.claims, T)) /\ Enter(m, T).entries = E \cup {T}
  BY DEF Enter, Holding
<1>2. m.claims = ClaimsOf(E) /\ Aggregates(E) /\ E \subseteq Txs
  BY DEF PoolHolds, Apart, Indexed, Holding
<1>3. \A U \in E : Applies(chain, U) /\ Structured(U)
  BY DEF PoolHolds, Apart
<1> HIDE DEF E
<1>4. /\ Ins(UNION (E \cup {T})) = Ins(UNION E) \cup Ins(T)
      /\ Outs(UNION (E \cup {T})) = Outs(UNION E) \cup Outs(T)
      /\ UNION (E \cup {T}) = (UNION E) \cup T
  BY DEF Ins, Outs
<1>5. Claiming(m.claims, T) = ClaimsOf(E \cup {T})
  BY <1>2, <1>4, Claims DEF Claiming, ClaimsOf
<1>6. /\ Ins(T) \cap Ins(UNION E) = {} /\ Ins(T) \cap Outs(UNION E) = {}
      /\ Outs(T) \cap Outs(UNION E) = {} /\ T \cap UNION E = {}
  <2>1. /\ m.claims.spends = Ins(UNION E) /\ m.claims.creates = Outs(UNION E)
        /\ m.claims.kernels = UNION E
    BY <1>2, Claims
  <2> QED BY <2>1 DEF Free
<1>7. Ins(UNION E) \subseteq Coins(chain)
  <2>1. \A U \in E : Ins(U) \subseteq Coins(chain)
    BY <1>3 DEF Applies
  <2>2. \A x : x \in Ins(UNION E) => \E U \in E : x \in Ins(U)
    BY Together
  <2> QED BY <2>1, <2>2
<1>8. Outs(T) \cap Ins(UNION E) = {}
  BY <1>7, <1>6 DEF Applies
<1>9. Ins(T) \cap Outs(T) = {}
  BY Built DEF Structured
<1>10. \A U \in E : Ins(U) \subseteq Ins(UNION E) /\ Outs(U) \subseteq Outs(UNION E) /\ U \subseteq UNION E
  BY DEF Ins, Outs
<1>11. \A U, V \in E : U # V => Ins(U) \cap Ins(V) = {} /\ Outs(U) \cap Outs(V) = {} /\ U \cap V = {}
  BY <1>2 DEF Aggregates
<1>12. \A U \in E : Ins(U) \cap Ins(T) = {} /\ Outs(U) \cap Outs(T) = {} /\ U \cap T = {}
  BY <1>6, <1>10
<1>13. Ins(UNION E) \cap Outs(UNION E) = {}
  BY <1>2 DEF Aggregates
<1>14. Aggregates(E \cup {T})
  <2>1. \A U, V \in E \cup {T} : U # V =>
           Ins(U) \cap Ins(V) = {} /\ Outs(U) \cap Outs(V) = {} /\ U \cap V = {}
    BY <1>11, <1>12
  <2>2. Ins(UNION (E \cup {T})) \cap Outs(UNION (E \cup {T})) = {}
    BY <1>4, <1>6, <1>8, <1>9, <1>13
  <2> QED BY <2>1, <2>2 DEF Aggregates
<1>15. \A U \in E \cup {T} : Applies(chain, U) /\ Structured(U)
  BY <1>3
<1>16. Enter(m, T).entries = E \cup {T} /\ Enter(m, T) = Holding(E \cup {T}, ClaimsOf(E \cup {T}))
  BY <1>1, <1>5
<1>17. Indexed(Enter(m, T))
  BY <1>16 DEF Indexed
<1> HIDE DEF PoolHolds
<1>18. Apart(Enter(m, T))
  BY <1>16, <1>17, <1>14, <1>15, <1>2 DEF Apart
<1>19. PoolHolds(Enter(m, T), chain)
  BY <1>15, <1>16, <1>18 DEF PoolHolds
<1> QED BY <1>16, <1>19 DEF E
------------------------------------------------------------------------------
\* A pool's entries are finitely many, and so are their subsets.
LEMMA Finite ==
  ASSUME TxPoolAssumption, NEW S, S \subseteq Txs
  PROVE  IsFiniteSet(S) /\ Cardinality(S) \in Nat
<1>1. IsFiniteSet(SUBSET Parts)
  BY FS_SUBSET DEF TxPoolAssumption
<1>2. S \in SUBSET (SUBSET Parts)
  BY DEF Txs
<1> QED BY <1>1, <1>2, FS_Subset, FS_CardinalityType

\* Of the evictions that make room, one evicts fewest.
LEMMA FewestEvicted ==
  ASSUME TxPoolAssumption, NEW E, E \subseteq Txs, NEW enough, enough \subseteq SUBSET E, enough # {}
  PROVE  \E R \in enough : \A Q \in enough : Cardinality(R) <= Cardinality(Q)
<1> DEFINE sizes == {Cardinality(R) : R \in enough}
<1>1. sizes \subseteq Nat /\ sizes # {}
  BY Finite
<1>2. PICK n \in sizes : \A k \in sizes : n <= k
  <2> HIDE DEF sizes
  <2> QED BY <1>1, LeastExists
<1> QED BY <1>2

Worse(m, T) == {U \in m.entries : Better(T, U)}
RoomFor(m, T) == {R \in Cheapest(m, T) : MakesRoom(m, T, R)}

\* add refuses, or evicts worse ones and inserts, or evicts every worse one in vain.
LEMMA AddCases ==
  ASSUME TxPoolAssumption, NEW m, m.entries \subseteq Txs, NEW chain, NEW T
  PROVE  \/ ~Check(m, chain, T) /\ Add(m, chain, T) = [ok |-> FALSE, pool |-> m]
         \/ /\ Check(m, chain, T)
            /\ \E R \in SUBSET Worse(m, T) :
                  Add(m, chain, T) = [ok |-> TRUE, pool |-> Enter(Dropping(m, R), T)]
         \/ /\ Check(m, chain, T) /\ RoomFor(m, T) = {}
            /\ Add(m, chain, T) = [ok |-> FALSE, pool |-> Dropping(m, Worse(m, T))]
<1> DEFINE enough == RoomFor(m, T)
           least == CHOOSE R \in enough : \A Q \in enough : Cardinality(R) <= Cardinality(Q)
<1>1. CASE ~Check(m, chain, T)
  BY <1>1 DEF Add
<1>2. CASE Check(m, chain, T) /\ enough # {}
  <2>1. enough \subseteq SUBSET Worse(m, T) /\ Worse(m, T) \subseteq m.entries
    BY DEF RoomFor, Cheapest, Worse
  <2>2. enough \subseteq SUBSET m.entries
    BY <2>1
  <2>3. least \in enough
    <3> HIDE DEF enough
    <3> QED BY <1>2, <2>2, FewestEvicted
  <2>4. Add(m, chain, T) = [ok |-> TRUE, pool |-> Enter(Dropping(m, least), T)]
    BY <1>2 DEF Add, RoomFor
  <2> HIDE DEF least
  <2> QED BY <1>2, <2>1, <2>3, <2>4
<1>3. CASE Check(m, chain, T) /\ enough = {}
  BY <1>3 DEF Add, RoomFor, Worse
<1> QED BY <1>1, <1>2, <1>3

\* The same, said of the pool that is left.
LEMMA AddKeeps ==
  ASSUME TxPoolAssumption, NEW m, NEW chain, PoolHolds(m, chain), NEW T \in Txs
  PROVE  LET n == Add(m, chain, T).pool
         IN  /\ PoolHolds(n, chain)
             /\ n.entries \subseteq m.entries \cup {T}
             /\ m.entries \ n.entries \subseteq Worse(m, T)
             /\ m.entries \ n.entries # {} => Applies(chain, T)
             /\ Add(m, chain, T).ok => T \in n.entries
<1>0. Apart(m) /\ m.entries \subseteq Txs
  BY DEF PoolHolds, Apart
<1>1. CASE Add(m, chain, T) = [ok |-> FALSE, pool |-> m]
  BY <1>1
<1>2. ASSUME NEW R \in SUBSET Worse(m, T)
      PROVE  PoolHolds(Dropping(m, R), chain) /\ Dropping(m, R).entries = m.entries \ R
  <2>1. R \subseteq m.entries
    BY DEF Worse
  <2>2. Apart(Dropping(m, R)) /\ Dropping(m, R).entries = m.entries \ R
    BY <1>0, <2>1, DropKeeps
  <2> QED BY <2>2 DEF PoolHolds
<1>3. CASE Check(m, chain, T) /\ Add(m, chain, T) = [ok |-> FALSE, pool |-> Dropping(m, Worse(m, T))]
  <2>1. Worse(m, T) \in SUBSET Worse(m, T) /\ Worse(m, T) \subseteq m.entries
    BY DEF Worse
  <2>2. PoolHolds(Dropping(m, Worse(m, T)), chain)
        /\ Dropping(m, Worse(m, T)).entries = m.entries \ Worse(m, T)
    BY <2>1, <1>2
  <2> QED BY <1>3, <2>1, <2>2 DEF Check
<1>4. ASSUME Check(m, chain, T), NEW R \in SUBSET Worse(m, T),
             Add(m, chain, T) = [ok |-> TRUE, pool |-> Enter(Dropping(m, R), T)]
      PROVE  /\ PoolHolds(Enter(Dropping(m, R), T), chain)
             /\ Enter(Dropping(m, R), T).entries = (m.entries \ R) \cup {T}
  <2>1. PoolHolds(Dropping(m, R), chain) /\ Dropping(m, R).entries = m.entries \ R
    BY <1>2
  <2>2. Structured(T) /\ Free(m, T) /\ Applies(chain, T)
    BY <1>4 DEF Check
  <2>3. /\ Dropping(m, R).claims.spends \subseteq m.claims.spends
        /\ Dropping(m, R).claims.creates \subseteq m.claims.creates
        /\ Dropping(m, R).claims.kernels \subseteq m.claims.kernels
    BY DEF Dropping, Holding, Releasing
  <2>4. Free(Dropping(m, R), T)
    <3> HIDE DEF Dropping
    <3> QED BY <2>2, <2>3 DEF Free
  <2>5. PICK n : n = Dropping(m, R)
    OBVIOUS
  <2> QED BY <2>1, <2>2, <2>4, <2>5, EnterKeeps
<1>5. CASE \E R \in SUBSET Worse(m, T) :
              Check(m, chain, T) /\ Add(m, chain, T) = [ok |-> TRUE, pool |-> Enter(Dropping(m, R), T)]
  <2>1. PICK R \in SUBSET Worse(m, T) :
           Check(m, chain, T) /\ Add(m, chain, T) = [ok |-> TRUE, pool |-> Enter(Dropping(m, R), T)]
    BY <1>5
  <2>2. /\ PoolHolds(Enter(Dropping(m, R), T), chain)
        /\ Enter(Dropping(m, R), T).entries = (m.entries \ R) \cup {T}
    BY <2>1, <1>4
  <2> QED BY <2>1, <2>2 DEF Check
<1> QED BY <1>0, <1>1, <1>3, <1>5, AddCases

Adding(m, chain, order) ==
    CHOOSE after : after =
        [n \in 0..Len(order) |->
            IF n = 0 THEN m ELSE Add(after[n - 1], chain, order[n]).pool]

\* What AddAll does is add one after another.
LEMMA AddAllSteps ==
  ASSUME NEW m, NEW chain, NEW order, Len(order) \in Nat
  PROVE  \E f : /\ f[0] = m /\ AddAll(m, chain, order) = f[Len(order)]
                /\ \A n \in 1..Len(order) : f[n] = Add(f[n - 1], chain, order[n]).pool
<1> DEFINE Then(r, n) == Add(r, chain, order[n]).pool
           P(k) == \E g : g = [n \in 0..k |-> IF n = 0 THEN m ELSE Then(g[n - 1], n)]
<1>1. P(0)
  <2> HIDE DEF Then
  <2>1. [n \in 0..0 |-> m] = [n \in 0..0 |-> IF n = 0 THEN m ELSE Then([i \in 0..0 |-> m][n - 1], n)]
    OBVIOUS
  <2> QED BY <2>1
<1>2. ASSUME NEW k \in Nat, P(k) PROVE P(k + 1)
  <2> HIDE DEF Then
  <2>1. PICK g : g = [n \in 0..k |-> IF n = 0 THEN m ELSE Then(g[n - 1], n)]
    BY <1>2
  <2>2. PICK h : h = [n \in 0..(k + 1) |-> IF n = k + 1 THEN Then(g[k], n) ELSE g[n]]
    OBVIOUS
  <2>3. ASSUME NEW n \in 0..(k + 1)
        PROVE  h[n] = IF n = 0 THEN m ELSE Then(h[n - 1], n)
    <3>1. CASE n = k + 1
      BY <3>1, <2>2
    <3>2. CASE n # k + 1
      <4>1. n \in 0..k /\ h[n] = g[n]
        BY <3>2, <2>2
      <4>2. n # 0 => n - 1 \in 0..(k + 1) /\ n - 1 # k + 1
        BY <4>1
      <4> QED BY <4>1, <4>2, <2>1, <2>2
    <3> QED BY <3>1, <3>2
  <2>4. h = [n \in 0..(k + 1) |-> IF n = 0 THEN m ELSE Then(h[n - 1], n)]
    BY <2>2, <2>3
  <2> QED BY <2>4
<1>3. \A k \in Nat : P(k)
  <2>1. PICK S : S = {k \in Nat : P(k)}
    OBVIOUS
  <2> HIDE DEF P
  <2>2. 0 \in S /\ \A n \in Nat : n \in S => n + 1 \in S
    BY <1>1, <1>2, <2>1
  <2>3. Nat \subseteq S
    BY <2>2, SetInd
  <2> QED BY <2>1, <2>3
<1>4. Adding(m, chain, order) =
         [n \in 0..Len(order) |-> IF n = 0 THEN m ELSE Then(Adding(m, chain, order)[n - 1], n)]
  BY <1>3 DEF Adding
<1>5. AddAll(m, chain, order) = Adding(m, chain, order)[Len(order)]
  BY DEF AddAll, Adding
<1>6. PICK f : f = Adding(m, chain, order)
  OBVIOUS
<1>7. f = [n \in 0..Len(order) |-> IF n = 0 THEN m ELSE Then(f[n - 1], n)]
  BY <1>4, <1>6
<1> HIDE DEF Then
<1>8. f[0] = m /\ \A n \in 1..Len(order) : f[n] = Then(f[n - 1], n)
  BY <1>7
<1> QED BY <1>5, <1>6, <1>8 DEF Then

\* Added one after another, what was sound stays so.
LEMMA AddAllKeeps ==
  ASSUME TxPoolAssumption, NEW m, NEW chain, PoolHolds(m, chain), NEW order \in Seq(Txs)
  PROVE  PoolHolds(AddAll(m, chain, order), chain)
<1>0. PICK N \in Nat : N = Len(order)
  OBVIOUS
<1>1. PICK f : /\ f[0] = m /\ AddAll(m, chain, order) = f[N]
               /\ \A n \in 1..N : f[n] = Add(f[n - 1], chain, order[n]).pool
  BY <1>0, AddAllSteps
<1> DEFINE S == {n \in Nat : n <= N => PoolHolds(f[n], chain)}
<1>2. 0 \in S
  BY <1>1
<1>3. ASSUME NEW n \in Nat, n \in S PROVE n + 1 \in S
  <2>1. SUFFICES ASSUME n + 1 <= N PROVE PoolHolds(f[n + 1], chain)
    OBVIOUS
  <2>2. n + 1 \in 1..N /\ PoolHolds(f[n], chain)
    BY <1>3, <2>1
  <2>3. f[n + 1] = Add(f[n], chain, order[n + 1]).pool
    BY <1>1, <2>2
  <2>4. order[n + 1] \in Txs
    BY <2>2, <1>0
  <2> QED BY <2>2, <2>3, <2>4, AddKeeps
<1>4. Nat \subseteq S
  <2> HIDE DEF S
  <2> QED BY <1>2, <1>3, SetInd
<1> QED BY <1>1, <1>4

------------------------------------------------------------------------------
\* Revalidating leaves what applies (revalidate).
LEMMA RevalidatedHolds ==
  ASSUME NEW m, NEW chain, Apart(m)
  PROVE  /\ PoolHolds(Revalidated(m, chain), chain)
         /\ Revalidated(m, chain).entries \subseteq m.entries
<1> DEFINE S == {T \in m.entries : ~Applies(chain, T)}
<1>1. Apart(Dropping(m, S)) /\ Dropping(m, S).entries = m.entries \ S
  BY DropKeeps
<1> QED BY <1>1 DEF Revalidated, PoolHolds

\* A block leaves what applies once it is on the chain (on_block).
LEMMA OnBlockHolds ==
  ASSUME NEW m, NEW chain, NEW B, Apart(m)
  PROVE  /\ PoolHolds(OnBlock(m, chain, B), chain)
         /\ OnBlock(m, chain, B).entries \subseteq m.entries
<1> DEFINE S == Mined(m, B) \cup Doomed(m, B)
<1>1. S \subseteq m.entries
  BY DEF Mined, Doomed
<1>2. Apart(Dropping(m, S)) /\ Dropping(m, S).entries = m.entries \ S
  BY <1>1, DropKeeps
<1> HIDE DEF S
<1>3. /\ PoolHolds(Revalidated(Dropping(m, S), chain), chain)
      /\ Revalidated(Dropping(m, S), chain).entries \subseteq m.entries
  BY <1>2, RevalidatedHolds
<1> QED BY <1>3 DEF OnBlock, S
------------------------------------------------------------------------------
\* The cache against a chain, up to a height: every transaction was mined at
\* the height it is cached under, heights ascend.
Entries == [height : Nat, txs : SUBSET Txs]
MinedAt(entry, chain, top) ==
    /\ entry.height \in 1..top
    /\ \A T \in entry.txs : T \subseteq chain[entry.height] /\ Structured(T)
CacheUpTo(c, chain, top) ==
    /\ c \in Seq(Entries)
    /\ \A i \in 1..Len(c) : MinedAt(c[i], chain, top)
    /\ \A i, j \in 1..Len(c) : i < j => c[i].height < c[j].height

\* A block's transactions go to the back, the oldest off the front (record).
LEMMA RecordKeeps ==
  ASSUME TxPoolAssumption, NEW chain, NEW top \in Nat, NEW c, CacheUpTo(c, chain, top),
         NEW txs \in SUBSET Txs, \A T \in txs : T \subseteq chain[top + 1] /\ Structured(T)
  PROVE  CacheUpTo(Record(c, top + 1, txs), chain, top + 1)
<1>1. PICK N \in Nat : N = Len(c)
  BY DEF CacheUpTo
<1>2. PICK e \in Entries : e = [height |-> top + 1, txs |-> txs]
  <2>1. [height |-> top + 1, txs |-> txs] \in Entries
    BY DEF Entries
  <2> QED BY <2>1
<1>3. PICK grown : grown = Append(c, e)
  OBVIOUS
<1>4. /\ grown \in Seq(Entries) /\ Len(grown) = N + 1 /\ grown[N + 1] = e
      /\ \A i \in 1..N : grown[i] = c[i]
  BY <1>1, <1>2, <1>3 DEF CacheUpTo
<1>5. MinedAt(e, chain, top + 1)
  BY <1>2 DEF MinedAt
<1>6. ASSUME NEW i \in 1..N PROVE MinedAt(c[i], chain, top + 1) /\ c[i].height \in Nat /\ c[i].height <= top
  BY <1>1, <1>6 DEF CacheUpTo, MinedAt
<1>7. \A i \in 1..(N + 1) : MinedAt(grown[i], chain, top + 1)
  BY <1>4, <1>5, <1>6
<1>8. \A i, j \in 1..(N + 1) : i < j => grown[i].height < grown[j].height
  <2>1. TAKE i, j \in 1..(N + 1)
  <2>2. CASE j \in 1..N
    BY <2>2, <1>1, <1>4 DEF CacheUpTo
  <2>3. CASE j = N + 1 /\ i < j
    <3>1. i \in 1..N /\ grown[j].height = top + 1
      BY <2>3, <1>2, <1>4
    <3> QED BY <3>1, <1>4, <1>6
  <2> QED BY <2>2, <2>3
<1>9. PICK a \in 1..(N + 1) : a = AtLeast1((N + 1) - CacheBlocks + 1)
  <2>1. CacheBlocks \in Nat \ {0}
    BY DEF TxPoolAssumption
  <2>2. AtLeast1((N + 1) - CacheBlocks + 1) \in 1..(N + 1)
    BY <2>1 DEF AtLeast1
  <2> QED BY <2>2
<1>10. PICK r : r = SubSeq(grown, a, N + 1)
  OBVIOUS
<1>11. /\ r \in Seq(Entries) /\ Len(r) = N + 2 - a
       /\ \A i \in 1..Len(r) : r[i] = grown[a + i - 1] /\ a + i - 1 \in 1..(N + 1)
  BY <1>4, <1>9, <1>10
<1>12. CacheUpTo(r, chain, top + 1)
  <2>1. \A i \in 1..Len(r) : MinedAt(r[i], chain, top + 1)
    BY <1>7, <1>11
  <2>2. \A i, j \in 1..Len(r) : i < j => r[i].height < r[j].height
    <3>1. TAKE i, j \in 1..Len(r)
    <3>2. a + i - 1 \in 1..(N + 1) /\ a + j - 1 \in 1..(N + 1) /\ (i < j => a + i - 1 < a + j - 1)
      BY <1>11
    <3> QED BY <3>2, <1>8, <1>11
  <2> QED BY <1>11, <2>1, <2>2 DEF CacheUpTo
<1>13. CacheUpTo(c, chain, top + 1)
  BY <1>1, <1>6 DEF CacheUpTo
<1>14. CASE txs = {}
  BY <1>14, <1>13 DEF Record
<1>15. CASE txs # {}
  <2>1. Record(c, top + 1, txs) = r
    BY <1>15, <1>2, <1>3, <1>4, <1>9, <1>10 DEF Record
  <2> QED BY <2>1, <1>12
<1> QED BY <1>14, <1>15

\* Blocks popped off the back leave those below the fork (take_from).
LEMMA OlderKeeps ==
  ASSUME NEW before, NEW top \in Nat, NEW c, CacheUpTo(c, before, top),
         NEW chain, NEW first \in Nat \ {0}, \A h \in 1..(first - 1) : h <= top => chain[h] = before[h]
  PROVE  CacheUpTo(Older(c, CachedFrom(c, first)), chain, first - 1)
<1> DEFINE gone == CachedFrom(c, first)
<1>1. PICK N \in Nat : N = Len(c)
  BY DEF CacheUpTo
<1>2. \A i \in 1..N : c[i].height \in Nat
  BY <1>1 DEF CacheUpTo, MinedAt
<1>3. \E k \in 0..N : (\A i \in 1..k : c[i].height < first) /\ gone = (k + 1)..N
  <2>1. CASE gone = {}
    <3>1. \A i \in 1..N : c[i].height < first
      BY <2>1, <1>1, <1>2 DEF CachedFrom
    <3>2. N \in 0..N /\ gone = (N + 1)..N
      BY <2>1
    <3> HIDE DEF gone
    <3> QED BY <3>1, <3>2
  <2>2. CASE gone # {}
    <3>1. gone \subseteq Nat /\ gone \subseteq 1..N
      BY <1>1 DEF CachedFrom
    <3>2. PICK l \in gone : \A i \in gone : l <= i
      <4> HIDE DEF gone
      <4> QED BY <2>2, <3>1, LeastExists
    <3>3. l \in 1..N /\ c[l].height >= first
      BY <3>1, <1>1 DEF CachedFrom
    <3>4. ASSUME NEW i \in 1..N PROVE i \in gone <=> l <= i
      <4>1. i \in gone <=> c[i].height >= first
        BY <1>1 DEF CachedFrom
      <4>2. l < i => c[l].height < c[i].height
        BY <3>3, <1>1 DEF CacheUpTo
      <4> QED BY <4>1, <4>2, <3>2, <3>3, <1>2
    <3>5. gone = l..N
      <4>1. \A i \in gone : i \in 1..N /\ i \in l..N
        BY <3>1, <3>3, <3>4
      <4>2. \A i \in l..N : i \in 1..N /\ i \in gone
        BY <3>3, <3>4
      <4> HIDE DEF gone
      <4> QED BY <4>1, <4>2
    <3>6. \A i \in 1..(l - 1) : i \in 1..N /\ ~(l <= i)
      BY <3>3
    <3>7. \A i \in 1..(l - 1) : c[i].height < first
      <4>1. TAKE i \in 1..(l - 1)
      <4>2. i \in 1..N /\ i \notin gone
        BY <3>4, <3>6
      <4> QED BY <4>2, <1>1, <1>2 DEF CachedFrom
    <3>8. l - 1 \in 0..N /\ (l - 1) + 1 = l
      BY <3>3
    <3> HIDE DEF gone
    <3> QED BY <3>5, <3>7, <3>8
  <2> QED BY <2>1, <2>2
<1>4. PICK k \in 0..N : (\A i \in 1..k : c[i].height < first) /\ gone = (k + 1)..N
  BY <1>3
<1>5. N - Cardinality(gone) = k
  <2>1. Cardinality((k + 1)..N) = N - k
    <3>1. k + 1 \in Int /\ N \in Int
      BY <1>4
    <3>2. Cardinality((k + 1)..N) = IF k + 1 > N THEN 0 ELSE N - (k + 1) + 1
      BY <3>1, FS_Interval
    <3> QED BY <3>2, <1>4
  <2> HIDE DEF gone
  <2> QED BY <2>1, <1>4
<1>6. PICK r : r = SubSeq(c, 1, k)
  OBVIOUS
<1>7. r \in Seq(Entries) /\ Len(r) = k /\ \A i \in 1..k : r[i] = c[i] /\ i \in 1..N
  BY <1>1, <1>4, <1>6 DEF CacheUpTo
<1>8. ASSUME NEW i \in 1..k PROVE MinedAt(c[i], chain, first - 1)
  <2>1. i \in 1..N
    BY <1>4
  <2>2. MinedAt(c[i], before, top) /\ c[i].height < first
    BY <2>1, <1>1, <1>4 DEF CacheUpTo
  <2> QED BY <2>2 DEF MinedAt
<1>9. CacheUpTo(r, chain, first - 1)
  <2>1. \A i, j \in 1..k : i < j => c[i].height < c[j].height
    BY <1>1, <1>4 DEF CacheUpTo
  <2> QED BY <1>7, <1>8, <2>1 DEF CacheUpTo
<1> QED BY <1>1, <1>5, <1>6, <1>9 DEF Older

After(first, blocks, chain) ==
    CHOOSE after : after =
        [n \in 0..Len(blocks) |->
            IF n = 0 THEN [pool |-> Node, cache |-> Older(cache, CachedFrom(cache, first))]
            ELSE [pool |-> OnBlock(after[n - 1].pool, chain, blocks[n]),
                  cache |-> Record(after[n - 1].cache, first + n - 1,
                                   Mined(after[n - 1].pool, blocks[n]))]]

\* The blocks are taken one after another.
LEMMA AfterSteps ==
  ASSUME NEW first, NEW blocks, NEW chain, Len(blocks) \in Nat
  PROVE  \E f : /\ f[0] = [pool |-> Node, cache |-> Older(cache, CachedFrom(cache, first))]
                /\ AfterBlocks(first, blocks, chain) = f[Len(blocks)]
                /\ \A n \in 1..Len(blocks) :
                      f[n] = [pool |-> OnBlock(f[n - 1].pool, chain, blocks[n]),
                              cache |-> Record(f[n - 1].cache, first + n - 1,
                                               Mined(f[n - 1].pool, blocks[n]))]
<1> DEFINE Start == [pool |-> Node, cache |-> Older(cache, CachedFrom(cache, first))]
           Then(r, n) == [pool |-> OnBlock(r.pool, chain, blocks[n]),
                          cache |-> Record(r.cache, first + n - 1, Mined(r.pool, blocks[n]))]
           P(k) == \E g : g = [n \in 0..k |-> IF n = 0 THEN Start ELSE Then(g[n - 1], n)]
<1>1. P(0)
  <2> HIDE DEF Then, Start
  <2>1. [n \in 0..0 |-> Start] = [n \in 0..0 |-> IF n = 0 THEN Start ELSE Then([i \in 0..0 |-> Start][n - 1], n)]
    OBVIOUS
  <2> QED BY <2>1
<1>2. ASSUME NEW k \in Nat, P(k) PROVE P(k + 1)
  <2> HIDE DEF Then, Start
  <2>1. PICK g : g = [n \in 0..k |-> IF n = 0 THEN Start ELSE Then(g[n - 1], n)]
    BY <1>2
  <2>2. PICK h : h = [n \in 0..(k + 1) |-> IF n = k + 1 THEN Then(g[k], n) ELSE g[n]]
    OBVIOUS
  <2>3. ASSUME NEW n \in 0..(k + 1)
        PROVE  h[n] = IF n = 0 THEN Start ELSE Then(h[n - 1], n)
    <3>1. CASE n = k + 1
      BY <3>1, <2>2
    <3>2. CASE n # k + 1
      <4>1. n \in 0..k /\ h[n] = g[n]
        BY <3>2, <2>2
      <4>2. n # 0 => n - 1 \in 0..(k + 1) /\ n - 1 # k + 1
        BY <4>1
      <4> QED BY <4>1, <4>2, <2>1, <2>2
    <3> QED BY <3>1, <3>2
  <2>4. h = [n \in 0..(k + 1) |-> IF n = 0 THEN Start ELSE Then(h[n - 1], n)]
    BY <2>2, <2>3
  <2> QED BY <2>4
<1>3. \A k \in Nat : P(k)
  <2>1. PICK S : S = {k \in Nat : P(k)}
    OBVIOUS
  <2> HIDE DEF P
  <2>2. 0 \in S /\ \A n \in Nat : n \in S => n + 1 \in S
    BY <1>1, <1>2, <2>1
  <2>3. Nat \subseteq S
    BY <2>2, SetInd
  <2> QED BY <2>1, <2>3
<1>4. After(first, blocks, chain) =
         [n \in 0..Len(blocks) |-> IF n = 0 THEN Start ELSE Then(After(first, blocks, chain)[n - 1], n)]
  BY <1>3 DEF After
<1>5. AfterBlocks(first, blocks, chain) = After(first, blocks, chain)[Len(blocks)]
  BY DEF AfterBlocks, After
<1>6. PICK f : f = After(first, blocks, chain)
  OBVIOUS
<1>7. f = [n \in 0..Len(blocks) |-> IF n = 0 THEN Start ELSE Then(f[n - 1], n)]
  BY <1>4, <1>6
<1> HIDE DEF Then, Start
<1>8. f[0] = Start /\ \A n \in 1..Len(blocks) : f[n] = Then(f[n - 1], n)
  BY <1>7
<1> QED BY <1>5, <1>6, <1>8 DEF Then, Start

\* The node's pool and cache after the blocks of a new branch: no entry is new,
\* and the cache is that of the new chain.
LEMMA AfterKeeps ==
  ASSUME TxPoolAssumption, Apart(Node), NEW top \in Nat, CacheUpTo(cache, confirmed, top),
         NEW first \in Nat \ {0}, NEW blocks, Len(blocks) \in Nat, NEW chain,
         \A h \in 1..(first - 1) : h <= top => chain[h] = confirmed[h],
         \A n \in 1..Len(blocks) : chain[first + n - 1] = blocks[n]
  PROVE  LET after == AfterBlocks(first, blocks, chain)
         IN  /\ Apart(after.pool) /\ after.pool.entries \subseteq pool
             /\ CacheUpTo(after.cache, chain, first - 1 + Len(blocks))
<1>0. PICK N \in Nat : N = Len(blocks)
  OBVIOUS
<1>1. PICK f : /\ f[0] = [pool |-> Node, cache |-> Older(cache, CachedFrom(cache, first))]
               /\ AfterBlocks(first, blocks, chain) = f[N]
               /\ \A n \in 1..N :
                      f[n] = [pool |-> OnBlock(f[n - 1].pool, chain, blocks[n]),
                              cache |-> Record(f[n - 1].cache, first + n - 1,
                                               Mined(f[n - 1].pool, blocks[n]))]
  BY <1>0, AfterSteps, SMTT(30)
<1> DEFINE Right(r, n) == /\ Apart(r.pool) /\ r.pool.entries \subseteq pool
                          /\ CacheUpTo(r.cache, chain, first - 1 + n)
           S == {n \in Nat : n <= N => Right(f[n], n)}
<1>2. 0 \in S
  <2>1. Node.entries = pool
    BY DEF Node, Holding
  <2>2. CacheUpTo(Older(cache, CachedFrom(cache, first)), chain, first - 1)
    BY OlderKeeps
  <2>3. first - 1 + 0 = first - 1
    OBVIOUS
  <2> QED BY <1>1, <2>1, <2>2, <2>3
<1>3. ASSUME NEW n \in Nat, n \in S PROVE n + 1 \in S
  <2>1. SUFFICES ASSUME n + 1 <= N PROVE Right(f[n + 1], n + 1)
    OBVIOUS
  <2>2. n + 1 \in 1..N /\ (n + 1) - 1 = n /\ Right(f[n], n)
    BY <1>3, <2>1
  <2>3. PICK m : m = f[n].pool
    OBVIOUS
  <2>4. PICK B : B = blocks[n + 1]
    OBVIOUS
  <2>5. PICK h \in Nat : h = first - 1 + n
    OBVIOUS
  <2>6. h + 1 = first + (n + 1) - 1 /\ h + 1 = first - 1 + (n + 1) /\ chain[h + 1] = B
    BY <2>2, <2>4, <2>5, <1>0
  <2>7. f[n + 1] = [pool |-> OnBlock(m, chain, B), cache |-> Record(f[n].cache, h + 1, Mined(m, B))]
    BY <1>1, <2>2, <2>3, <2>4, <2>6
  <2>8. Apart(m) /\ m.entries \subseteq pool
    BY <2>2, <2>3
  <2>9. Apart(OnBlock(m, chain, B)) /\ OnBlock(m, chain, B).entries \subseteq pool
    BY <2>8, OnBlockHolds DEF PoolHolds
  <2>10. Mined(m, B) \in SUBSET Txs /\ \A T \in Mined(m, B) : T \subseteq chain[h + 1] /\ Structured(T)
    BY <2>6, <2>8 DEF Mined, Apart
  <2>11. CacheUpTo(Record(f[n].cache, h + 1, Mined(m, B)), chain, h + 1)
    <3>1. CacheUpTo(f[n].cache, chain, h)
      BY <2>2, <2>5
    <3> QED BY <3>1, <2>10, RecordKeeps
  <2> QED BY <2>6, <2>7, <2>9, <2>11
<1>4. Nat \subseteq S
  <2> HIDE DEF S
  <2> QED BY <1>2, <1>3, SetInd
<1> QED BY <1>0, <1>1, <1>4
------------------------------------------------------------------------------
Inv ==
    /\ confirmed \in Seq(SUBSET Parts)
    /\ PoolHolds(Node, confirmed)
    /\ CacheUpTo(cache, confirmed, Len(confirmed))
    /\ stem \subseteq Txs /\ \A v \in validating : v.tx \in Txs

\* A node whose pool becomes a sound one has that one.
LEMMA Becomes ==
  ASSUME NEW m, Indexed(m), Become(m)
  PROVE  Node' = m
BY DEF Become, Indexed, Node, Holding

\* The invariant is what the properties ask.
LEMMA InvSays == ASSUME Inv PROVE PoolSound /\ CacheOnChain
<1>1. Node.entries = pool /\ Node.claims = claimed /\ Node = Holding(pool, ClaimsOf(pool))
  BY DEF Inv, PoolHolds, Apart, Indexed, Node, Holding
<1>2. claimed = ClaimsOf(pool)
  BY <1>1 DEF Holding
<1>3. PoolSound
  BY <1>1, <1>2 DEF Inv, PoolHolds, Apart, PoolSound, PoolApplies, PoolIndexed, ClaimsOf
<1>4. CacheOnChain
  BY DEF Inv, CacheUpTo, MinedAt, CacheOnChain
<1> QED BY <1>3, <1>4

LEMMA InvInit == ASSUME PoolInit PROVE Inv
<1>1. Node = Holding({}, NoClaims) /\ Node.entries = {}
  BY DEF PoolInit, Node, Holding
<1>2. Ins(UNION {}) = {} /\ Outs(UNION {}) = {} /\ UNION {} = {}
  BY DEF Ins, Outs
<1>3. NoClaims = ClaimsOf({})
  BY <1>2 DEF NoClaims, ClaimsOf
<1>4. Aggregates({})
  BY <1>2 DEF Aggregates
<1>5. Indexed(Node)
  BY <1>1, <1>3 DEF Indexed
<1>6. PoolHolds(Node, confirmed)
  BY <1>1, <1>4, <1>5 DEF PoolHolds, Apart
<1>7. CacheUpTo(cache, confirmed, Len(confirmed))
  BY DEF PoolInit, CacheUpTo
<1> QED BY <1>6, <1>7 DEF PoolInit, Inv

\* A set's members in an order, each once.
LEMMA OrderIs ==
  ASSUME TxPoolAssumption, NEW S, S \subseteq Txs, NEW order \in SetToSeqs(S)
  PROVE  /\ order \in Seq(Txs) /\ Range(order) = S
         /\ \A i \in 1..Len(order) : order[i] \in S
         /\ \A T \in S : \E i \in 1..Len(order) : order[i] = T
<1>1. IsFiniteSet(S)
  BY Finite
<1>2. PICK n \in Nat : n = Cardinality(S)
  BY Finite
<1>3. order \in [1..n -> S] /\ \A i, j \in 1..n : i # j => order[i] # order[j]
  BY <1>2 DEF SetToSeqs
<1>4. \A T \in S : \E i \in 1..n : order[i] = T
  <2>1. IsFiniteSet(1..n) /\ Cardinality(1..n) = n
    BY FS_Interval
  <2>2. order \in Injection(1..n, S)
    BY <1>3 DEF Injection, IsInjective
  <2>3. order \in Surjection(1..n, S)
    BY <2>1, <2>2, <1>1, <1>2, FS_Injection
  <2> QED BY <2>3 DEF Surjection
<1>5. order \in Seq(Txs) /\ Len(order) = n
  BY <1>3
<1>6. Range(order) = S
  BY <1>3, <1>4 DEF Range
<1> QED BY <1>3, <1>4, <1>5, <1>6

\* A chain with its end replaced.
LEMMA ChainIs ==
  ASSUME NEW c \in Seq(SUBSET Parts), NEW first \in 1..(Len(c) + 1), NEW blocks \in Seq(SUBSET Parts)
  PROVE  LET chain == SubSeq(c, 1, first - 1) \o blocks
         IN  /\ chain \in Seq(SUBSET Parts) /\ Len(chain) = first - 1 + Len(blocks)
             /\ \A h \in 1..(first - 1) : chain[h] = c[h]
             /\ \A n \in 1..Len(blocks) : chain[first + n - 1] = blocks[n]
<1>1. PICK front : front = SubSeq(c, 1, first - 1)
  OBVIOUS
<1>2. front \in Seq(SUBSET Parts) /\ Len(front) = first - 1 /\ \A h \in 1..(first - 1) : front[h] = c[h]
  BY <1>1
<1>3. PICK chain : chain = front \o blocks
  OBVIOUS
<1>4. chain \in Seq(SUBSET Parts) /\ Len(chain) = first - 1 + Len(blocks)
  <2>1. chain \in Seq(SUBSET Parts) /\ Len(chain) = Len(front) + Len(blocks)
    BY <1>2, <1>3, ConcatProperties
  <2> QED BY <2>1, <1>2
<1>5. \A h \in 1..(first - 1) : chain[h] = front[h]
  BY <1>2, <1>3
<1>6. ASSUME NEW n \in 1..Len(blocks) PROVE chain[first + n - 1] = blocks[n]
  <2>1. first + n - 1 \in 1..Len(chain) /\ first + n - 1 > Len(front) /\ first + n - 1 - Len(front) = n
    BY <1>2, <1>4
  <2> QED BY <2>1, <1>2, <1>3
<1> QED BY <1>1, <1>2, <1>3, <1>4, <1>5, <1>6

\* What a handler that leaves the chain does to the pool is add.
LEMMA SameChain ==
  ASSUME Inv, UNCHANGED <<confirmed, cache>>,
         stem' \subseteq Txs, \A v \in validating' : v.tx \in Txs,
         \/ UNCHANGED <<pool, claimed>>
         \/ \E m : PoolHolds(m, confirmed) /\ Become(m)
  PROVE  Inv'
<1>1. PoolHolds(Node', confirmed)
  <2>1. CASE UNCHANGED <<pool, claimed>>
    BY <2>1 DEF Inv, Node, Holding
  <2>2. CASE \E m : PoolHolds(m, confirmed) /\ Become(m)
    <3>1. PICK m : PoolHolds(m, confirmed) /\ Become(m)
      BY <2>2
    <3> QED BY <3>1, Becomes DEF PoolHolds, Apart
  <2> QED BY <2>1, <2>2
<1>2. PoolHolds(Node, confirmed)' = PoolHolds(Node', confirmed)
  BY DEF PoolHolds, Apart, Applies, Coins, Kernels
<1>3. CacheUpTo(cache, confirmed, Len(confirmed))'
  BY DEF Inv, CacheUpTo, MinedAt
<1> QED BY <1>1, <1>2, <1>3 DEF Inv

\* One transaction, added to the pool: broadcast or fluffed.
LEMMA OneAdded ==
  ASSUME TxPoolAssumption, Inv, UNCHANGED <<confirmed, cache>>, NEW T \in Txs,
         Become(Add(Node, confirmed, T).pool),
         stem' \subseteq Txs, \A v \in validating' : v.tx \in Txs
  PROVE  Inv'
<1>1. PoolHolds(Add(Node, confirmed, T).pool, confirmed)
  BY AddKeeps DEF Inv
<1> QED BY <1>1, SameChain

\* Two transactions ready at the same embargo make one.
LEMMA Merged ==
  ASSUME TxPoolAssumption, NEW S, S \subseteq Txs, Cardinality(S) > 1
  PROVE  UNION S \in Txs
<1>1. S # {}
  BY FS_EmptySet
<1> QED BY <1>1 DEF Txs

LEMMA EmbargoKeeps ==
  ASSUME TxPoolAssumption, Inv, NEW S, Embargo(S)
  PROVE  Inv'
<1>1. S \subseteq Txs /\ stem' \subseteq Txs /\ UNCHANGED <<confirmed, cache, validating>>
  BY DEF Embargo, Inv
<1>2. Ready(S) \subseteq Txs
  BY <1>1 DEF Ready
<1>3. \A v \in validating' : v.tx \in Txs
  BY <1>1 DEF Inv
<1>4. CASE Cardinality(Ready(S)) > 1 /\ Fluff(UNION Ready(S))
  <2>1. UNION Ready(S) \in Txs
    BY <1>2, <1>4, Merged
  <2>2. Become(Add(Node, confirmed, UNION Ready(S)).pool)
    BY <1>4 DEF Fluff, Enters
  <2> QED BY <1>1, <1>3, <2>1, <2>2, OneAdded
<1>5. ASSUME NEW order \in SetToSeqs(Ready(S)), FluffEach(order) PROVE Inv'
  <2>1. order \in Seq(Txs)
    BY <1>2, OrderIs
  <2>2. PoolHolds(AddAll(Node, confirmed, order), confirmed)
    BY <2>1, AddAllKeeps DEF Inv
  <2>3. Become(AddAll(Node, confirmed, order))
    BY <1>5 DEF FluffEach, Enters
  <2> QED BY <1>1, <1>3, <2>2, <2>3, SameChain
<1> QED BY <1>4, <1>5 DEF Embargo

LEMMA AdoptBlockKeeps ==
  ASSUME TxPoolAssumption, Inv, NEW B \in SUBSET Parts, AdoptBlock(B)
  PROVE  Inv'
<1>1. PICK N \in Nat : N = Len(confirmed)
  BY DEF Inv
<1>2. PICK chain : chain = confirmed'
  OBVIOUS
<1>3. /\ chain \in Seq(SUBSET Parts) /\ Len(chain) = N + 1 /\ chain[N + 1] = B
      /\ \A h \in 1..N : chain[h] = confirmed[h]
  BY <1>1, <1>2 DEF Inv, AdoptBlock
<1>4. Apart(Node)
  BY DEF Inv, PoolHolds
<1>5. PoolHolds(OnBlock(Node, chain, B), chain)
  BY <1>4, OnBlockHolds
<1>6. Node' = OnBlock(Node, chain, B)
  BY <1>2, <1>5, Becomes DEF AdoptBlock, PoolHolds, Apart
<1>7. CacheUpTo(cache, chain, N)
  <2>1. CacheUpTo(cache, confirmed, N)
    BY <1>1 DEF Inv
  <2> QED BY <2>1, <1>3 DEF CacheUpTo, MinedAt
<1>8. Mined(Node, B) \in SUBSET Txs /\ \A T \in Mined(Node, B) : T \subseteq chain[N + 1] /\ Structured(T)
  BY <1>3, <1>4 DEF Mined, Apart
<1>9. CacheUpTo(Record(cache, N + 1, Mined(Node, B)), chain, N + 1)
  BY <1>7, <1>8, RecordKeeps
<1>10. cache' = Record(cache, N + 1, Mined(Node, B))
  BY <1>2, <1>3 DEF AdoptBlock
<1>11. PoolHolds(Node', confirmed') /\ CacheUpTo(cache', confirmed', Len(confirmed'))
  BY <1>2, <1>3, <1>5, <1>6, <1>9, <1>10
<1>12. PoolHolds(Node, confirmed)' /\ CacheUpTo(cache, confirmed, Len(confirmed))'
  BY <1>11 DEF PoolHolds, Apart, CacheUpTo, MinedAt
<1>13. stem' \subseteq Txs /\ \A v \in validating' : v.tx \in Txs
  BY DEF AdoptBlock, Inv
<1> QED BY <1>2, <1>3, <1>12, <1>13 DEF Inv

\* A reorganisation, told by its parts.
LEMMA AdoptChainIs ==
  ASSUME TxPoolAssumption, Inv, NEW first, NEW blocks \in Seq(SUBSET Parts), AdoptChain(first, blocks)
  PROVE  \E m, order :
           /\ first \in 1..(Len(confirmed) + 1)
           /\ confirmed' = SubSeq(confirmed, 1, first - 1) \o blocks
           /\ confirmed' \in Seq(SUBSET Parts)
           /\ \A h \in 1..(first - 1) : confirmed'[h] = confirmed[h]
           /\ PoolHolds(m, confirmed') /\ m.entries \subseteq pool
           /\ order \in SetToSeqs(Restorable(first)) /\ order \in Seq(Txs)
           /\ Restorable(first) \subseteq Txs
           /\ Become(AddAll(m, confirmed', order))
           /\ CacheUpTo(cache', confirmed', Len(confirmed'))
<1>1. PICK N \in Nat : N = Len(confirmed)
  BY DEF Inv
<1>2. PICK chain : chain = confirmed'
  OBVIOUS
<1>3. first \in 1..(N + 1) /\ chain = SubSeq(confirmed, 1, first - 1) \o blocks
  BY <1>1, <1>2 DEF AdoptChain
<1>4. /\ chain \in Seq(SUBSET Parts) /\ Len(chain) = first - 1 + Len(blocks)
      /\ \A h \in 1..(first - 1) : chain[h] = confirmed[h]
      /\ \A n \in 1..Len(blocks) : chain[first + n - 1] = blocks[n]
  BY <1>1, <1>3, ChainIs DEF Inv
<1>5. PICK after : after = AfterBlocks(first, blocks, chain)
  OBVIOUS
<1>6. /\ Apart(after.pool) /\ after.pool.entries \subseteq pool
      /\ CacheUpTo(after.cache, chain, Len(chain))
  <2>1. Apart(Node) /\ CacheUpTo(cache, confirmed, N) /\ first \in Nat \ {0} /\ Len(blocks) \in Nat
    BY <1>1, <1>3 DEF Inv, PoolHolds
  <2> QED BY <2>1, <1>4, <1>5, AfterKeeps
<1>7. PICK m : m = Revalidated(after.pool, chain)
  OBVIOUS
<1>8. PoolHolds(m, chain) /\ m.entries \subseteq pool
  BY <1>6, <1>7, RevalidatedHolds
<1>9. /\ cache' = after.cache
      /\ \E order \in SetToSeqs(Restorable(first)) : Enters(AddAll(m, chain, order), Range(order))
  BY <1>3, <1>5, <1>7 DEF AdoptChain
<1>10. PICK order \in SetToSeqs(Restorable(first)) : Enters(AddAll(m, chain, order), Range(order))
  BY <1>9
<1>11. Restorable(first) \subseteq Txs
  <2>1. ASSUME NEW i \in 1..Len(cache) PROVE cache[i].txs \subseteq Txs
    <3>1. cache \in Seq(Entries)
      BY DEF Inv, CacheUpTo
    <3>2. cache[i] \in Entries
      BY <3>1
    <3> QED BY <3>2 DEF Entries
  <2> QED BY <2>1 DEF Restorable, CachedFrom
<1>12. order \in Seq(Txs)
  BY <1>10, <1>11, OrderIs
<1>13. Become(AddAll(m, chain, order))
  BY <1>10 DEF Enters
<1> QED BY <1>1, <1>2, <1>3, <1>4, <1>6, <1>8, <1>9, <1>10, <1>11, <1>12, <1>13

LEMMA AdoptChainKeeps ==
  ASSUME TxPoolAssumption, Inv, NEW first, NEW blocks \in Seq(SUBSET Parts), AdoptChain(first, blocks)
  PROVE  Inv'
<1>1. PICK m, order :
           /\ confirmed' \in Seq(SUBSET Parts)
           /\ PoolHolds(m, confirmed') /\ order \in Seq(Txs)
           /\ Become(AddAll(m, confirmed', order))
           /\ CacheUpTo(cache', confirmed', Len(confirmed'))
  BY AdoptChainIs
<1>2. PoolHolds(AddAll(m, confirmed', order), confirmed')
  BY <1>1, AddAllKeeps
<1>3. Node' = AddAll(m, confirmed', order)
  BY <1>1, <1>2, Becomes DEF PoolHolds, Apart
<1>4. PoolHolds(Node, confirmed)' /\ CacheUpTo(cache, confirmed, Len(confirmed))'
  BY <1>1, <1>2, <1>3 DEF PoolHolds, Apart, CacheUpTo, MinedAt
<1>5. stem' \subseteq Txs /\ \A v \in validating' : v.tx \in Txs
  BY DEF AdoptChain, Inv
<1> QED BY <1>1, <1>4, <1>5 DEF Inv

\* What is validated is a transaction.
LEMMA ValidatingTypes ==
  ASSUME Inv, NEW T \in Txs, NEW from
  PROVE  \A v \in Validating(T, from) : v.tx \in Txs
BY DEF Validating, Inv

LEMMA InvStep == ASSUME TxPoolAssumption, Inv, [PoolNext]_txVars PROVE Inv'
<1>1. ASSUME NEW p \in Parts, SubmitLocal(p) PROVE Inv'
  <2>1. {p} \in Txs
    BY DEF Txs
  <2>2. \A v \in validating' : v.tx \in Txs
    BY <1>1, <2>1, ValidatingTypes DEF SubmitLocal
  <2>3. stem' \subseteq Txs /\ UNCHANGED <<confirmed, cache, pool, claimed>>
    BY <1>1 DEF SubmitLocal, Inv
  <2> QED BY <2>2, <2>3, SameChain
<1>2. ASSUME NEW T \in Txs, HearGossip(T) \/ HearStem(T) PROVE Inv'
  <2>1. \A v \in Validating(T, "gossip") \cup Validating(T, "stem") \cup validating : v.tx \in Txs
    BY ValidatingTypes DEF Inv
  <2>2. validating' \in {Validating(T, "gossip"), Validating(T, "stem"), validating}
    BY <1>2 DEF HearGossip, HearStem
  <2>3. stem' \subseteq Txs /\ UNCHANGED <<confirmed, cache, pool, claimed>>
    BY <1>2 DEF HearGossip, HearStem, Inv
  <2>4. \A v \in validating' : v.tx \in Txs
    BY <2>1, <2>2
  <2> QED BY <2>3, <2>4, SameChain
<1>3. ASSUME NEW v \in validating, GossipValidated(v) \/ StemValidated(v) \/ LocalValidated(v) PROVE Inv'
  <2>1. v.tx \in Txs /\ (\A w \in validating' : w.tx \in Txs) /\ UNCHANGED <<confirmed, cache>>
    BY <1>3 DEF Inv, GossipValidated, StemValidated, LocalValidated, Validated
  <2>2. stem' \subseteq Txs
    BY <1>3, <2>1 DEF Inv, GossipValidated, StemValidated, LocalValidated
  <2>3. \/ UNCHANGED <<pool, claimed>> \/ Become(Node)
        \/ Become(Add(Node, confirmed, v.tx).pool)
    BY <1>3 DEF GossipValidated, StemValidated, LocalValidated, Fluff, Enters
  <2>4. PoolHolds(Node, confirmed)
    BY DEF Inv
  <2> QED BY <2>1, <2>2, <2>3, <2>4, OneAdded, SameChain
<1>4. ASSUME NEW S \in SUBSET stem, Embargo(S) PROVE Inv'
  BY <1>4, EmbargoKeeps
<1>5. ASSUME NEW B \in SUBSET Parts, AdoptBlock(B) PROVE Inv'
  BY <1>5, AdoptBlockKeeps
<1>6. ASSUME NEW first \in 1..MaxConfirmed, NEW B \in SUBSET Parts, NEW C \in SUBSET Parts,
             NEW blocks \in {<<B>>, <<B, C>>}, AdoptChain(first, blocks)
      PROVE Inv'
  <2>1. blocks \in Seq(SUBSET Parts)
    <3>1. <<B>> \in Seq(SUBSET Parts) /\ <<B, C>> \in Seq(SUBSET Parts)
      OBVIOUS
    <3> QED BY <3>1, <1>6
  <2> QED BY <1>6, <2>1, AdoptChainKeeps
<1>7. CASE UNCHANGED txVars
  <2>1. UNCHANGED <<confirmed, cache, pool, claimed, stem, validating>>
    BY <1>7 DEF txVars
  <2> QED BY <2>1, SameChain DEF Inv
<1> QED BY <1>1, <1>2, <1>3, <1>4, <1>5, <1>6, <1>7 DEF PoolNext, TxBlocks

\* mempool.rs, node.rs adopt_block and adopt_chain: whatever is heard, merged,
\* evicted, mined and taken back, the pool is one a template may take any part of,
\* and its maps say what its entries claim.
THEOREM PoolStaysSound == ASSUME TxPoolAssumption PROVE PoolSpec => []PoolSound
<1>1. PoolInit => Inv
  BY InvInit
<1>2. Inv /\ [PoolNext]_txVars => Inv'
  BY InvStep
<1>3. Inv => PoolSound
  BY InvSays
<1> QED BY <1>1, <1>2, <1>3, PTL DEF PoolSpec

\* ReorgCache: what a reorganisation would give back was mined, at the height it
\* is cached under, by the chain as it is now.
THEOREM CacheStays == ASSUME TxPoolAssumption PROVE PoolSpec => []CacheOnChain
<1>1. PoolInit => Inv
  BY InvInit
<1>2. Inv /\ [PoolNext]_txVars => Inv'
  BY InvStep
<1>3. Inv => CacheOnChain
  BY InvSays
<1> QED BY <1>1, <1>2, <1>3, PTL DEF PoolSpec
------------------------------------------------------------------------------
\* Fees and sizes are the library's fold; that they are numbers is proved by
\* induction on the size of the set.
Chosen(s) == CHOOSE x \in s : TRUE
Sums(g, w, S) ==
    g = [s \in SUBSET S |-> IF s = {} THEN 0 ELSE w[Chosen(s)] + g[s \ {Chosen(s)}]]
SumsTo(g, w, S, n) ==
    g = [s \in SUBSET S |-> IF s = {} \/ Cardinality(s) > n THEN 0
                            ELSE w[Chosen(s)] + g[s \ {Chosen(s)}]]

LEMMA SumChosen ==
  ASSUME NEW T
  PROVE  /\ Size(T) = (CHOOSE g : Sums(g, SizeOf, T))[T]
         /\ Fee(T) = (CHOOSE g : Sums(g, FeeOf, T))[T]
BY DEF Size, Fee, MapThenSumSet, MapThenFoldSet, Sums, Chosen

\* A set without one of its elements.
LEMMA OneLess ==
  ASSUME NEW s, IsFiniteSet(s), s # {}
  PROVE  /\ Chosen(s) \in s /\ IsFiniteSet(s \ {Chosen(s)})
         /\ Cardinality(s \ {Chosen(s)}) \in Nat
         /\ Cardinality(s) = Cardinality(s \ {Chosen(s)}) + 1
<1>1. Chosen(s) \in s
  BY DEF Chosen
<1>2. PICK k \in s : k = Chosen(s)
  BY <1>1
<1>3. IsFiniteSet(s \ {k}) /\ Cardinality(s \ {k}) = Cardinality(s) - 1
  BY FS_RemoveElement
<1>4. Cardinality(s) \in Nat /\ Cardinality(s \ {k}) \in Nat
  BY <1>3, FS_CardinalityType
<1> QED BY <1>1, <1>2, <1>3, <1>4

LEMMA SumsExist ==
  ASSUME NEW w, NEW S, IsFiniteSet(S)
  PROVE  \E g : Sums(g, w, S)
<1> DEFINE N == {n \in Nat : \E g : SumsTo(g, w, S, n)}
<1>0. ASSUME NEW s \in SUBSET S
      PROVE IsFiniteSet(s) /\ Cardinality(s) \in Nat /\ Cardinality(s) <= Cardinality(S)
  BY FS_Subset, FS_CardinalityType
<1>1. 0 \in N
  <2> DEFINE g == [s \in SUBSET S |-> 0]
  <2>1. ASSUME NEW s \in SUBSET S, s # {} PROVE Cardinality(s) > 0
    BY <1>0, <2>1, FS_EmptySet
  <2>2. SumsTo(g, w, S, 0)
    BY <2>1 DEF SumsTo
  <2> QED BY <2>2
<1>2. ASSUME NEW n \in Nat, n \in N PROVE n + 1 \in N
  <2>1. PICK f : SumsTo(f, w, S, n)
    BY <1>2
  <2> DEFINE g == [s \in SUBSET S |-> IF s = {} \/ Cardinality(s) > n + 1 THEN 0
                                      ELSE w[Chosen(s)] + f[s \ {Chosen(s)}]]
  <2>2. ASSUME NEW s \in SUBSET S, Cardinality(s) <= n PROVE g[s] = f[s]
    <3>1. Cardinality(s) \in Nat /\ ~(Cardinality(s) > n) /\ ~(Cardinality(s) > n + 1)
      BY <1>0, <2>2
    <3> QED BY <3>1, <2>1 DEF SumsTo
  <2>3. ASSUME NEW s \in SUBSET S, s # {}, ~(Cardinality(s) > n + 1)
        PROVE f[s \ {Chosen(s)}] = g[s \ {Chosen(s)}]
    <3>1. Cardinality(s \ {Chosen(s)}) <= n
      BY <1>0, <2>3, OneLess
    <3>2. s \ {Chosen(s)} \in SUBSET S
      OBVIOUS
    <3> QED BY <2>2, <3>1, <3>2
  <2>4. SumsTo(g, w, S, n + 1)
    <3> DEFINE h == [s \in SUBSET S |-> IF s = {} \/ Cardinality(s) > n + 1 THEN 0
                                        ELSE w[Chosen(s)] + g[s \ {Chosen(s)}]]
    <3>1. ASSUME NEW s \in SUBSET S PROVE g[s] = h[s]
      <4> HIDE DEF g
      <4>1. g[s] = IF s = {} \/ Cardinality(s) > n + 1 THEN 0
                   ELSE w[Chosen(s)] + f[s \ {Chosen(s)}]
        BY DEF g
      <4> QED BY <4>1, <2>3
    <3>2. g = h
      BY <3>1
    <3> QED BY <3>2 DEF SumsTo
  <2> QED BY <2>4
<1>3. Nat \subseteq N
  <2> HIDE DEF N
  <2> QED BY <1>1, <1>2, SetInd
<1>4. PICK g : SumsTo(g, w, S, Cardinality(S))
  <2>1. Cardinality(S) \in N
    BY <1>3, FS_CardinalityType
  <2> QED BY <2>1
<1>5. ASSUME NEW s \in SUBSET S PROVE ~(Cardinality(s) > Cardinality(S))
  BY <1>0, FS_CardinalityType
<1>6. Sums(g, w, S)
  BY <1>4, <1>5 DEF SumsTo, Sums
<1> QED BY <1>6

LEMMA SumsNat ==
  ASSUME NEW w, NEW S, IsFiniteSet(S), \A x \in S : w[x] \in Nat, NEW g, Sums(g, w, S)
  PROVE  g[S] \in Nat /\ g[{}] = 0
<1> DEFINE N == {n \in Nat : \A s \in SUBSET S : Cardinality(s) = n => g[s] \in Nat}
<1>0. ASSUME NEW s \in SUBSET S PROVE IsFiniteSet(s) /\ Cardinality(s) \in Nat
  BY FS_Subset, FS_CardinalityType
<1>1. 0 \in N
  <2>1. ASSUME NEW s \in SUBSET S, Cardinality(s) = 0 PROVE g[s] \in Nat
    <3>1. s = {}
      BY <1>0, <2>1, FS_EmptySet
    <3> QED BY <3>1 DEF Sums
  <2> QED BY <2>1
<1>2. ASSUME NEW n \in Nat, n \in N PROVE n + 1 \in N
  <2>1. ASSUME NEW s \in SUBSET S, Cardinality(s) = n + 1 PROVE g[s] \in Nat
    <3>1. IsFiniteSet(s) /\ s # {}
      BY <1>0, <2>1, FS_EmptySet
    <3>2. Chosen(s) \in s /\ Cardinality(s \ {Chosen(s)}) = n
      BY <3>1, <2>1, OneLess
    <3>3. s \ {Chosen(s)} \in SUBSET S
      OBVIOUS
    <3>4. g[s \ {Chosen(s)}] \in Nat /\ w[Chosen(s)] \in Nat
      BY <1>2, <3>2, <3>3
    <3>5. g[s] = w[Chosen(s)] + g[s \ {Chosen(s)}]
      BY <3>1 DEF Sums
    <3> QED BY <3>4, <3>5
  <2> QED BY <2>1
<1>3. Nat \subseteq N
  <2> HIDE DEF N
  <2> QED BY <1>1, <1>2, SetInd
<1>4. Cardinality(S) \in N
  BY <1>0, <1>3
<1> QED BY <1>4 DEF Sums

\* Fees and sizes are numbers, and nothing weighs nothing.
LEMMA Numbers ==
  ASSUME TxPoolAssumption, NEW T \in SUBSET Parts
  PROVE  Size(T) \in Nat /\ Fee(T) \in Nat /\ Size({}) = 0
<1>1. IsFiniteSet(T) /\ (\A x \in T : SizeOf[x] \in Nat /\ FeeOf[x] \in Nat)
  BY FS_Subset DEF TxPoolAssumption
<1>2. Size(T) \in Nat
  <2>1. PICK g : g = CHOOSE f : Sums(f, SizeOf, T)
    OBVIOUS
  <2>2. Sums(g, SizeOf, T)
    BY <1>1, <2>1, SumsExist
  <2>3. Size(T) = g[T]
    BY <2>1, SumChosen
  <2> QED BY <1>1, <2>2, <2>3, SumsNat
<1>3. Fee(T) \in Nat
  <2>1. PICK g : g = CHOOSE f : Sums(f, FeeOf, T)
    OBVIOUS
  <2>2. Sums(g, FeeOf, T)
    BY <1>1, <2>1, SumsExist
  <2>3. Fee(T) = g[T]
    BY <2>1, SumChosen
  <2> QED BY <1>1, <2>2, <2>3, SumsNat
<1>4. Size({}) = 0
  <2>1. PICK g : g = CHOOSE f : Sums(f, SizeOf, {})
    OBVIOUS
  <2>2. IsFiniteSet({})
    BY FS_EmptySet
  <2>3. Sums(g, SizeOf, {})
    BY <2>1, <2>2, SumsExist
  <2>4. g[{}] = 0
    BY <2>2, <2>3, SumsNat
  <2> QED BY <2>1, <2>4, SumChosen
<1> QED BY <1>2, <1>3, <1>4

\* Of two transactions one is not better than the other.
LEMMA NotBoth ==
  ASSUME TxPoolAssumption, NEW T \in Txs, NEW U \in Txs, Better(T, U)
  PROVE  ~Better(U, T) /\ T # U
<1>1. Size(T) \in Nat /\ Fee(T) \in Nat /\ Size(U) \in Nat /\ Fee(U) \in Nat
  BY Numbers DEF Txs
<1>2. Fee(T) * Size(U) \in Nat /\ Fee(U) * Size(T) \in Nat
  BY <1>1
<1>3. Fee(T) * Size(U) > Fee(U) * Size(T)
  BY DEF Better
<1>4. ~Better(U, T)
  BY <1>2, <1>3 DEF Better
<1> QED BY <1>4

\* What add refuses though it applies has an entry in its way.
LEMMA AddRefuses ==
  ASSUME TxPoolAssumption, NEW m, NEW chain, PoolHolds(m, chain), NEW T \in Txs,
         Structured(T), Applies(chain, T), T \notin Add(m, chain, T).pool.entries
  PROVE  \E U \in m.entries \ {T} : Applies(chain, U) /\ InTheWay(U, T)
<1>0. Apart(m) /\ m.entries \subseteq Txs /\ \A U \in m.entries : Applies(chain, U)
  BY DEF PoolHolds, Apart
<1>1. T \notin m.entries
  <2>1. CASE ~Check(m, chain, T)
    BY <2>1 DEF Add
  <2>2. CASE Check(m, chain, T)
    BY <2>2 DEF Check
  <2> QED BY <2>1, <2>2
<1>2. CASE ~Check(m, chain, T)
  <2>1. ~Free(m, T)
    BY <1>1, <1>2 DEF Check
  <2>2. m.claims = ClaimsOf(m.entries)
    BY <1>0 DEF Apart, Indexed, Holding
  <2>3. /\ m.claims.spends = Ins(UNION m.entries) /\ m.claims.creates = Outs(UNION m.entries)
        /\ m.claims.kernels = UNION m.entries
    BY <2>2, Claims
  <2>4. PICK x : \/ x \in Ins(T) /\ x \in Ins(UNION m.entries) \cup Outs(UNION m.entries)
                 \/ x \in Outs(T) /\ x \in Outs(UNION m.entries)
                 \/ x \in T /\ x \in UNION m.entries
    BY <2>1, <2>3 DEF Free
  <2>5. /\ x \in Ins(UNION m.entries) <=> \E U \in m.entries : x \in Ins(U)
        /\ x \in Outs(UNION m.entries) <=> \E U \in m.entries : x \in Outs(U)
    BY Together
  <2>6. \E U \in m.entries : \/ x \in Ins(T) /\ x \in Ins(U) \cup Outs(U)
                             \/ x \in Outs(T) /\ x \in Outs(U)
                             \/ x \in T /\ x \in U
    BY <2>4, <2>5
  <2> QED BY <2>6, <1>0, <1>1 DEF InTheWay
<1>3. CASE Check(m, chain, T)
  <2>1. ~Add(m, chain, T).ok
    BY AddKeeps
  <2>2. RoomFor(m, T) = {}
    BY <2>1, <1>0, <1>3, AddCases
  <2>3. \E U \in m.entries : ~Better(T, U)
    <3>1. SUFFICES ASSUME \A U \in m.entries : Better(T, U) PROVE FALSE
      OBVIOUS
    <3>2. m.entries \in Cheapest(m, T)
      BY <3>1 DEF Cheapest
    <3>3. Size(T) \in Nat /\ Size({}) = 0 /\ Size(T) <= MaxPool /\ MaxPool \in Nat
      BY Numbers DEF Txs, Structured, TxPoolAssumption
    <3>4. Size(UNION (m.entries \ m.entries)) = 0
      <4>1. UNION (m.entries \ m.entries) = {}
        OBVIOUS
      <4> QED BY <3>3, <4>1
    <3>5. MakesRoom(m, T, m.entries)
      BY <3>3, <3>4 DEF MakesRoom
    <3> QED BY <2>2, <3>2, <3>5 DEF RoomFor
  <2> QED BY <2>3, <1>0, <1>1 DEF InTheWay
<1> QED BY <1>2, <1>3

\* What is offered one after another is in the pool at the end, or something in
\* its way was there before or was offered with it.
LEMMA Offered ==
  ASSUME TxPoolAssumption, NEW m, NEW chain, PoolHolds(m, chain), NEW order \in Seq(Txs),
         \A i \in 1..Len(order) : Structured(order[i])
  PROVE  \A i \in 1..Len(order) :
            \/ order[i] \in AddAll(m, chain, order).entries \/ ~Applies(chain, order[i])
            \/ \E U \in (m.entries \cup Range(order)) \ {order[i]} :
                  Applies(chain, U) /\ InTheWay(U, order[i])
<1>0. PICK N \in Nat : N = Len(order)
  OBVIOUS
<1>1. PICK f : /\ f[0] = m /\ AddAll(m, chain, order) = f[N]
               /\ \A n \in 1..N : f[n] = Add(f[n - 1], chain, order[n]).pool
  BY <1>0, AddAllSteps
<1>2. \A i \in 1..N : order[i] \in Txs /\ order[i] \in Range(order)
  BY <1>0 DEF Range
<1> DEFINE All == m.entries \cup Range(order)
           Excused(T) == ~Applies(chain, T) \/ \E U \in All \ {T} : Applies(chain, U) /\ InTheWay(U, T)
           Right(r, n) == /\ PoolHolds(r, chain) /\ r.entries \subseteq All
                          /\ \A i \in 1..n : order[i] \in r.entries \/ Excused(order[i])
           S == {n \in Nat : n <= N => Right(f[n], n)}
<1>3. 0 \in S
  BY <1>1
<1>4. ASSUME NEW n \in Nat, n \in S PROVE n + 1 \in S
  <2>1. SUFFICES ASSUME n + 1 <= N PROVE Right(f[n + 1], n + 1)
    OBVIOUS
  <2>2. n + 1 \in 1..N /\ (n + 1) - 1 = n /\ Right(f[n], n)
    BY <1>4, <2>1
  <2>3. PICK T \in Txs : T = order[n + 1]
    BY <1>2, <2>2
  <2>4. PICK r : r = f[n]
    OBVIOUS
  <2>5. PICK s : s = Add(r, chain, T).pool
    OBVIOUS
  <2>6. f[n + 1] = s
    BY <1>1, <2>2, <2>3, <2>4, <2>5
  <2>7. PoolHolds(r, chain) /\ r.entries \subseteq All /\ T \in All
    BY <1>2, <2>2, <2>3, <2>4
  <2>8. /\ PoolHolds(s, chain) /\ s.entries \subseteq r.entries \cup {T}
        /\ r.entries \ s.entries \subseteq Worse(r, T)
        /\ r.entries \ s.entries # {} => Applies(chain, T)
    BY <2>5, <2>7, AddKeeps
  <2>9. T \in s.entries \/ Excused(T)
    <3>1. Structured(T)
      BY <1>0, <2>2, <2>3
    <3>2. SUFFICES ASSUME T \notin s.entries, Applies(chain, T) PROVE Excused(T)
      OBVIOUS
    <3>3. \E U \in r.entries \ {T} : Applies(chain, U) /\ InTheWay(U, T)
      BY <2>5, <2>7, <3>1, <3>2, AddRefuses
    <3> QED BY <2>7, <3>3
  <2>10. ASSUME NEW i \in 1..n PROVE order[i] \in s.entries \/ Excused(order[i])
    <3>1. CASE order[i] \in r.entries /\ order[i] \notin s.entries
      <4>1. PICK U \in Txs : U = order[i]
        BY <2>2, <1>2
      <4>2. Better(T, U) /\ Applies(chain, T)
        BY <2>8, <3>1, <4>1 DEF Worse
      <4>3. InTheWay(T, U) /\ T # U
        BY <4>2, NotBoth DEF InTheWay
      <4> QED BY <2>7, <4>1, <4>2, <4>3
    <3>2. CASE order[i] \notin r.entries
      BY <2>2, <2>4, <3>2
    <3> QED BY <3>1, <3>2
  <2>11. s.entries \subseteq All
    BY <2>7, <2>8
  <2>12. ASSUME NEW i \in 1..(n + 1) PROVE order[i] \in s.entries \/ Excused(order[i])
    <3>1. CASE i = n + 1
      BY <3>1, <2>3, <2>9
    <3>2. CASE i # n + 1
      <4>1. i \in 1..n
        BY <3>2
      <4> QED BY <4>1, <2>10
    <3> QED BY <3>1, <3>2
  <2> QED BY <2>6, <2>8, <2>11, <2>12
<1>5. Nat \subseteq S
  <2> HIDE DEF S
  <2> QED BY <1>3, <1>4, SetInd
<1>6. Right(f[N], N)
  BY <1>5
<1> QED BY <1>0, <1>1, <1>6

LEMMA AdoptChainGivesBack ==
  ASSUME TxPoolAssumption, Inv, NEW first, NEW blocks \in Seq(SUBSET Parts), AdoptChain(first, blocks)
  PROVE  GivesBack
<1>1. PICK m, order :
           /\ first \in 1..(Len(confirmed) + 1)
           /\ \A h \in 1..(first - 1) : confirmed'[h] = confirmed[h]
           /\ PoolHolds(m, confirmed') /\ m.entries \subseteq pool
           /\ order \in SetToSeqs(Restorable(first)) /\ order \in Seq(Txs)
           /\ Restorable(first) \subseteq Txs
           /\ Become(AddAll(m, confirmed', order))
  BY AdoptChainIs
<1>2. /\ Range(order) = Restorable(first)
      /\ \A i \in 1..Len(order) : order[i] \in Restorable(first)
      /\ \A T \in Restorable(first) : \E i \in 1..Len(order) : order[i] = T
  BY <1>1, OrderIs
<1>3. Restorable(first) \subseteq Cached /\ \A T \in Cached : Structured(T)
  BY DEF Restorable, Cached, CachedFrom, Inv, CacheUpTo, MinedAt
<1>4. pool' = AddAll(m, confirmed', order).entries
  BY <1>1 DEF Become
<1>5. ASSUME NEW T \in Restorable(first)
      PROVE  \/ T \in pool' \/ ~Applies(confirmed', T)
             \/ \E U \in (pool \cup Cached) \ {T} : Applies(confirmed', U) /\ InTheWay(U, T)
  <2>1. PICK i \in 1..Len(order) : order[i] = T
    BY <1>2
  <2>2. \A j \in 1..Len(order) : Structured(order[j])
    BY <1>2, <1>3
  <2>3. \/ T \in AddAll(m, confirmed', order).entries \/ ~Applies(confirmed', T)
        \/ \E U \in (m.entries \cup Range(order)) \ {T} : Applies(confirmed', U) /\ InTheWay(U, T)
    BY <1>1, <2>1, <2>2, Offered
  <2> QED BY <1>1, <1>2, <1>3, <1>4, <2>3
<1>6. ASSUME NEW i \in 1..Len(cache), ReplacedAt(cache[i].height), NEW T \in cache[i].txs
      PROVE  T \in Restorable(first)
  <2>1. cache[i].height \in 1..Len(confirmed)
    BY DEF Inv, CacheUpTo, MinedAt
  <2>2. cache[i].height >= first
    BY <1>1, <1>6, <2>1 DEF ReplacedAt, Inv
  <2> QED BY <2>2 DEF Restorable, CachedFrom
<1> QED BY <1>5, <1>6 DEF GivesBack

LEMMA GivesBackStep == ASSUME TxPoolAssumption, Inv, [PoolNext]_txVars PROVE [GivesBack]_txVars
<1>1. CASE UNCHANGED confirmed
  BY <1>1 DEF GivesBack, ReplacedAt
<1>2. ASSUME NEW B \in SUBSET Parts, AdoptBlock(B) PROVE GivesBack
  <2>1. confirmed \in Seq(SUBSET Parts) /\ confirmed' = Append(confirmed, B)
    BY <1>2 DEF AdoptBlock, Inv
  <2>2. ASSUME NEW i \in 1..Len(cache) PROVE ~ReplacedAt(cache[i].height)
    <3>1. cache[i].height \in 1..Len(confirmed)
      BY DEF Inv, CacheUpTo, MinedAt
    <3> QED BY <2>1, <3>1 DEF ReplacedAt
  <2> QED BY <2>2 DEF GivesBack
<1>3. ASSUME NEW first \in 1..MaxConfirmed, NEW B \in SUBSET Parts, NEW C \in SUBSET Parts,
             NEW blocks \in {<<B>>, <<B, C>>}, AdoptChain(first, blocks)
      PROVE GivesBack
  <2>1. <<B>> \in Seq(SUBSET Parts) /\ <<B, C>> \in Seq(SUBSET Parts)
    OBVIOUS
  <2>2. blocks \in Seq(SUBSET Parts)
    BY <2>1, <1>3
  <2> QED BY <1>3, <2>2, AdoptChainGivesBack
<1>4. CASE \E p \in Parts : SubmitLocal(p)
  BY <1>4, <1>1 DEF SubmitLocal
<1>5. CASE \E T \in Txs : HearGossip(T) \/ HearStem(T)
  BY <1>5, <1>1 DEF HearGossip, HearStem
<1>6. CASE \E v \in validating : GossipValidated(v) \/ StemValidated(v) \/ LocalValidated(v)
  BY <1>6, <1>1 DEF GossipValidated, StemValidated, LocalValidated
<1>7. CASE \E S \in SUBSET stem : Embargo(S)
  BY <1>7, <1>1 DEF Embargo
<1>8. CASE UNCHANGED txVars
  BY <1>8
<1> QED BY <1>2, <1>3, <1>4, <1>5, <1>6, <1>7, <1>8 DEF PoolNext, TxBlocks

\* node.rs adopt_chain: what the replaced blocks had mined comes back to the pool,
\* unless the new chain stands against it, or something no worse, or claiming the
\* same, that was in the pool or came back with it.
THEOREM ReorgsGiveBack == ASSUME TxPoolAssumption PROVE PoolSpec => ReorgReturns
<1>1. PoolInit => Inv
  BY InvInit
<1>2. Inv /\ [PoolNext]_txVars => Inv'
  BY InvStep
<1>3. Inv /\ [PoolNext]_txVars => [GivesBack]_txVars
  BY GivesBackStep
<1> QED BY <1>1, <1>2, <1>3, PTL DEF PoolSpec, ReorgReturns
=============================================================================
