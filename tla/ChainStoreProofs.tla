-------------------------- MODULE ChainStoreProofs --------------------------
(***************************************************************************)
(* The chain on disk keeps its promises, for every chain and every contents*)
(* of blocks.                                                              *)
(*                                                                         *)
(* First what the chain's own record of bonds and relayed headers rests    *)
(* on.  The fork-choice windows of Bonds are kept block by block and       *)
(* rebuilt from the tables: each is shown to be a function of the chain's  *)
(* columns alone, the counts of the last signers and the one rising queue  *)
(* of works no later block undercuts.  The midstate relay: a run that      *)
(* extends it leaves one chain of linked headers, its change can be        *)
(* applied to the tables and taken back, and the bonds it does not revoke  *)
(* stay proven.  Then apply_batch along a chain: a sound chain is one whose*)
(* every block applies to the replay of those before it; its state holds   *)
(* the chain's own windows, a linked relay and proven bonds.               *)
(*                                                                         *)
(* Last the tables.  Book(c) is what storing the chain c block by block    *)
(* leaves; the invariant (StoreInv) is that the stored chain is sound, the *)
(* tip its replay, the tables its book and the undo records recent enough. *)
(* From it follow the properties of ChainStore and that it implements      *)
(* ReplayedChain.                                                          *)
(*                                                                         *)
(* And what is built on that chain (Template, Producer): sums over sets of *)
(* transactions and how a total is split, the run a block relays, who signs*)
(* it, and that the block every producer makes has the effects apply_batch *)
(* works out from it, so that it applies.                                  *)
(***************************************************************************)
EXTENDS Producer, FiniteFacts, SequenceTheorems

Places(sg, lo, hi, s) == {i \in lo..hi : sg[i] = s}
Who(sg, lo, hi) == {sg[i] : i \in lo..hi} \ {NoSigner}
CountsOf(sg, lo, hi) == [s \in Who(sg, lo, hi) |-> Cardinality(Places(sg, lo, hi, s))]
WindowOf(sg, lo, hi) == [recent |-> SubSeq(sg, lo, hi), counts |-> CountsOf(sg, lo, hi)]

\* How often a signer stands in a range of the column.
LEMMA PlacesFinite ==
    ASSUME NEW sg, NEW lo \in Int, NEW hi \in Int, NEW s
    PROVE  /\ IsFiniteSet(Places(sg, lo, hi, s))
           /\ Cardinality(Places(sg, lo, hi, s)) \in Nat
           /\ Places(sg, lo, hi, s) = {} <=> s \notin {sg[i] : i \in lo..hi}
           /\ Places(sg, lo, hi, s) = {} <=> Cardinality(Places(sg, lo, hi, s)) = 0
<1>1. IsFiniteSet(lo..hi)
  BY FS_Interval
<1>2. Places(sg, lo, hi, s) \subseteq lo..hi
  BY DEF Places
<1>3. IsFiniteSet(Places(sg, lo, hi, s))
  BY <1>1, <1>2, FS_Subset
<1>4. /\ Cardinality(Places(sg, lo, hi, s)) \in Nat
      /\ Places(sg, lo, hi, s) = {} <=> Cardinality(Places(sg, lo, hi, s)) = 0
  BY <1>3, FS_CardinalityType, FS_EmptySet
<1>5. Places(sg, lo, hi, s) = {} <=> s \notin {sg[i] : i \in lo..hi}
  BY DEF Places
<1> QED BY <1>3, <1>4, <1>5

\* A range grown by a block, and one that lost its oldest.
LEMMA OneMore ==
    ASSUME NEW sg, NEW lo \in Int, NEW hi \in Int, lo <= hi + 1, NEW s
    PROVE  Cardinality(Places(sg, lo, hi + 1, s))
             = Cardinality(Places(sg, lo, hi, s)) + (IF sg[hi + 1] = s THEN 1 ELSE 0)
<1>1. CASE sg[hi + 1] = s
  <2>1. Places(sg, lo, hi + 1, s) = Places(sg, lo, hi, s) \cup {hi + 1}
    BY <1>1 DEF Places
  <2>2. hi + 1 \notin Places(sg, lo, hi, s)
    BY DEF Places
  <2>3. PICK S : S = Places(sg, lo, hi, s)
    OBVIOUS
  <2>4. IsFiniteSet(S) /\ hi + 1 \notin S
    BY <2>2, <2>3, PlacesFinite
  <2>5. Cardinality(S \cup {hi + 1}) = Cardinality(S) + 1
    BY <2>4, FS_AddElement
  <2> QED BY <1>1, <2>1, <2>3, <2>5
<1>2. CASE sg[hi + 1] # s
  <2>1. Places(sg, lo, hi + 1, s) = Places(sg, lo, hi, s)
    BY <1>2 DEF Places
  <2>2. Cardinality(Places(sg, lo, hi, s)) \in Nat
    BY PlacesFinite
  <2> QED BY <1>2, <2>1, <2>2
<1> QED BY <1>1, <1>2

\* The same at the range's other end.
LEMMA OneLess ==
    ASSUME NEW sg, NEW lo \in Int, NEW hi \in Int, lo <= hi, NEW s
    PROVE  Cardinality(Places(sg, lo, hi, s))
             = Cardinality(Places(sg, lo + 1, hi, s)) + (IF sg[lo] = s THEN 1 ELSE 0)
<1>1. CASE sg[lo] = s
  <2>1. Places(sg, lo, hi, s) = Places(sg, lo + 1, hi, s) \cup {lo}
    BY <1>1 DEF Places
  <2>2. lo \notin Places(sg, lo + 1, hi, s)
    BY DEF Places
  <2>3. lo + 1 \in Int
    OBVIOUS
  <2>4. IsFiniteSet(Places(sg, lo + 1, hi, s))
    BY <2>3, PlacesFinite
  <2> QED BY <1>1, <2>1, <2>2, <2>4, FS_AddElement
<1>2. CASE sg[lo] # s
  <2>1. Places(sg, lo, hi, s) = Places(sg, lo + 1, hi, s)
    BY <1>2 DEF Places
  <2> QED BY <1>2, <2>1, PlacesFinite
<1> QED BY <1>1, <1>2

\* Counting a block in (Counted) gives the counts of the longer range.
LEMMA CountsMore ==
    ASSUME NEW sg, NEW lo \in Int, NEW hi \in Int, lo <= hi + 1
    PROVE  CountsOf(sg, lo, hi + 1)
             = IF sg[hi + 1] = NoSigner THEN CountsOf(sg, lo, hi)
               ELSE Counted(CountsOf(sg, lo, hi), sg[hi + 1])
<1>1. PICK s : s = sg[hi + 1]
  OBVIOUS
<1>2. {sg[i] : i \in lo..(hi + 1)} = {sg[i] : i \in lo..hi} \cup {s}
  BY <1>1
<1>3. CASE s = NoSigner
  <2>1. Who(sg, lo, hi + 1) = Who(sg, lo, hi)
    BY <1>2, <1>3 DEF Who
  <2>2. ASSUME NEW x \in Who(sg, lo, hi)
        PROVE  Cardinality(Places(sg, lo, hi + 1, x)) = Cardinality(Places(sg, lo, hi, x))
    <3>1. x # s
      BY <1>3 DEF Who
    <3>2. Cardinality(Places(sg, lo, hi, x)) \in Nat
      BY PlacesFinite
    <3> QED BY <1>1, <3>1, <3>2, OneMore
  <2> QED BY <1>1, <1>3, <2>1, <2>2 DEF CountsOf
<1>4. CASE s # NoSigner
  <2>1. Who(sg, lo, hi + 1) = Who(sg, lo, hi) \cup {s}
    BY <1>2, <1>4 DEF Who
  <2>2. ASSUME NEW x \in Who(sg, lo, hi + 1)
        PROVE  Cardinality(Places(sg, lo, hi + 1, x))
                 = CountOf(CountsOf(sg, lo, hi), x) + (IF x = s THEN 1 ELSE 0)
    <3>1. CountOf(CountsOf(sg, lo, hi), x) = Cardinality(Places(sg, lo, hi, x))
      <4>1. x \in Who(sg, lo, hi) \/ Cardinality(Places(sg, lo, hi, x)) = 0
        BY PlacesFinite, <2>2 DEF Who
      <4>2. x \notin Who(sg, lo, hi) => Cardinality(Places(sg, lo, hi, x)) = 0
        BY <4>1
      <4> QED BY <4>2 DEF CountOf, CountsOf
    <3> QED BY <3>1, OneMore, <1>1
  <2> QED BY <1>1, <1>4, <2>1, <2>2 DEF CountsOf, Counted
<1> QED BY <1>3, <1>4

\* Forgetting the oldest block (Uncounted) gives those of the shorter.
LEMMA CountsLess ==
    ASSUME NEW sg, NEW lo \in Int, NEW hi \in Int, lo <= hi
    PROVE  CountsOf(sg, lo + 1, hi)
             = IF sg[lo] = NoSigner THEN CountsOf(sg, lo, hi)
               ELSE Uncounted(CountsOf(sg, lo, hi), sg[lo])
<1>1. PICK s : s = sg[lo]
  OBVIOUS
<1>2. {sg[i] : i \in lo..hi} = {sg[i] : i \in (lo + 1)..hi} \cup {s}
  BY <1>1
<1>3. CASE s = NoSigner
  <2>1. Who(sg, lo + 1, hi) = Who(sg, lo, hi)
    BY <1>2, <1>3 DEF Who
  <2>2. ASSUME NEW x \in Who(sg, lo, hi)
        PROVE  Cardinality(Places(sg, lo + 1, hi, x)) = Cardinality(Places(sg, lo, hi, x))
    <3>1. x # s
      BY <1>3 DEF Who
    <3>2. Cardinality(Places(sg, lo + 1, hi, x)) \in Nat
      BY PlacesFinite, lo + 1 \in Int
    <3> QED BY <1>1, <3>1, <3>2, OneLess
  <2> QED BY <1>1, <1>3, <2>1, <2>2 DEF CountsOf
<1>4. CASE s # NoSigner
  <2> DEFINE counts == CountsOf(sg, lo, hi)
  <2>1. Who(sg, lo, hi) = Who(sg, lo + 1, hi) \cup {s}
    BY <1>2, <1>4 DEF Who
  <2>2. \A x \in Who(sg, lo, hi) : counts[x] = Cardinality(Places(sg, lo, hi, x))
    BY DEF CountsOf
  <2>3. ASSUME NEW x
        PROVE  Cardinality(Places(sg, lo, hi, x))
                 = Cardinality(Places(sg, lo + 1, hi, x)) + (IF x = s THEN 1 ELSE 0)
    <3>1. Cardinality(Places(sg, lo, hi, x))
            = Cardinality(Places(sg, lo + 1, hi, x)) + (IF sg[lo] = x THEN 1 ELSE 0)
      BY OneLess
    <3>2. CASE x = s
      BY <1>1, <3>1, <3>2
    <3>3. CASE x # s
      BY <1>1, <3>1, <3>3
    <3> QED BY <3>2, <3>3
  <2>4. \A x : Cardinality(Places(sg, lo + 1, hi, x)) \in Nat
    BY PlacesFinite
  <2>5. s \in Who(sg, lo + 1, hi) <=> Cardinality(Places(sg, lo + 1, hi, s)) # 0
    BY <1>4, PlacesFinite DEF Who
  <2>6. Who(sg, lo + 1, hi) = {y \in Who(sg, lo, hi) : y # s \/ counts[y] > 1}
    <3>1. s \in Who(sg, lo + 1, hi) <=> counts[s] > 1
      <4>1. counts[s] = Cardinality(Places(sg, lo + 1, hi, s)) + 1
        BY <2>1, <2>2, <2>3
      <4> QED BY <4>1, <2>4, <2>5
    <3> HIDE DEF counts
    <3> QED BY <2>1, <3>1
  <2>7. DOMAIN counts = Who(sg, lo, hi)
    BY DEF CountsOf
  <2>8. \A x \in Who(sg, lo + 1, hi) :
           counts[x] - (IF x = s THEN 1 ELSE 0) = Cardinality(Places(sg, lo + 1, hi, x))
    <3> HIDE DEF counts
    <3> TAKE x \in Who(sg, lo + 1, hi)
    <3>1. counts[x] = Cardinality(Places(sg, lo + 1, hi, x)) + (IF x = s THEN 1 ELSE 0)
      BY <2>1, <2>2, <2>3
    <3> QED BY <3>1, <2>4
  <2>9. CountsOf(sg, lo + 1, hi) = Uncounted(counts, s)
    <3> HIDE DEF counts
    <3> QED BY <2>6, <2>7, <2>8 DEF CountsOf, Uncounted
  <2> QED BY <1>1, <1>4, <2>9
<1> QED BY <1>3, <1>4

\* credit_in_window: the window kept block by block is the last CapWindow
\* places of the signers' column.
LEMMA WindowStep ==
    ASSUME CapWindow \in Nat \ {0}, NEW D, NEW sg \in Seq(D),
           NEW lo \in Nat \ {0}, NEW hi \in Nat,
           lo <= hi + 1, hi + 1 <= Len(sg), hi + 1 - lo <= CapWindow
    PROVE  Recorded(WindowOf(sg, lo, hi), sg[hi + 1])
             = WindowOf(sg, IF hi + 2 - lo <= CapWindow THEN lo ELSE lo + 1, hi + 1)
<1>1. Append(SubSeq(sg, lo, hi), sg[hi + 1]) = SubSeq(sg, lo, hi + 1)
  OBVIOUS
<1>2. Len(SubSeq(sg, lo, hi + 1)) = hi + 2 - lo
  OBVIOUS
<1>3. PICK q : q = SubSeq(sg, lo, hi + 1)
  OBVIOUS
<1>4. Recorded(WindowOf(sg, lo, hi), sg[hi + 1])
        = IF Len(q) <= CapWindow THEN [recent |-> q, counts |-> CountsOf(sg, lo, hi + 1)]
          ELSE [recent |-> Tail(q),
                counts |-> IF Head(q) = NoSigner THEN CountsOf(sg, lo, hi + 1)
                           ELSE Uncounted(CountsOf(sg, lo, hi + 1), Head(q))]
  <2>1. CountsOf(sg, lo, hi + 1)
          = IF sg[hi + 1] = NoSigner THEN CountsOf(sg, lo, hi)
            ELSE Counted(CountsOf(sg, lo, hi), sg[hi + 1])
    BY CountsMore
  <2>2. WindowOf(sg, lo, hi).recent = SubSeq(sg, lo, hi)
        /\ WindowOf(sg, lo, hi).counts = CountsOf(sg, lo, hi)
    BY DEF WindowOf
  <2> QED BY <1>1, <1>3, <2>1, <2>2, Zenon DEF Recorded
<1>5. CASE hi + 2 - lo <= CapWindow
  BY <1>2, <1>3, <1>4, <1>5 DEF WindowOf
<1>6. CASE ~(hi + 2 - lo <= CapWindow)
  <2>1. lo <= hi + 1 /\ lo <= hi
    BY <1>6
  <2>2. Head(q) = sg[lo] /\ Tail(q) = SubSeq(sg, lo + 1, hi + 1)
    BY <1>3, <2>1
  <2>3. CountsOf(sg, lo + 1, hi + 1)
          = IF sg[lo] = NoSigner THEN CountsOf(sg, lo, hi + 1)
            ELSE Uncounted(CountsOf(sg, lo, hi + 1), sg[lo])
    BY CountsLess
  <2>4. ~(Len(q) <= CapWindow)
    BY <1>2, <1>3, <1>6
  <2>5. WindowOf(sg, lo + 1, hi + 1)
          = [recent |-> SubSeq(sg, lo + 1, hi + 1), counts |-> CountsOf(sg, lo + 1, hi + 1)]
    BY DEF WindowOf
  <2>6. Recorded(WindowOf(sg, lo, hi), sg[hi + 1]) = WindowOf(sg, lo + 1, hi + 1)
    BY <1>4, <2>2, <2>3, <2>4, <2>5, Zenon
  <2> QED BY <1>6, <2>6
<1> QED BY <1>5, <1>6

\* Rebuilding the window from the signers it holds gives the window kept block
\* by block.
LEMMA RebuiltWindow ==
    ASSUME CapWindow \in Nat \ {0}, NEW D, NEW sg \in Seq(D), Len(sg) <= CapWindow
    PROVE  RebuiltSigners(sg) = WindowOf(sg, 1, Len(sg))
<1> DEFINE Step(f) == [n \in 0..Len(sg) |->
                         IF n = 0 THEN EmptyWindow ELSE Recorded(f[n - 1], sg[n])]
           g == [n \in 0..Len(sg) |-> WindowOf(sg, 1, n)]
<1>0. Len(sg) \in Nat
  OBVIOUS
<1>1. WindowOf(sg, 1, 0) = EmptyWindow
  <2>1. CountsOf(sg, 1, 0) = <<>>
    BY DEF CountsOf, Who
  <2>2. SubSeq(sg, 1, 0) = <<>>
    OBVIOUS
  <2> QED BY <2>1, <2>2 DEF WindowOf, EmptyWindow
<1>2. ASSUME NEW n \in 1..Len(sg)
      PROVE  Recorded(WindowOf(sg, 1, n - 1), sg[n]) = WindowOf(sg, 1, n)
  <2>1. PICK m \in Nat : n = m + 1
    BY <1>0
  <2>2. 1 <= m + 1 /\ m + 1 <= Len(sg) /\ m + 1 - 1 <= CapWindow /\ m + 2 - 1 <= CapWindow
    BY <2>1
  <2>3. Recorded(WindowOf(sg, 1, m), sg[m + 1])
          = WindowOf(sg, IF m + 2 - 1 <= CapWindow THEN 1 ELSE 1 + 1, m + 1)
    BY <2>2, WindowStep
  <2> QED BY <2>1, <2>2, <2>3
<1>3. g = Step(g)
  <2>1. ASSUME NEW n \in 0..Len(sg) PROVE g[n] = Step(g)[n]
    <3>1. CASE n = 0
      BY <3>1, <1>1
    <3>2. CASE n # 0
      <4>1. n \in 1..Len(sg) /\ n - 1 \in 0..Len(sg)
        BY <1>0, <3>2
      <4> QED BY <3>2, <4>1, <1>2
    <3> QED BY <3>1, <3>2
  <2> QED BY <2>1
<1>4. PICK f : f = (CHOOSE after : after = Step(after))
  OBVIOUS
<1>5. f = Step(f)
  BY <1>3, <1>4
<1>6. RebuiltSigners(sg) = f[Len(sg)]
  BY <1>4 DEF RebuiltSigners
<1>7. ASSUME NEW n \in Nat, n + 1 <= Len(sg), f[n] = g[n] PROVE f[n + 1] = g[n + 1]
  <2>1. n + 1 \in 1..Len(sg) /\ (n + 1) - 1 = n /\ n + 1 \in 0..Len(sg) /\ n + 1 # 0
        /\ n \in 0..Len(sg)
    BY <1>7, <1>0
  <2>2. f[n + 1] = Recorded(f[n], sg[n + 1])
    BY <2>1, <1>5
  <2> QED BY <1>7, <2>1, <2>2, <1>2
<1>8. f[0] = g[0]
  BY <1>0, <1>1, <1>5
<1>9. \A n \in 0..Len(sg) : f[n] = g[n]
  <2> HIDE DEF g
  <2>1. AgreeOn(f, g, Len(sg))
    BY <1>7, <1>8 DEF AgreeOn
  <2> QED BY <1>0, <2>1, SameFunction DEF Agree
<1> QED BY <1>0, <1>6, <1>9

------------------------------------------------------------------------------
Entries == [height : Nat, work : Nat]

\* Heights of lo..(hi - 1) that no later block undercuts, W[h] their work.
NotUndercut(W, lo, hi) == {j \in lo..(hi - 1) : \A m \in (j + 1)..(hi - 1) : W[j] < W[m]}
Rises(low) == \A i, j \in 1..Len(low) : i < j => low[i].height < low[j].height
Enumerates(low, W, lo, hi) ==
    /\ low \in Seq(Entries) /\ Rises(low)
    /\ \A i \in 1..Len(low) : low[i].work = W[low[i].height]
    /\ {low[i].height : i \in 1..Len(low)} = NotUndercut(W, lo, hi)

\* The entries of a floor queue have heights and works.
LEMMA EntryFields ==
    ASSUME NEW low \in Seq(Entries), NEW i \in 1..Len(low)
    PROVE  low[i] \in Entries /\ low[i].height \in Nat /\ low[i].work \in Nat
<1>1. low[i] \in Entries
  BY ElementOfSeq
<1> QED BY <1>1 DEF Entries

\* Of two rising sequences of the same heights neither is longer, and they
\* agree place by place.
LEMMA NoLonger ==
    ASSUME NEW a \in Seq(Entries), NEW b \in Seq(Entries), Rises(a), Rises(b),
           {a[i].height : i \in 1..Len(a)} = {b[i].height : i \in 1..Len(b)}
    PROVE  /\ Len(a) <= Len(b)
           /\ \A n \in 1..Len(a) : a[n].height = b[n].height
<1>0. Len(a) \in Nat /\ Len(b) \in Nat
      /\ (\A n \in 1..Len(a) : a[n].height \in Nat)
      /\ (\A n \in 1..Len(b) : b[n].height \in Nat)
  <2>1. \A n \in 1..Len(a) : a[n] \in Entries
    BY ElementOfSeq
  <2>2. \A n \in 1..Len(b) : b[n] \in Entries
    BY ElementOfSeq
  <2> QED BY <2>1, <2>2, LenProperties DEF Entries
<1> DEFINE T == {n \in 1..Len(a) : ~(n <= Len(b) /\ a[n].height = b[n].height)}
<1>1. ASSUME T # {} PROVE FALSE
  <2>1. T \subseteq Nat
    OBVIOUS
  <2>2. PICK n \in T : \A m \in T : n <= m
    <3> HIDE DEF T
    <3> QED BY <1>1, <2>1, LeastExists
  <2>3. n \in 1..Len(a) /\ n \in Nat
    OBVIOUS
  <2>4. \A i \in 1..(n - 1) : i \in 1..Len(a) /\ i <= Len(b) /\ a[i].height = b[i].height
    <3> TAKE i \in 1..(n - 1)
    <3>1. i \in 1..Len(a) /\ ~(n <= i)
      BY <1>0, <2>3
    <3>2. i \notin T
      BY <2>2, <3>1
    <3> QED BY <3>1, <3>2
  <2>5. PICK k \in 1..Len(b) : b[k].height = a[n].height
    BY <2>3
  <2>6. n <= k
    <3>1. SUFFICES ASSUME k < n PROVE FALSE
      BY <1>0, <2>3
    <3>2. k \in 1..(n - 1)
      BY <3>1, <2>3, <1>0
    <3>3. a[k].height = a[n].height /\ a[k].height < a[n].height
      BY <2>3, <2>4, <2>5, <3>1, <3>2 DEF Rises
    <3> QED BY <3>3, <1>0, <2>3
  <2>7. n \in 1..Len(b)
    BY <2>6, <2>3, <1>0
  <2>8. b[n].height <= a[n].height
    BY <1>0, <2>3, <2>5, <2>6, <2>7 DEF Rises
  <2>9. PICK l \in 1..Len(a) : a[l].height = b[n].height
    BY <2>7
  <2>10. n <= l
    <3>1. SUFFICES ASSUME l < n PROVE FALSE
      BY <1>0, <2>3
    <3>2. l \in 1..(n - 1)
      BY <3>1, <2>3, <1>0
    <3>3. b[l].height = b[n].height /\ b[l].height < b[n].height
      BY <2>3, <2>4, <2>7, <2>9, <3>1, <3>2, <1>0 DEF Rises
    <3> QED BY <3>3, <1>0, <2>7
  <2>11. a[n].height <= b[n].height
    BY <1>0, <2>3, <2>9, <2>10 DEF Rises
  <2>12. a[n].height = b[n].height
    BY <1>0, <2>3, <2>7, <2>8, <2>11
  <2> QED BY <2>7, <2>12
<1>2. \A n \in 1..Len(a) : n <= Len(b) /\ a[n].height = b[n].height
  BY <1>1
<1>3. Len(a) <= Len(b)
  <2>1. CASE Len(a) = 0
    BY <2>1, <1>0
  <2>2. CASE Len(a) # 0
    <3>1. Len(a) \in 1..Len(a)
      BY <2>2, <1>0
    <3> QED BY <3>1, <1>2
  <2> QED BY <2>1, <2>2
<1> QED BY <1>2, <1>3

\* There is one floor queue for a range of works.
LEMMA OneEnumeration ==
    ASSUME NEW W, NEW lo, NEW hi, NEW a, NEW b,
           Enumerates(a, W, lo, hi), Enumerates(b, W, lo, hi)
    PROVE  a = b
<1>1. Len(a) <= Len(b) /\ \A n \in 1..Len(a) : a[n].height = b[n].height
  BY NoLonger DEF Enumerates
<1>2. Len(b) <= Len(a)
  BY NoLonger DEF Enumerates
<1>3. a \in Seq(Entries) /\ b \in Seq(Entries) /\ Len(a) \in Nat /\ Len(b) \in Nat
  BY DEF Enumerates
<1>4. Len(a) = Len(b)
  BY <1>1, <1>2, <1>3
<1>5. ASSUME NEW n \in 1..Len(a) PROVE a[n] = b[n]
  <2>1. a[n] \in Entries /\ b[n] \in Entries
    BY <1>3, <1>4, ElementOfSeq
  <2>2. a[n].height = b[n].height /\ a[n].work = b[n].work
    BY <1>1, <1>4, <1>5 DEF Enumerates
  <2> QED BY <2>1, <2>2 DEF Entries
<1> QED BY <1>3, <1>4, <1>5

\* A part of the sequence, from one of its places on or up to one.
LEMMA TailRises ==
    ASSUME NEW low \in Seq(Entries), Rises(low), NEW m \in 1..Len(low)
    PROVE  /\ SubSeq(low, m, Len(low)) \in Seq(Entries)
           /\ Rises(SubSeq(low, m, Len(low)))
           /\ Len(SubSeq(low, m, Len(low))) = Len(low) - m + 1
           /\ \A i \in 1..(Len(low) - m + 1) :
                 SubSeq(low, m, Len(low))[i] = low[m + i - 1]
<1>0. Len(low) \in Nat /\ m \in Nat /\ 1 <= m /\ m <= Len(low)
  BY LenProperties
<1>1. PICK s : s = SubSeq(low, m, Len(low))
  OBVIOUS
<1>2. s \in Seq(Entries) /\ Len(s) = Len(low) - m + 1
      /\ \A i \in 1..(Len(low) - m + 1) : s[i] = low[m + i - 1]
  BY <1>0, <1>1, SubSeqProperties
<1>3. ASSUME NEW i \in 1..Len(s), NEW j \in 1..Len(s), i < j
      PROVE  s[i].height < s[j].height
  <2>1. m + i - 1 \in 1..Len(low) /\ m + j - 1 \in 1..Len(low) /\ m + i - 1 < m + j - 1
    BY <1>0, <1>2, <1>3
  <2>2. s[i] = low[m + i - 1] /\ s[j] = low[m + j - 1]
    BY <1>2
  <2> QED BY <2>1, <2>2 DEF Rises
<1> QED BY <1>1, <1>2, <1>3 DEF Rises

\* The same for its front.
LEMMA FrontRises ==
    ASSUME NEW low \in Seq(Entries), Rises(low), NEW m \in 0..Len(low)
    PROVE  /\ SubSeq(low, 1, m) \in Seq(Entries) /\ Rises(SubSeq(low, 1, m))
           /\ Len(SubSeq(low, 1, m)) = m
           /\ \A i \in 1..m : SubSeq(low, 1, m)[i] = low[i]
<1>0. Len(low) \in Nat /\ m \in Nat /\ m <= Len(low)
  BY LenProperties
<1>1. PICK s : s = SubSeq(low, 1, m)
  OBVIOUS
<1>2. s \in Seq(Entries) /\ Len(s) = m /\ \A i \in 1..m : s[i] = low[i]
  BY <1>0, <1>1, SubSeqProperties
<1>3. \A i \in 1..m : i \in 1..Len(low)
  BY <1>0
<1> QED BY <1>1, <1>2, <1>3 DEF Rises

\* What leaves the window leaves it at the front.
LEMMA KeptEnumerates ==
    ASSUME WorkCapWindow \in Nat, NEW W, NEW lo \in Nat, NEW hi \in Nat, NEW low,
           Enumerates(low, W, lo, hi), NEW h \in Nat
    PROVE  Enumerates(KeptWindow(low, h), W, Most(lo, Less(h, WorkCapWindow)), hi)
<1>1. PICK cut : cut = Less(h, WorkCapWindow)
  OBVIOUS
<1>2. cut \in Nat
  BY <1>1 DEF Less, Most
<1>3. low \in Seq(Entries) /\ Len(low) \in Nat /\ Rises(low)
  BY DEF Enumerates
<1>4. \A i \in 1..Len(low) : low[i].height \in Nat
  BY <1>3, EntryFields
<1>5. NotUndercut(W, Most(lo, cut), hi) = {j \in NotUndercut(W, lo, hi) : cut <= j}
  BY <1>2 DEF NotUndercut, Most
<1>6. PICK kept : kept = {i \in 1..Len(low) : low[i].height >= cut}
  OBVIOUS
<1>7. KeptWindow(low, h) = IF kept = {} THEN <<>> ELSE SubSeq(low, Min(kept), Len(low))
  BY <1>1, <1>6 DEF KeptWindow
<1>8. CASE kept = {}
  <2>1. {j \in NotUndercut(W, lo, hi) : cut <= j} = {}
    BY <1>2, <1>4, <1>6, <1>8 DEF Enumerates
  <2>2. Enumerates(<<>>, W, Most(lo, cut), hi)
    BY <2>1, <1>5 DEF Enumerates, Rises
  <2> QED BY <1>1, <1>7, <1>8, <2>2
<1>9. CASE kept # {}
  <2>1. PICK m \in kept : \A i \in kept : m <= i
    <3>1. kept \subseteq Nat
      BY <1>6
    <3> QED BY <3>1, <1>9, LeastExists
  <2>2. Min(kept) = m
    BY <2>1, <1>6 DEF Min
  <2>3. m \in 1..Len(low) /\ low[m].height >= cut
    BY <1>6
  <2>4. PICK s : s = SubSeq(low, m, Len(low))
    OBVIOUS
  <2>5. s \in Seq(Entries) /\ Rises(s) /\ Len(s) = Len(low) - m + 1
        /\ \A i \in 1..(Len(low) - m + 1) : s[i] = low[m + i - 1]
    BY <1>3, <2>3, <2>4, TailRises
  <2>6. \A i \in 1..Len(low) : low[i].height >= cut <=> m <= i
    <3> TAKE i \in 1..Len(low)
    <3>1. low[i].height >= cut => m <= i
      BY <1>6, <2>1
    <3>2. m <= i => low[m].height <= low[i].height
      BY <1>3, <1>4, <2>3 DEF Rises
    <3> QED BY <3>1, <3>2, <2>3, <1>2, <1>4
  <2>7. {s[i].height : i \in 1..Len(s)} = {j \in NotUndercut(W, lo, hi) : cut <= j}
    <3>1. ASSUME NEW i \in 1..Len(s)
          PROVE  m + i - 1 \in 1..Len(low) /\ s[i] = low[m + i - 1] /\ m <= m + i - 1
      BY <1>3, <2>3, <2>5
    <3>2. ASSUME NEW i \in 1..Len(low), m <= i
          PROVE  i - m + 1 \in 1..Len(s) /\ s[i - m + 1] = low[i]
      <4>1. i - m + 1 \in 1..Len(s) /\ m + (i - m + 1) - 1 = i
        BY <1>3, <2>3, <2>5, <3>2
      <4> QED BY <4>1, <2>5
    <3>3. {low[i].height : i \in 1..Len(low)} = NotUndercut(W, lo, hi)
      BY DEF Enumerates
    <3>4. ASSUME NEW i \in 1..Len(s)
          PROVE  s[i].height \in NotUndercut(W, lo, hi) /\ cut <= s[i].height
      <4>1. low[m + i - 1].height >= cut
        BY <3>1, <2>6
      <4> QED BY <4>1, <3>1, <3>3, <1>2, <1>4
    <3>5. ASSUME NEW j \in NotUndercut(W, lo, hi), cut <= j
          PROVE  \E i \in 1..Len(s) : s[i].height = j
      <4>1. PICK i \in 1..Len(low) : low[i].height = j
        BY <3>3
      <4>2. m <= i
        BY <4>1, <2>6, <3>5, <1>2, <1>4
      <4> QED BY <4>1, <4>2, <3>2
    <3> QED BY <3>4, <3>5
  <2>8. \A i \in 1..Len(s) : s[i].work = W[s[i].height]
    <3> TAKE i \in 1..Len(s)
    <3>1. m + i - 1 \in 1..Len(low) /\ s[i] = low[m + i - 1]
      BY <1>3, <2>3, <2>5
    <3> QED BY <3>1 DEF Enumerates
  <2>9. Enumerates(s, W, Most(lo, cut), hi)
    BY <1>5, <2>5, <2>7, <2>8 DEF Enumerates
  <2> QED BY <1>1, <1>7, <1>9, <2>2, <2>4, <2>9
<1> QED BY <1>8, <1>9

\* Along the queue the works rise.
LEMMA WorkRises ==
    ASSUME NEW W, NEW lo \in Nat, NEW hi \in Nat, NEW low, Enumerates(low, W, lo, hi),
           NEW i \in 1..Len(low), NEW j \in 1..Len(low), i < j
    PROVE  low[i].work < low[j].work
<1>1. low \in Seq(Entries) /\ low[i].height < low[j].height
  BY DEF Enumerates, Rises
<1>2. low[i].height \in NotUndercut(W, lo, hi) /\ low[j].height \in NotUndercut(W, lo, hi)
  BY DEF Enumerates
<1>3. low[i].height \in Nat /\ low[j].height \in (low[i].height + 1)..(hi - 1)
  BY <1>1, <1>2, EntryFields DEF NotUndercut
<1> QED BY <1>2, <1>3 DEF Enumerates, NotUndercut

\* A block of work w takes what it does not exceed out of the window.
LEMMA UndercutIs ==
    ASSUME NEW W, NEW lo \in Nat, NEW hi \in Nat, NEW low, Enumerates(low, W, lo, hi),
           NEW w \in Nat
    PROVE  \E m \in 0..Len(low) :
              /\ Undercut(low, w) = SubSeq(low, 1, m)
              /\ \A i \in 1..Len(low) : low[i].work < w <=> i <= m
<1>1. low \in Seq(Entries) /\ Len(low) \in Nat
  BY DEF Enumerates
<1>2. \A i \in 1..Len(low) : low[i].work \in Nat
  BY <1>1, EntryFields
<1> DEFINE below == {i \in 1..Len(low) : low[i].work < w}
<1>3. PICK n \in Nat : n <= Len(low) /\ (\A i \in below : i <= n) /\ (n = 0 \/ n \in below)
  <2> DEFINE T == {k \in 0..Len(low) : \A i \in below : i <= k}
  <2>1. Len(low) \in T
    BY <1>1
  <2>2. PICK n \in T : \A k \in T : n <= k
    <3> HIDE DEF T
    <3>1. T \subseteq Nat
      BY DEF T
    <3> QED BY <2>1, <3>1, LeastExists
  <2>3. n = 0 \/ n \in below
    <3>1. SUFFICES ASSUME n # 0, n \notin below PROVE FALSE
      OBVIOUS
    <3>2. n - 1 \in 0..Len(low)
      BY <3>1, <1>1, <2>2
    <3>3. \A i \in below : i <= n - 1
      BY <3>1, <1>1, <2>2
    <3>4. n - 1 \in T
      BY <3>2, <3>3
    <3>5. n <= n - 1
      <4> HIDE DEF T
      <4> QED BY <3>4, <2>2
    <3> QED BY <3>5, <2>2
  <2> QED BY <2>2, <2>3
<1>4. \A i \in 1..Len(low) : low[i].work < w <=> i <= n
  <2> TAKE i \in 1..Len(low)
  <2>1. low[i].work < w => i <= n
    BY <1>3
  <2>2. ASSUME i <= n PROVE low[i].work < w
    <3>1. n \in below /\ n \in 1..Len(low) /\ low[n].work < w
      BY <1>1, <1>3, <2>2
    <3>2. CASE i = n
      BY <3>1, <3>2
    <3>3. CASE i # n
      <4>1. i < n
        BY <2>2, <3>3, <1>3
      <4>2. low[i].work < low[n].work
        BY <3>1, <4>1, WorkRises
      <4> QED BY <1>2, <3>1, <4>2
    <3> QED BY <3>2, <3>3
  <2> QED BY <2>1, <2>2
<1>5. Max({0} \cup below) = n
  <2>1. n \in {0} \cup below /\ \A y \in {0} \cup below : n >= y
    BY <1>3
  <2>2. \A x \in {0} \cup below : x \in Nat
    BY <1>1
  <2>3. PICK all : all = {0} \cup below
    OBVIOUS
  <2>4. n \in all /\ (\A y \in all : n >= y) /\ (\A x \in all : x \in Nat)
    BY <2>1, <2>2, <2>3
  <2>5. Max(all) \in all /\ \A y \in all : Max(all) >= y
    BY <2>4 DEF Max
  <2>6. Max(all) = n
    <3>1. PICK x : x = Max(all)
      OBVIOUS
    <3>2. x \in Nat /\ n \in Nat /\ n >= x /\ x >= n
      BY <2>4, <2>5, <3>1
    <3> QED BY <3>1, <3>2
  <2> QED BY <2>3, <2>6
<1>6. Undercut(low, w) = SubSeq(low, 1, n)
  BY <1>5 DEF Undercut
<1>7. n \in 0..Len(low)
  BY <1>1, <1>3
<1> HIDE DEF below
<1> QED BY <1>4, <1>6, <1>7

\* Taking a block into the queue: what it undercuts goes, it comes last.
LEMMA UndercutEnumerates ==
    ASSUME NEW W, NEW lo \in Nat, NEW h \in Nat, lo <= h, NEW low,
           Enumerates(low, W, lo, h), \A j \in lo..h : W[j] \in Nat
    PROVE  Enumerates(Append(Undercut(low, W[h]), [height |-> h, work |-> W[h]]),
                      W, lo, h + 1)
<1>1. PICK w : w = W[h]
  OBVIOUS
<1>2. w \in Nat
  BY <1>1
<1>3. PICK m \in 0..Len(low) :
         /\ Undercut(low, w) = SubSeq(low, 1, m)
         /\ \A i \in 1..Len(low) : low[i].work < w <=> i <= m
  BY <1>2, UndercutIs
<1>4. low \in Seq(Entries) /\ Len(low) \in Nat /\ Rises(low) /\ m \in Nat
  BY DEF Enumerates
<1>5. PICK u : u = SubSeq(low, 1, m)
  OBVIOUS
<1>6. u \in Seq(Entries) /\ Rises(u) /\ Len(u) = m /\ \A i \in 1..m : u[i] = low[i]
  BY <1>4, <1>5, FrontRises
<1>7. PICK e : e = [height |-> h, work |-> w]
  OBVIOUS
<1>8. e \in Entries /\ e.height = h /\ e.work = w
  BY <1>2, <1>7 DEF Entries
<1>9. PICK a : a = Append(u, e)
  OBVIOUS
<1>10. a \in Seq(Entries) /\ Len(a) = m + 1 /\ a[m + 1] = e /\ \A i \in 1..m : a[i] = u[i]
  BY <1>6, <1>8, <1>9, AppendProperties
<1>11. {low[i].height : i \in 1..Len(low)} = NotUndercut(W, lo, h)
       /\ \A i \in 1..Len(low) : low[i].work = W[low[i].height]
  BY DEF Enumerates
<1>12. \A i \in 1..m : i \in 1..Len(low) /\ a[i] = low[i] /\ low[i].height \in lo..(h - 1)
  <2> TAKE i \in 1..m
  <2>1. i \in 1..Len(low)
    BY <1>4
  <2>2. low[i].height \in NotUndercut(W, lo, h)
    BY <2>1, <1>11
  <2> QED BY <2>1, <2>2, <1>6, <1>10 DEF NotUndercut
<1>13. Rises(a)
  <2>1. ASSUME NEW i \in 1..Len(a), NEW j \in 1..Len(a), i < j
        PROVE  a[i].height < a[j].height
    <3>1. i \in 1..m
      BY <1>4, <1>10, <2>1
    <3>2. CASE j = m + 1
      BY <3>1, <3>2, <1>8, <1>10, <1>12
    <3>3. CASE j # m + 1
      <4>1. j \in 1..m
        BY <3>3, <1>4, <1>10
      <4> QED BY <2>1, <3>1, <4>1, <1>4, <1>12 DEF Rises
    <3> QED BY <3>2, <3>3
  <2> QED BY <2>1 DEF Rises
<1>14. NotUndercut(W, lo, h + 1) = {j \in NotUndercut(W, lo, h) : W[j] < w} \cup {h}
  <2>1. ASSUME NEW j \in NotUndercut(W, lo, h), W[j] < w
        PROVE  j \in NotUndercut(W, lo, h + 1)
    <3>1. ASSUME NEW k \in (j + 1)..(h + 1 - 1) PROVE W[j] < W[k]
      <4>1. CASE k = h
        BY <4>1, <2>1, <1>1
      <4>2. CASE k # h
        <5>1. k \in (j + 1)..(h - 1)
          BY <4>2, <3>1 DEF NotUndercut
        <5> QED BY <5>1 DEF NotUndercut
      <4> QED BY <4>1, <4>2
    <3> QED BY <3>1 DEF NotUndercut
  <2>2. h \in NotUndercut(W, lo, h + 1)
    BY DEF NotUndercut
  <2>3. ASSUME NEW j \in NotUndercut(W, lo, h + 1), j # h
        PROVE  j \in NotUndercut(W, lo, h) /\ W[j] < w
    <3>1. j \in lo..(h - 1) /\ h \in (j + 1)..(h + 1 - 1)
      BY <2>3 DEF NotUndercut
    <3>2. W[j] < W[h]
      BY <3>1 DEF NotUndercut
    <3>3. \A k \in (j + 1)..(h - 1) : k \in (j + 1)..(h + 1 - 1)
      BY <3>1
    <3> QED BY <3>1, <3>2, <3>3, <1>1 DEF NotUndercut
  <2> QED BY <2>1, <2>2, <2>3
<1>15. {a[i].height : i \in 1..Len(a)} = NotUndercut(W, lo, h + 1)
  <2>1. ASSUME NEW i \in 1..Len(a) PROVE a[i].height \in NotUndercut(W, lo, h + 1)
    <3>1. CASE i = m + 1
      BY <3>1, <1>8, <1>10, <1>14
    <3>2. CASE i # m + 1
      <4>1. i \in 1..m /\ i <= m
        BY <3>2, <1>4, <1>10
      <4>2. i \in 1..Len(low) /\ a[i] = low[i] /\ low[i].work < w
        BY <4>1, <1>3, <1>12
      <4> QED BY <4>2, <1>11, <1>14
    <3> QED BY <3>1, <3>2
  <2>2. ASSUME NEW j \in NotUndercut(W, lo, h + 1) PROVE \E i \in 1..Len(a) : a[i].height = j
    <3>1. CASE j = h
      <4>1. m + 1 \in 1..Len(a)
        BY <1>4, <1>10
      <4> QED BY <3>1, <4>1, <1>8, <1>10
    <3>2. CASE j # h
      <4>1. j \in NotUndercut(W, lo, h) /\ W[j] < w
        BY <3>2, <1>14
      <4>2. PICK i \in 1..Len(low) : low[i].height = j
        BY <4>1, <1>11
      <4>3. i <= m
        BY <4>1, <4>2, <1>3, <1>11
      <4>4. i \in 1..m /\ i \in 1..Len(a)
        BY <4>3, <1>4, <1>10
      <4> QED BY <4>2, <4>4, <1>12
    <3> QED BY <3>1, <3>2
  <2> QED BY <2>1, <2>2
<1>16. \A i \in 1..Len(a) : a[i].work = W[a[i].height]
  <2> TAKE i \in 1..Len(a)
  <2>1. CASE i = m + 1
    BY <2>1, <1>1, <1>8, <1>10
  <2>2. CASE i # m + 1
    <3>1. i \in 1..m
      BY <2>2, <1>4, <1>10
    <3> QED BY <3>1, <1>11, <1>12
  <2> QED BY <2>1, <2>2
<1>17. Enumerates(a, W, lo, h + 1)
  BY <1>10, <1>13, <1>15, <1>16 DEF Enumerates
<1> QED BY <1>1, <1>3, <1>5, <1>7, <1>9, <1>17

\* cap_work keeps the window: the block's entry is added, the window moves on.
LEMMA FloorStep ==
    ASSUME WorkCapWindow \in Nat, NEW W, NEW lo \in Nat, NEW h \in Nat, lo <= h,
           NEW low, Enumerates(low, W, lo, h), \A j \in lo..h : W[j] \in Nat,
           Less(h, WorkCapWindow) <= lo
    PROVE  /\ KeptWindow(low, h) = low
           /\ Enumerates(CappedWindow(low, h, W[h]), W,
                         Most(lo, Less(h + 1, WorkCapWindow)), h + 1)
<1>1. Most(lo, Less(h, WorkCapWindow)) = lo
  BY DEF Most, Less
<1>2. Enumerates(KeptWindow(low, h), W, lo, h)
  BY <1>1, KeptEnumerates
<1>3. KeptWindow(low, h) = low
  BY <1>2, OneEnumeration
<1>4. Enumerates(Append(Undercut(low, W[h]), [height |-> h, work |-> W[h]]), W, lo, h + 1)
  BY UndercutEnumerates
<1>5. Enumerates(CappedWindow(low, h, W[h]), W, Most(lo, Less(h + 1, WorkCapWindow)), h + 1)
  BY <1>3, <1>4, KeptEnumerates, h + 1 \in Nat DEF CappedWindow
<1> QED BY <1>3, <1>5

\* The empty queue is that of the empty range.
LEMMA EmptyFloor ==
    ASSUME NEW W, NEW start \in Nat
    PROVE  Enumerates(<<>>, W, start, start)
<1>1. NotUndercut(W, start, start) = {}
  BY DEF NotUndercut
<1> QED BY <1>1 DEF Enumerates, Rises

\* Rebuilding the window from the works of the blocks it reaches back to gives
\* the one enumeration there is.
LEMMA RebuiltEnumerates ==
    ASSUME WorkCapWindow \in Nat, NEW W, NEW start \in Nat, NEW works \in Seq(Nat),
           Len(works) <= WorkCapWindow,
           \A n \in 1..Len(works) : works[n] = W[start + n - 1]
    PROVE  Enumerates(RebuiltFloor(start, works), W, start, start + Len(works))
<1> DEFINE N == Len(works)
           Step(x) == [n \in 0..N |-> IF n = 0 THEN <<>>
                         ELSE CappedWindow(x[n - 1], start + n - 1, works[n])]
           g == [n \in 0..N |-> CHOOSE low : Enumerates(low, W, start, start + n)]
<1>0. N \in Nat
  BY LenProperties
<1>1. ASSUME NEW n \in Nat, n + 1 <= N, NEW low, Enumerates(low, W, start, start + n)
      PROVE  Enumerates(CappedWindow(low, start + n, works[n + 1]), W, start, start + n + 1)
  <2>1. \A j \in start..(start + n) : W[j] \in Nat
    <3> TAKE j \in start..(start + n)
    <3>1. j - start + 1 \in 1..N /\ start + (j - start + 1) - 1 = j
      BY <1>0, <1>1
    <3>2. works[j - start + 1] \in Nat
      BY <3>1, ElementOfSeq
    <3> QED BY <3>1, <3>2
  <2>2. n + 1 \in 1..N /\ start + (n + 1) - 1 = start + n
    BY <1>0, <1>1
  <2>3. works[n + 1] = W[start + n]
    BY <2>2
  <2>4. start + n \in Nat /\ start <= start + n /\ Less(start + n, WorkCapWindow) <= start
        /\ Most(start, Less(start + n + 1, WorkCapWindow)) = start
    BY <1>0, <1>1 DEF Less, Most
  <2> QED BY <1>1, <2>1, <2>3, <2>4, FloorStep
<1>2. ASSUME NEW n \in 0..N PROVE Enumerates(g[n], W, start, start + n)
  <2> DEFINE S == {k \in Nat : k <= N => \E low : Enumerates(low, W, start, start + k)}
  <2>1. 0 \in S
    BY EmptyFloor
  <2>2. ASSUME NEW k \in Nat, k \in S PROVE k + 1 \in S
    <3>1. SUFFICES ASSUME k + 1 <= N
                   PROVE  \E low : Enumerates(low, W, start, start + (k + 1))
      OBVIOUS
    <3>2. PICK low : Enumerates(low, W, start, start + k)
      BY <2>2, <3>1, <1>0
    <3>3. start + k + 1 = start + (k + 1)
      OBVIOUS
    <3> QED BY <3>1, <3>2, <3>3, <1>1
  <2>3. Nat \subseteq S
    <3> HIDE DEF S
    <3> QED BY <2>1, <2>2, SetInd
  <2>4. n \in Nat /\ n <= N
    BY <1>0
  <2> QED BY <2>3, <2>4
<1>3. ASSUME NEW n \in Nat, n + 1 <= N
      PROVE  CappedWindow(g[n], start + n, works[n + 1]) = g[n + 1]
  <2>1. n \in 0..N /\ n + 1 \in 0..N /\ start + n + 1 = start + (n + 1)
    BY <1>0, <1>3
  <2>2. Enumerates(g[n], W, start, start + n) /\ Enumerates(g[n + 1], W, start, start + (n + 1))
    BY <1>2, <2>1
  <2> HIDE DEF g
  <2>3. Enumerates(CappedWindow(g[n], start + n, works[n + 1]), W, start, start + (n + 1))
    BY <1>1, <1>3, <2>1, <2>2
  <2> QED BY <2>2, <2>3, OneEnumeration
<1>4. g[0] = <<>>
  <2>1. 0 \in 0..N /\ start + 0 = start
    BY <1>0
  <2>2. Enumerates(g[0], W, start, start)
    BY <1>2, <2>1
  <2> HIDE DEF g
  <2> QED BY <2>2, EmptyFloor, OneEnumeration
<1>5. g = Step(g)
  <2>1. ASSUME NEW n \in 0..N PROVE g[n] = Step(g)[n]
    <3>1. CASE n = 0
      <4> HIDE DEF g
      <4> QED BY <3>1, <1>4, <1>0
    <3>2. CASE n # 0
      <4>1. n - 1 \in Nat /\ (n - 1) + 1 = n /\ start + (n - 1) = start + n - 1 /\ n <= N
        BY <1>0, <3>2
      <4>2. CappedWindow(g[n - 1], start + n - 1, works[n]) = g[n]
        BY <4>1, <1>3
      <4> HIDE DEF g
      <4> QED BY <3>2, <4>2
    <3> QED BY <3>1, <3>2
  <2> QED BY <2>1
<1>6. PICK f : f = (CHOOSE after : after = Step(after))
  OBVIOUS
<1>7. f = Step(f)
  <2> HIDE DEF g
  <2> QED BY <1>5, <1>6
<1>8. RebuiltFloor(start, works) = f[N]
  BY <1>6 DEF RebuiltFloor
<1>9. f[0] = g[0]
  <2> HIDE DEF g
  <2> QED BY <1>0, <1>4, <1>7
<1>10. ASSUME NEW n \in Nat, n + 1 <= N, f[n] = g[n] PROVE f[n + 1] = g[n + 1]
  <2>1. n + 1 \in 0..N /\ n + 1 # 0 /\ (n + 1) - 1 = n /\ start + (n + 1) - 1 = start + n
    <3>1. N \in Nat /\ n \in Nat /\ n + 1 <= N /\ start \in Nat
      BY <1>0, <1>10
    <3> HIDE DEF N
    <3> QED BY ONLY <3>1
  <2>2. f[n + 1] = CappedWindow(f[n], start + n, works[n + 1])
    BY <2>1, <1>7
  <2> HIDE DEF g
  <2> QED BY <1>3, <1>10, <2>2
<1>11. \A n \in 0..N : f[n] = g[n]
  <2> HIDE DEF g, N, Step
  <2>1. AgreeOn(f, g, N)
    BY <1>9, <1>10 DEF AgreeOn
  <2> QED BY <1>0, <2>1, SameFunction DEF Agree
<1>12. N \in 0..N
  BY <1>0
<1>13. f[N] = g[N] /\ Enumerates(g[N], W, start, start + N)
  <2> HIDE DEF g
  <2> QED BY <1>2, <1>11, <1>12
<1> HIDE DEF g
<1> QED BY <1>8, <1>13

\* A range that is not empty has a queue with a front.
LEMMA LowFront ==
    ASSUME NEW W, NEW low, NEW lo \in Nat, NEW hi \in Nat, lo < hi,
           Enumerates(low, W, lo, hi), \A h \in lo..(hi - 1) : W[h] \in Nat \ {0}
    PROVE  low # <<>> /\ low[1].work \in Nat \ {0}
<1>1. hi - 1 \in NotUndercut(W, lo, hi)
  BY DEF NotUndercut
<1>2. PICK i \in 1..Len(low) : low[i].height = hi - 1
  BY <1>1 DEF Enumerates
<1>3. low \in Seq(Entries) /\ Len(low) \in Nat
  BY DEF Enumerates
<1>4. 1 \in 1..Len(low)
  BY <1>2, <1>3
<1>5. low # <<>>
  BY <1>4
<1>6. low[1].height \in NotUndercut(W, lo, hi) /\ low[1].work = W[low[1].height]
  BY <1>4 DEF Enumerates
<1> QED BY <1>5, <1>6 DEF NotUndercut

WorksIn(W, lo, hi) == {W[h] : h \in lo..(hi - 1)}

\* The front of the floor queue is the least work of its window.
LEMMA LeastIsFront ==
    ASSUME NEW W, NEW low, NEW lo \in Nat, NEW hi \in Nat, lo < hi,
           Enumerates(low, W, lo, hi), \A h \in lo..(hi - 1) : W[h] \in Nat \ {0}
    PROVE  low # <<>> /\ low[1].work = Min(WorksIn(W, lo, hi))
<1>1. PICK T : T = WorksIn(W, lo, hi) /\ T = {W[h] : h \in lo..(hi - 1)}
  BY DEF WorksIn
<1>2. low # <<>> /\ low[1].work \in Nat \ {0} /\ low \in Seq(Entries) /\ Len(low) \in Nat
  <2>1. low # <<>> /\ low[1].work \in Nat \ {0}
    BY LowFront
  <2>2. low \in Seq(Entries) /\ Len(low) \in Nat
    BY DEF Enumerates
  <2> QED BY <2>1, <2>2
<1>3. 1 \in 1..Len(low)
  BY <1>2, EmptySeq
<1>4. low[1].work \in T
  <2>1. low[1].height \in NotUndercut(W, lo, hi) /\ low[1].work = W[low[1].height]
    BY <1>3 DEF Enumerates
  <2> QED BY <2>1, <1>1 DEF NotUndercut
<1>5. PICK v \in T : \A y \in T : v <= y
  <2>1. T \subseteq Nat /\ T # {}
    BY <1>1, <1>4
  <2> QED BY <2>1, LeastExists
<1>6. PICK j \in lo..(hi - 1) : W[j] = v /\ \A m \in (j + 1)..(hi - 1) : W[m] # v
  <2>1. PICK D : D = {d \in Nat : d <= hi - 1 - lo /\ W[hi - 1 - d] = v}
    OBVIOUS
  <2>2. D # {}
    <3>1. PICK i \in lo..(hi - 1) : W[i] = v
      BY <1>1, <1>5
    <3>2. (hi - 1) - i \in Nat /\ (hi - 1) - i <= hi - 1 - lo /\ hi - 1 - ((hi - 1) - i) = i
      BY <3>1
    <3> QED BY <3>1, <3>2, <2>1
  <2>3. PICK d \in D : \A e \in D : d <= e
    BY <2>1, <2>2, LeastExists
  <2>4. PICK i : i = hi - 1 - d
    OBVIOUS
  <2>5. d \in Nat /\ i \in lo..(hi - 1) /\ W[i] = v
    BY <2>1, <2>3, <2>4
  <2>6. ASSUME NEW m \in (i + 1)..(hi - 1), W[m] = v PROVE FALSE
    <3>1. PICK e : e = (hi - 1) - m
      OBVIOUS
    <3>2. e \in Nat /\ e <= hi - 1 - lo /\ hi - 1 - e = m /\ e < d
      BY <3>1, <2>4, <2>5
    <3>3. e \in D
      BY <3>2, <2>1, <2>6
    <3> QED BY <3>2, <3>3, <2>3, <2>5
  <2> QED BY <2>5, <2>6
<1>7. j \in NotUndercut(W, lo, hi)
  <2>1. ASSUME NEW m \in (j + 1)..(hi - 1) PROVE W[j] < W[m]
    <3>1. m \in lo..(hi - 1)
      BY <1>6
    <3>2. W[m] \in T /\ W[m] \in Nat /\ W[j] \in Nat
      BY <3>1, <1>1
    <3>3. W[j] <= W[m] /\ W[m] # W[j]
      BY <3>2, <1>5, <1>6
    <3> QED BY <3>2, <3>3
  <2> QED BY <2>1 DEF NotUndercut
<1>8. low[1].work <= v
  <2>1. PICK i \in 1..Len(low) : low[i].height = j /\ low[i].work = v
    BY <1>6, <1>7 DEF Enumerates
  <2>2. CASE i = 1
    BY <2>1, <2>2, <1>2
  <2>3. CASE i # 1
    <3>1. 1 < i
      BY <2>3, <1>2
    <3>2. low[1].work < low[i].work /\ low[i].work \in Nat
      BY <3>1, <1>2, <1>3, WorkRises, EntryFields
    <3> QED BY <3>2, <2>1, <1>2
  <2> QED BY <2>2, <2>3
<1>9. T \subseteq Nat
  BY <1>1
<1>10. PICK x : x = low[1].work
  OBVIOUS
<1>11. x \in T /\ \A y \in T : x <= y
  BY <1>2, <1>4, <1>5, <1>8, <1>9, <1>10
<1>12. Min(T) = x
  <2>1. Min(T) \in T /\ \A y \in T : Min(T) <= y
    BY <1>11 DEF Min
  <2>2. PICK y : y = Min(T)
    OBVIOUS
  <2>3. y \in Nat /\ x \in Nat /\ y <= x /\ x <= y
    BY <2>1, <2>2, <1>9, <1>11
  <2> QED BY <2>2, <2>3
<1> QED BY <1>1, <1>2, <1>10, <1>12

\* A window's counts, counted from the chain's own column.
SignedIn(sg, lo, hi, s) == {i \in lo..(hi - 1) : sg[i + 1] = s}

\* A window's count of a signer, from the column.
LEMMA CountIs ==
    ASSUME NEW D, NEW sg \in Seq(D), NEW lo \in Nat, NEW hi \in Nat, hi <= Len(sg),
           NEW s, s # NoSigner
    PROVE  CountOf(CountsOf(sg, lo + 1, hi), s)
             = Cardinality(SignedIn(sg, lo, hi, s))
<1>1. PICK S, T : S = Places(sg, lo + 1, hi, s) /\ T = SignedIn(sg, lo, hi, s)
  OBVIOUS
<1>2. PICK f : f = [i \in S |-> i - 1]
  OBVIOUS
<1>3. f \in [S -> T] /\ \A i \in S : f[i] = i - 1 /\ i \in Int
  BY <1>1, <1>2 DEF Places, SignedIn
<1>4. ASSUME NEW t \in T PROVE \E i \in S : f[i] = t
  <2>1. t + 1 \in S /\ (t + 1) - 1 = t
    BY <1>1 DEF Places, SignedIn
  <2> QED BY <2>1, <1>3
<1>5. f \in Bijection(S, T)
  <2>1. IsInjective(f)
    BY <1>2, <1>3 DEF IsInjective
  <2> QED BY <2>1, <1>3, <1>4 DEF Bijection, Injection, Surjection
<1>6. /\ IsFiniteSet(S) /\ Cardinality(S) \in Nat
      /\ S = {} <=> s \notin {sg[i] : i \in (lo + 1)..hi}
      /\ S = {} <=> Cardinality(S) = 0
  <2>1. PICK a : a = lo + 1
    OBVIOUS
  <2>2. a \in Int /\ hi \in Int
    BY <2>1
  <2> QED BY <2>1, <2>2, <1>1, PlacesFinite
<1>7. Cardinality(T) = Cardinality(S)
  BY <1>5, <1>6, FS_Bijection DEF ExistsBijection
<1>8. CountOf(CountsOf(sg, lo + 1, hi), s) = Cardinality(S)
  <2>1. PICK C : C = CountsOf(sg, lo + 1, hi)
    OBVIOUS
  <2>2. DOMAIN C = Who(sg, lo + 1, hi) /\ \A x \in DOMAIN C : C[x] = Cardinality(Places(sg, lo + 1, hi, x))
    BY <2>1 DEF CountsOf
  <2>3. s \in DOMAIN C <=> S # {}
    BY <2>2, <1>6 DEF Who
  <2> QED BY <2>1, <2>2, <2>3, <1>1, <1>6 DEF CountOf
<1> QED BY <1>1, <1>7, <1>8

------------------------------------------------------------------------------
\* The relay.
RelayEntries ==
    [height : Nat, hash : Links \cup {RootLink}, time : Nat, chainWork : Nat]

\* A relay: what FormsChain says, of entries with a highest one.
Top(relay, e) == e \in relay /\ \A f \in relay : f.height <= e.height
Bottom(relay, e) == e \in relay /\ \A f \in relay : f.height >= e.height
IsRelay(relay) ==
    /\ relay \subseteq RelayEntries /\ FormsChain(relay) /\ \E e : Top(relay, e)

\* A relay's heights and hashes each name one header.
LEMMA HeightIsOwn ==
    ASSUME NEW relay, IsRelay(relay), NEW e \in relay, NEW f \in relay, e.height = f.height
    PROVE  e = f
  BY DEF IsRelay, FormsChain

\* The same for hashes.
LEMMA HashIsOwn ==
    ASSUME NEW relay, IsRelay(relay), NEW e \in relay, NEW f \in relay, e.hash = f.hash
    PROVE  e = f
  BY DEF IsRelay, FormsChain

\* The fields of a relay's headers.
LEMMA EntryType ==
    ASSUME NEW relay, IsRelay(relay), NEW e \in relay
    PROVE  /\ e \in RelayEntries /\ e.height \in Nat /\ e.chainWork \in Nat
           /\ e.hash \in Links \cup {RootLink}
<1>1. e \in RelayEntries
  BY DEF IsRelay
<1> QED BY <1>1 DEF RelayEntries

\* The tip is the relay's one highest header.
LEMMA TopIsTip ==
    ASSUME NEW relay, IsRelay(relay)
    PROVE  /\ Top(relay, TipEntry(relay))
           /\ \A e : Top(relay, e) => e = TipEntry(relay)
<1>1. PICK e : Top(relay, e)
  BY DEF IsRelay
<1>2. Top(relay, TipEntry(relay))
  BY <1>1 DEF Top, TipEntry
<1>3. ASSUME NEW x, Top(relay, x) PROVE x = TipEntry(relay)
  <2>1. PICK t : t = TipEntry(relay)
    OBVIOUS
  <2>2. x \in relay /\ t \in relay /\ x.height <= t.height /\ t.height <= x.height
    BY <1>2, <1>3, <2>1 DEF Top
  <2>3. x.height \in Nat /\ t.height \in Nat
    BY <2>2, EntryType
  <2>4. x.height = t.height
    BY <2>2, <2>3
  <2> QED BY <2>1, <2>2, <2>4, HeightIsOwn
<1> QED BY <1>2, <1>3

\* The base is its one lowest.
LEMMA BottomIsBase ==
    ASSUME NEW relay, IsRelay(relay)
    PROVE  /\ Bottom(relay, BaseEntry(relay))
           /\ \A e : Bottom(relay, e) => e = BaseEntry(relay)
<1>1. \E e : Bottom(relay, e)
  <2> DEFINE heights == {e.height : e \in relay}
  <2>1. heights \subseteq Nat
    BY EntryType
  <2>2. heights # {}
    BY DEF IsRelay, FormsChain
  <2>3. PICK h \in heights : \A k \in heights : h <= k
    <3> HIDE DEF heights
    <3> QED BY <2>1, <2>2, LeastExists
  <2>4. PICK e \in relay : e.height = h
    OBVIOUS
  <2>5. \A f \in relay : f.height >= e.height
    BY <2>1, <2>3, <2>4
  <2> QED BY <2>4, <2>5 DEF Bottom
<1>2. Bottom(relay, BaseEntry(relay))
  BY <1>1 DEF Bottom, BaseEntry
<1>3. ASSUME NEW x, Bottom(relay, x) PROVE x = BaseEntry(relay)
  <2>1. PICK t : t = BaseEntry(relay)
    OBVIOUS
  <2>2. x \in relay /\ t \in relay /\ x.height >= t.height /\ t.height >= x.height
    BY <1>2, <1>3, <2>1 DEF Bottom
  <2>3. x.height \in Nat /\ t.height \in Nat
    BY <2>2, EntryType
  <2>4. x.height = t.height
    BY <2>2, <2>3
  <2> QED BY <2>1, <2>2, <2>4, HeightIsOwn
<1> QED BY <1>2, <1>3

\* A header is found by its hash (Relay::get), or by its height.
LEMMA ByHashIs ==
    ASSUME NEW relay, IsRelay(relay), NEW e \in relay
    PROVE  ByHash(relay, e.hash) = e
  BY HashIsOwn DEF ByHash

\* The same by height.
LEMMA AtHeightIs ==
    ASSUME NEW relay, IsRelay(relay), NEW e \in relay
    PROVE  AtHeight(relay, e.height) = e
  BY HeightIsOwn DEF AtHeight

------------------------------------------------------------------------------
\* The entries a run makes: one above the other, each with its work added.
RunAt(base, links) ==
    CHOOSE at : at = [n \in 0..Len(links) |->
        IF n = 0 THEN base
        ELSE [height |-> at[n - 1].height + 1, hash |-> links[n],
              time |-> LinkTime[links[n]],
              chainWork |-> at[n - 1].chainWork + LinkWork[links[n]]]]

\* The recursive function that makes a run's headers, by its equation.
LEMMA RunAtIs ==
    ASSUME NEW base, NEW links, Len(links) \in Nat
    PROVE  RunAt(base, links) = [n \in 0..Len(links) |->
             IF n = 0 THEN base
             ELSE [height |-> RunAt(base, links)[n - 1].height + 1, hash |-> links[n],
                   time |-> LinkTime[links[n]],
                   chainWork |-> RunAt(base, links)[n - 1].chainWork + LinkWork[links[n]]]]
<1> DEFINE Next1(d, l) == [height |-> d.height + 1, hash |-> l, time |-> LinkTime[l],
                           chainWork |-> d.chainWork + LinkWork[l]]
           P(m) == \E g : g = [n \in 0..m |->
                            IF n = 0 THEN base ELSE Next1(g[n - 1], links[n])]
<1>1. P(0)
  <2>1. [n \in 0..0 |-> base] = [n \in 0..0 |->
           IF n = 0 THEN base ELSE Next1([i \in 0..0 |-> base][n - 1], links[n])]
    OBVIOUS
  <2> QED BY <2>1
<1>2. ASSUME NEW m \in Nat, P(m) PROVE P(m + 1)
  <2> HIDE DEF Next1
  <2>1. PICK g : g = [n \in 0..m |-> IF n = 0 THEN base ELSE Next1(g[n - 1], links[n])]
    BY <1>2
  <2>2. PICK h : h = [n \in 0..(m + 1) |->
                        IF n = m + 1 THEN Next1(g[m], links[n]) ELSE g[n]]
    OBVIOUS
  <2>3. ASSUME NEW n \in 0..(m + 1)
        PROVE  h[n] = IF n = 0 THEN base ELSE Next1(h[n - 1], links[n])
    <3>1. CASE n = m + 1
      BY <3>1, <2>2
    <3>2. CASE n # m + 1
      <4>1. n \in 0..m /\ h[n] = g[n]
        BY <3>2, <2>2
      <4>2. n # 0 => n - 1 \in 0..(m + 1) /\ n - 1 # m + 1
        BY <4>1
      <4> QED BY <4>1, <4>2, <2>1, <2>2
    <3> QED BY <3>1, <3>2
  <2>4. h = [n \in 0..(m + 1) |-> IF n = 0 THEN base ELSE Next1(h[n - 1], links[n])]
    BY <2>2, <2>3
  <2> QED BY <2>4
<1>3. \A m \in Nat : P(m)
  <2>1. PICK S : S = {m \in Nat : P(m)}
    OBVIOUS
  <2> HIDE DEF P
  <2>2. 0 \in S /\ \A n \in Nat : n \in S => n + 1 \in S
    BY <1>1, <1>2, <2>1
  <2>3. Nat \subseteq S
    BY <2>2, SetInd
  <2> QED BY <2>1, <2>3
<1> QED BY <1>3 DEF RunAt

\* Each header of a run from the one before it.
LEMMA RunAtStep ==
    ASSUME NEW base, NEW links, Len(links) \in Nat, NEW i \in Nat, i + 1 <= Len(links)
    PROVE  /\ RunAt(base, links)[i + 1]
                = [height |-> RunAt(base, links)[i].height + 1, hash |-> links[i + 1],
                   time |-> LinkTime[links[i + 1]],
                   chainWork |-> RunAt(base, links)[i].chainWork + LinkWork[links[i + 1]]]
           /\ RunAt(base, links)[0] = base
           /\ RunEntries(base, links)[i + 1] = RunAt(base, links)[i + 1]
<1>1. i + 1 \in 0..Len(links) /\ i + 1 # 0 /\ (i + 1) - 1 = i /\ i + 1 \in 1..Len(links)
      /\ 0 \in 0..Len(links)
  OBVIOUS
<1>2. RunEntries(base, links) = [n \in 1..Len(links) |-> RunAt(base, links)[n]]
  BY DEF RunEntries, RunAt
<1> QED BY <1>1, <1>2, RunAtIs

\* A run's headers lie one above the other, each with its own link and work.
LEMMA EntriesAre ==
    ASSUME NEW base \in RelayEntries, NEW links \in Seq(Links), NEW i \in 1..Len(links)
    PROVE  /\ RunEntries(base, links)[i] \in RelayEntries
           /\ RunEntries(base, links)[i].height = base.height + i
           /\ RunEntries(base, links)[i].hash = links[i]
           /\ RunEntries(base, links)[i].chainWork
                = (IF i = 1 THEN base ELSE RunEntries(base, links)[i - 1]).chainWork
                    + LinkWork[links[i]]
<1>0. Len(links) \in Nat /\ \A n \in 1..Len(links) : links[n] \in Links
  BY LenProperties, ElementOfSeq
<1>1. PICK at : at = RunAt(base, links)
  OBVIOUS
<1>2. PICK en : en = RunEntries(base, links)
  OBVIOUS
<1>3. ASSUME NEW n \in Nat, n + 1 <= Len(links)
      PROVE  /\ at[n + 1] = [height |-> at[n].height + 1, hash |-> links[n + 1],
                             time |-> LinkTime[links[n + 1]],
                             chainWork |-> at[n].chainWork + LinkWork[links[n + 1]]]
             /\ at[0] = base /\ en[n + 1] = at[n + 1]
  BY <1>0, <1>1, <1>2, <1>3, RunAtStep, SMTT(30)
<1> DEFINE S == {n \in Nat : n <= Len(links) =>
                   at[n] \in RelayEntries /\ at[n].height = base.height + n}
<1>4. Len(links) >= 1
  BY <1>0
<1>5. at[0] = base
  BY <1>3, <1>4, 0 \in Nat, 0 + 1 = 1
<1>6. 0 \in S
  <2>1. base.height \in Nat
    BY DEF RelayEntries
  <2> QED BY <1>5, <2>1
<1>7. ASSUME NEW n \in Nat, n \in S PROVE n + 1 \in S
  <2>1. SUFFICES ASSUME n + 1 <= Len(links)
                 PROVE  at[n + 1] \in RelayEntries /\ at[n + 1].height = base.height + (n + 1)
    OBVIOUS
  <2>2. at[n] \in RelayEntries /\ at[n].height = base.height + n
    BY <1>0, <1>7, <2>1
  <2>3. links[n + 1] \in Links
    BY <1>0, <2>1
  <2>4. LinkTime[links[n + 1]] \in Nat /\ LinkWork[links[n + 1]] \in Nat
    BY <2>3, RelayAssumption
  <2>5. at[n].height \in Nat /\ at[n].chainWork \in Nat /\ base.height \in Nat
    BY <2>2 DEF RelayEntries
  <2>6. at[n + 1] = [height |-> at[n].height + 1, hash |-> links[n + 1],
                     time |-> LinkTime[links[n + 1]],
                     chainWork |-> at[n].chainWork + LinkWork[links[n + 1]]]
    BY <1>3, <2>1
  <2>7. at[n].height + 1 \in Nat /\ at[n].chainWork + LinkWork[links[n + 1]] \in Nat
    <3>1. \A a, b, c \in Nat : a + 1 \in Nat /\ b + c \in Nat
      OBVIOUS
    <3> QED BY <2>4, <2>5, <3>1, Zenon
  <2>8. at[n + 1] \in RelayEntries
    BY <2>3, <2>4, <2>6, <2>7 DEF RelayEntries
  <2>9. at[n + 1].height = base.height + (n + 1)
    <3>1. \A a, b, c : a \in Nat /\ b \in Nat /\ c = a + b => c + 1 = a + (b + 1)
      OBVIOUS
    <3>2. at[n + 1].height = at[n].height + 1
      BY <2>6
    <3>3. at[n].height + 1 = base.height + (n + 1)
      BY <2>2, <2>5, <1>7, <3>1, Zenon
    <3> QED BY <3>2, <3>3
  <2> QED BY <2>8, <2>9
<1>8. Nat \subseteq S
  <2> HIDE DEF S
  <2> QED BY <1>6, <1>7, SetInd
<1>9. i \in Nat /\ i <= Len(links) /\ i - 1 \in Nat /\ (i - 1) + 1 = i
  BY <1>0
<1>10. /\ at[i] = [height |-> at[i - 1].height + 1, hash |-> links[i],
                   time |-> LinkTime[links[i]],
                   chainWork |-> at[i - 1].chainWork + LinkWork[links[i]]]
       /\ en[i] = at[i]
  BY <1>3, <1>9
<1>11. at[i - 1] = IF i = 1 THEN base ELSE en[i - 1]
  <2>1. CASE i = 1
    BY <2>1, <1>5
  <2>2. CASE i # 1
    <3>1. i - 2 \in Nat /\ (i - 2) + 1 = i - 1 /\ i - 1 <= Len(links)
      BY <2>2, <1>9
    <3> QED BY <2>2, <3>1, <1>3
  <2> QED BY <2>1, <2>2
<1>12. at[i] \in RelayEntries /\ at[i].height = base.height + i
  BY <1>8, <1>9
<1> HIDE DEF S
<1> QED BY <1>2, <1>10, <1>11, <1>12

\* No run comes back to a header it has passed, since each names the one before
\* it: what a run repeats, it repeats from what it builds on.
LEMMA NeverRepeats ==
    ASSUME NEW run, run.links \in Seq(Links), RunVerifies(run),
           \A k \in 1..Len(run.links) : run.links[k] # run.prev,
           NEW i \in 1..Len(run.links), NEW j \in 1..Len(run.links),
           run.links[i] = run.links[j]
    PROVE  i = j
<1>0. Len(run.links) \in Nat
  BY LenProperties
<1> DEFINE S == {n \in Nat : \A k \in 1..Len(run.links) :
                   n >= 1 /\ n < k => run.links[n] # run.links[k]}
<1>1. 0 \in S
  OBVIOUS
<1>2. ASSUME NEW n \in Nat, n \in S PROVE n + 1 \in S
  <2>1. SUFFICES ASSUME NEW k \in 1..Len(run.links), n + 1 < k,
                        run.links[n + 1] = run.links[k]
                 PROVE  FALSE
    OBVIOUS
  <2>2. k - 1 \in 1..Len(run.links) /\ k # 1 /\ n + 1 \in 1..Len(run.links)
    BY <2>1, <1>0
  <2>3. LinkPrev[run.links[k]] = run.links[k - 1]
    BY <2>2 DEF RunVerifies
  <2>4. CASE n = 0
    <3>1. LinkPrev[run.links[n + 1]] = run.prev
      BY <2>2, <2>4 DEF RunVerifies
    <3> QED BY <2>1, <2>2, <2>3, <3>1
  <2>5. CASE n # 0
    <3>1. n + 1 # 1 /\ (n + 1) - 1 = n
      BY <2>5
    <3>2. LinkPrev[run.links[n + 1]] = run.links[n]
      BY <2>2, <3>1 DEF RunVerifies
    <3>3. run.links[n] # run.links[k - 1]
      <4>1. n >= 1 /\ n < k - 1
        BY <2>1, <2>5
      <4> QED BY <4>1, <1>2, <2>2
    <3> QED BY <2>1, <2>3, <3>2, <3>3
  <2> QED BY <2>4, <2>5
<1>3. Nat \subseteq S
  <2> HIDE DEF S
  <2> QED BY <1>1, <1>2, SetInd
<1>4. i \in Nat /\ j \in Nat /\ i >= 1 /\ j >= 1
  BY <1>0
<1>5. ~(i < j) /\ ~(j < i)
  BY <1>3, <1>4
<1> QED BY <1>4, <1>5

------------------------------------------------------------------------------
Extends(relay, run, t) ==
    /\ IsRelay(relay) /\ run.links \in Seq(Links)
    /\ RunVerifies(run) /\ ExtendAllowed(relay, run, t)

BaseOf(relay, run) == ByHash(relay, run.prev)
CutOf(relay, run) == BaseOf(relay, run).height + Len(run.links) - RelayWindow
Stay(relay, low, high) == {e \in relay : low <= e.height /\ e.height <= high}

\* What a run that may extend the relay builds on, and what it leaves.
LEMMA RunFacts ==
    ASSUME NEW relay, NEW run, NEW t, Extends(relay, run, t)
    PROVE  /\ BaseOf(relay, run) \in relay /\ BaseOf(relay, run).hash = run.prev
           /\ BaseOf(relay, run) \in RelayEntries /\ BaseOf(relay, run).height \in Nat
           /\ Len(run.links) \in Nat \ {0} /\ Len(run.links) <= MaxRelay
           /\ CutOf(relay, run) \in Int
           /\ CutOf(relay, run) <= BaseOf(relay, run).height
<1>1. PICK e \in relay : e.hash = run.prev
  BY DEF Extends, ExtendAllowed, OnRelay
<1>2. BaseOf(relay, run) = e
  BY <1>1, ByHashIs DEF Extends, BaseOf
<1>3. e \in RelayEntries /\ e.height \in Nat
  BY EntryType DEF Extends
<1>4. Len(run.links) \in Nat \ {0} /\ Len(run.links) <= MaxRelay
  BY LenProperties DEF Extends, ExtendAllowed
<1>5. \A h, n, w, m \in Nat : n <= m /\ m <= w => h + n - w \in Int /\ h + n - w <= h
  OBVIOUS
<1>6. CutOf(relay, run) \in Int /\ CutOf(relay, run) <= BaseOf(relay, run).height
  BY <1>2, <1>3, <1>4, <1>5, RelayAssumption DEF CutOf
<1> QED BY <1>1, <1>2, <1>3, <1>4, <1>6

\* What Relay::extend adds and removes: the run; what is above its base or has
\* fallen behind the window.
LEMMA ExtendedIs ==
    ASSUME NEW relay, NEW run, NEW t, Extends(relay, run, t)
    PROVE  /\ Extended(relay, run).added
                = {RunEntries(BaseOf(relay, run), run.links)[i] : i \in 1..Len(run.links)}
           /\ Extended(relay, run).removed
                = {e \in relay : e.height > BaseOf(relay, run).height
                                    \/ e.height < CutOf(relay, run)}
           /\ Extended(relay, run).fork = BaseOf(relay, run).height
           /\ Extended(relay, run).forks
                <=> \E e \in relay : e.height > BaseOf(relay, run).height
<1>1. PICK base, n, cut, entries, added, replaced, grown :
         /\ base = BaseOf(relay, run) /\ n = Len(run.links) /\ cut = CutOf(relay, run)
         /\ entries = RunEntries(base, run.links)
         /\ added = {entries[i] : i \in 1..Len(entries)}
         /\ replaced = {e \in relay : e.height > base.height}
         /\ grown = Without(relay, replaced) \cup added
  OBVIOUS
<1>2. /\ base \in relay /\ base \in RelayEntries /\ base.height \in Nat
      /\ n \in Nat \ {0} /\ cut \in Int /\ cut <= base.height
      /\ run.links \in Seq(Links) /\ IsRelay(relay)
  BY <1>1, RunFacts DEF Extends
<1>3. Len(entries) = n
  BY <1>1, <1>2 DEF RunEntries
<1>4. \A i \in 1..n : entries[i] \in RelayEntries /\ entries[i].height = base.height + i
  BY <1>1, <1>2, EntriesAre, SMTT(30)
<1>5. Without(relay, replaced) = {e \in relay : e.height <= base.height}
  <2>1. ASSUME NEW e \in relay
        PROVE  e.height \notin {g.height : g \in replaced} <=> e.height <= base.height
    <3>1. e.height \in Nat
      BY <1>2, EntryType
    <3> QED BY <3>1, <1>1, <1>2
  <2> QED BY <2>1 DEF Without
<1>6. TipEntry(grown).height = base.height + n
  <2>1. n \in 1..n /\ entries[n] \in grown /\ entries[n].height = base.height + n
    BY <1>1, <1>2, <1>3, <1>4
  <2>2. ASSUME NEW f \in grown PROVE f.height \in Nat /\ f.height <= base.height + n
    <3>1. CASE f \in added
      <4>1. PICK i \in 1..n : f = entries[i]
        BY <3>1, <1>1, <1>3
      <4> QED BY <4>1, <1>2, <1>4
    <3>2. CASE f \in relay /\ f.height <= base.height
      BY <3>2, <1>2, EntryType
    <3> QED BY <3>1, <3>2, <1>1, <1>5
  <2>3. PICK x : x = TipEntry(grown)
    OBVIOUS
  <2>4. x \in grown /\ \A f \in grown : f.height <= x.height
    <3>1. \A f \in grown : f.height <= entries[n].height
      BY <2>1, <2>2
    <3> QED BY <2>1, <2>3, <3>1 DEF TipEntry
  <2>5. x.height \in Nat /\ x.height <= base.height + n /\ base.height + n <= x.height
    BY <2>1, <2>2, <2>4
  <2> QED BY <1>2, <2>3, <2>5
<1>7. cut = base.height + n - RelayWindow
  BY <1>1 DEF CutOf
<1>8. {e \in grown : e.height < TipEntry(grown).height - RelayWindow}
        = {e \in relay : e.height < cut}
  <2>1. ASSUME NEW e \in added PROVE ~(e.height < cut)
    <3>1. PICK i \in 1..n : e = entries[i]
      BY <1>1, <1>3
    <3>2. e.height = base.height + i
      BY <3>1, <1>4
    <3> QED BY <3>2, <1>2
  <2>2. ASSUME NEW e \in relay, e.height < cut PROVE e.height <= base.height
    <3>1. e.height \in Nat
      BY <1>2, EntryType
    <3> QED BY <1>2, <2>2, <3>1
  <2>3. grown = {e \in relay : e.height <= base.height} \cup added
    BY <1>1, <1>5
  <2>4. TipEntry(grown).height - RelayWindow = cut
    BY <1>2, <1>6, <1>7, RelayAssumption
  <2>5. {e \in grown : e.height < cut} = {e \in relay : e.height < cut}
    BY <2>1, <2>2, <2>3
  <2> QED BY <2>4, <2>5
<1>9. Extended(relay, run)
        = [added |-> added,
           removed |-> replaced
              \cup {e \in grown : e.height < TipEntry(grown).height - RelayWindow},
           forks |-> replaced # {}, fork |-> base.height]
  BY <1>1 DEF Extended, BaseOf
<1>10. /\ Extended(relay, run).added = added
       /\ Extended(relay, run).removed = replaced \cup {e \in relay : e.height < cut}
       /\ Extended(relay, run).fork = base.height
       /\ Extended(relay, run).forks <=> replaced # {}
  <2>1. PICK stale : stale = {e \in grown : e.height < TipEntry(grown).height - RelayWindow}
    OBVIOUS
  <2>2. Extended(relay, run)
          = [added |-> added, removed |-> replaced \cup stale,
             forks |-> replaced # {}, fork |-> base.height]
    BY <1>9, <2>1
  <2>3. /\ Extended(relay, run).added = added
        /\ Extended(relay, run).removed = replaced \cup stale
        /\ Extended(relay, run).fork = base.height
    BY <2>2
  <2>4. Extended(relay, run).forks = (replaced # {})
    BY <2>2
  <2> QED BY <1>8, <2>1, <2>3, <2>4
<1>11. Extended(relay, run).removed = {e \in relay : e.height > base.height \/ e.height < cut}
  BY <1>1, <1>10
<1> QED BY <1>1, <1>3, <1>10, <1>11

\* The relay a block leaves (RelayWith), of the change it makes.
Grown(relay, change) == Without(relay, change.removed) \cup change.added

\* The headers a run adds are its own.
LEMMA RunAdds ==
    ASSUME NEW relay, NEW run, NEW t, Extends(relay, run, t),
           NEW e \in Extended(relay, run).added
    PROVE  \E i \in 1..Len(run.links) :
              /\ e = RunEntries(BaseOf(relay, run), run.links)[i] /\ e \in RelayEntries
              /\ e.height = BaseOf(relay, run).height + i /\ e.hash = run.links[i]
<1>1. PICK i \in 1..Len(run.links) : e = RunEntries(BaseOf(relay, run), run.links)[i]
  BY ExtendedIs
<1>2. BaseOf(relay, run) \in RelayEntries /\ run.links \in Seq(Links)
  BY RunFacts DEF Extends
<1> QED BY <1>1, <1>2, EntriesAre

\* What a run leaves of the relay: from the window's foot to its base.
LEMMA StayIs ==
    ASSUME NEW relay, NEW run, NEW t, Extends(relay, run, t)
    PROVE  /\ Without(relay, Extended(relay, run).removed)
                = Stay(relay, CutOf(relay, run), BaseOf(relay, run).height)
           /\ BaseOf(relay, run) \in Stay(relay, CutOf(relay, run), BaseOf(relay, run).height)
<1>1. PICK low, high : low = CutOf(relay, run) /\ high = BaseOf(relay, run).height
  OBVIOUS
<1>2. low \in Int /\ high \in Nat /\ low <= high
  BY <1>1, RunFacts
<1>3. PICK removed : removed = Extended(relay, run).removed
  OBVIOUS
<1>4. removed = {e \in relay : e.height > high \/ e.height < low}
  BY <1>1, <1>3, ExtendedIs
<1>5. ASSUME NEW e \in relay
      PROVE  e.height \notin {g.height : g \in removed} <=> low <= e.height /\ e.height <= high
  <2>1. e.height \in Nat
    BY EntryType DEF Extends
  <2>2. e \in removed <=> ~(low <= e.height /\ e.height <= high)
    BY <1>2, <1>4, <2>1
  <2>3. ASSUME NEW g \in removed, g.height = e.height PROVE e \in removed
    BY <1>4, <2>3
  <2> QED BY <2>2, <2>3
<1>6. Without(relay, removed) = Stay(relay, low, high)
  BY <1>5 DEF Without, Stay
<1>7. BaseOf(relay, run) \in Stay(relay, low, high)
  BY <1>1, <1>2, RunFacts DEF Stay
<1> QED BY <1>1, <1>3, <1>6, <1>7

\* A run grows a relay into a relay.
LEMMA GrownIsRelay ==
    ASSUME NEW relay, NEW run, NEW t, Extends(relay, run, t)
    PROVE  IsRelay(Grown(relay, Extended(relay, run)))
<1>1. PICK base, n, low, added, new, links :
         /\ base = BaseOf(relay, run) /\ n = Len(run.links) /\ low = CutOf(relay, run)
         /\ added = Extended(relay, run).added /\ new = Grown(relay, Extended(relay, run))
         /\ links = run.links
  OBVIOUS
<1>2. /\ base \in relay /\ base.hash = run.prev /\ base \in RelayEntries
      /\ base.height \in Nat /\ n \in Nat \ {0} /\ n <= MaxRelay /\ low \in Int
      /\ low <= base.height /\ links \in Seq(Links) /\ IsRelay(relay)
      /\ RunVerifies(run)
  BY <1>1, RunFacts DEF Extends
<1>3. new = Stay(relay, low, base.height) \cup added
  BY <1>1, StayIs DEF Grown
<1>4. \A e \in added : \E i \in 1..n :
         e = RunEntries(base, links)[i] /\ e \in RelayEntries
         /\ e.height = base.height + i /\ e.hash = links[i]
  BY <1>1, RunAdds
<1>5. \A i \in 1..n : RunEntries(base, links)[i] \in added
  BY <1>1, ExtendedIs
<1>6. \A e \in Stay(relay, low, base.height) :
         e \in relay /\ e.height \in Nat /\ low <= e.height /\ e.height <= base.height
  BY <1>2, EntryType DEF Stay
<1>7. \A i \in 1..n : \A e \in relay : e.height <= base.height => e.hash # links[i]
  BY <1>1 DEF Extends, ExtendAllowed, BaseOf
<1>8. low = base.height + n - RelayWindow
  BY <1>1 DEF CutOf
<1>9. new \subseteq RelayEntries
  BY <1>2, <1>3, <1>4, <1>6, EntryType
<1>10. \A e \in new : e.height \in Nat /\ low <= e.height /\ e.height <= base.height + n
  <2> TAKE e \in new
  <2>1. CASE e \in added
    <3>1. PICK i \in 1..n : e.height = base.height + i
      BY <2>1, <1>4
    <3> QED BY <3>1, <1>2
  <2>2. CASE e \in Stay(relay, low, base.height)
    BY <2>2, <1>2, <1>6
  <2> QED BY <2>1, <2>2, <1>3
<1>11. base \in new
  BY <1>1, <1>3, StayIs
<1>12. \A i \in 1..n, e \in new : e.hash = links[i] => e = RunEntries(base, links)[i]
  <2> TAKE i \in 1..n, e \in new
  <2>1. SUFFICES ASSUME e.hash = links[i] PROVE e = RunEntries(base, links)[i]
    OBVIOUS
  <2>2. e \in added
    BY <2>1, <1>3, <1>6, <1>7
  <2>3. PICK j \in 1..n : e = RunEntries(base, links)[j] /\ e.hash = links[j]
    BY <2>2, <1>4
  <2>4. \A k \in 1..n : links[k] # run.prev
    BY <1>2, <1>7
  <2>5. i = j
    BY <2>1, <2>3, <2>4, <1>1, <1>2, NeverRepeats
  <2> QED BY <2>3, <2>5
<1>13. \A i \in 1..n, e \in new : e.height = base.height + i => e = RunEntries(base, links)[i]
  <2> TAKE i \in 1..n, e \in new
  <2>1. SUFFICES ASSUME e.height = base.height + i PROVE e = RunEntries(base, links)[i]
    OBVIOUS
  <2>2. e \notin Stay(relay, low, base.height)
    BY <2>1, <1>2, <1>6
  <2>3. PICK j \in 1..n : e = RunEntries(base, links)[j] /\ e.height = base.height + j
    BY <2>2, <1>3, <1>4
  <2>4. i = j
    BY <2>1, <2>3, <1>2
  <2> QED BY <2>3, <2>4
<1>14. ASSUME NEW e \in new, NEW f \in new, e.hash = f.hash \/ e.height = f.height
       PROVE  e = f
  <2>1. CASE e \in added
    <3>1. PICK i \in 1..n : e = RunEntries(base, links)[i] /\ e.height = base.height + i
                            /\ e.hash = links[i]
      BY <2>1, <1>4
    <3> QED BY <3>1, <1>12, <1>13, <1>14
  <2>2. CASE f \in added
    <3>1. PICK i \in 1..n : f = RunEntries(base, links)[i] /\ f.height = base.height + i
                            /\ f.hash = links[i]
      BY <2>2, <1>4
    <3> QED BY <3>1, <1>12, <1>13, <1>14
  <2>3. CASE e \notin added /\ f \notin added
    <3>1. e \in relay /\ f \in relay
      BY <2>3, <1>3, <1>6
    <3> QED BY <3>1, <1>2, <1>14, HeightIsOwn, HashIsOwn
  <2> QED BY <2>1, <2>2, <2>3
<1>15. Cardinality(new) <= RelayWindow + 1
  <2>1. PICK high : high = base.height + n
    OBVIOUS
  <2>2. high \in Nat /\ low <= high /\ high - low + 1 = RelayWindow + 1
    BY <2>1, <1>2, <1>8, RelayAssumption
  <2>3. IsFiniteSet(low..high) /\ Cardinality(low..high) = RelayWindow + 1
    <3>1. low \in Int /\ high \in Int /\ ~(low > high)
      BY <2>2, <1>2
    <3>2. /\ IsFiniteSet(low..high)
          /\ Cardinality(low..high) = IF low > high THEN 0 ELSE high - low + 1
      BY <3>1, FS_Interval
    <3> QED BY <3>1, <3>2, <2>2
  <2>4. PICK f : f = [e \in new |-> e.height]
    OBVIOUS
  <2>5. f \in [new -> low..high]
    BY <2>1, <2>4, <1>10
  <2>6. \A e, g \in new : f[e] = f[g] => e = g
    BY <2>4, <1>14
  <2>7. f \in Injection(new, low..high)
    BY <2>5, <2>6 DEF Injection, IsInjective
  <2> QED BY <2>3, <2>7, FS_Injection
<1>16. Top(new, RunEntries(base, links)[n])
  <2>1. n \in 1..n
    BY <1>2
  <2>2. RunEntries(base, links)[n].height = base.height + n
    BY <1>1, <1>2, EntriesAre
  <2> QED BY <2>1, <2>2, <1>3, <1>5, <1>10 DEF Top
<1>17. ASSUME NEW e \in new, e # BaseEntry(new)
       PROVE  \E d \in new : /\ d.height = e.height - 1 /\ LinkPrev[e.hash] = d.hash
                             /\ e.chainWork = d.chainWork + LinkWork[e.hash]
  <2>1. PICK b : b = BaseEntry(new)
    OBVIOUS
  <2>2. \E x \in new : \A f \in new : f.height >= x.height
    <3> DEFINE heights == {x.height : x \in new}
    <3>1. heights \subseteq Nat /\ heights # {}
      BY <1>10
    <3>2. PICK h \in heights : \A k \in heights : h <= k
      <4> HIDE DEF heights
      <4> QED BY <3>1, LeastExists
    <3>3. PICK x \in new : x.height = h
      OBVIOUS
    <3>4. \A f \in new : f.height >= x.height
      BY <3>2, <3>3, <1>10
    <3> QED BY <3>4
  <2>3. b \in new /\ \A f \in new : f.height >= b.height
    BY <2>1, <2>2 DEF BaseEntry
  <2>4. e.height > b.height
    <3>1. e.height # b.height
      BY <2>1, <2>3, <1>14, <1>17
    <3> QED BY <2>3, <3>1, <1>10
  <2>5. CASE e \in added
    <3>1. PICK i \in 1..n : e = RunEntries(base, links)[i] /\ e.height = base.height + i
                            /\ e.hash = links[i]
      BY <2>5, <1>4
    <3>2. e.chainWork = (IF i = 1 THEN base ELSE RunEntries(base, links)[i - 1]).chainWork
                          + LinkWork[e.hash]
      BY <3>1, <1>1, <1>2, EntriesAre
    <3>3. CASE i = 1
      <4>1. LinkPrev[links[1]] = run.prev
        BY <3>3, <1>1, <1>2 DEF RunVerifies
      <4>2. base.height = e.height - 1
        BY <3>1, <3>3, <1>2
      <4> QED BY <3>1, <3>2, <3>3, <4>1, <4>2, <1>2, <1>11
    <3>4. CASE i # 1
      <4>1. i - 1 \in 1..n
        BY <3>4, <1>2
      <4>2. LinkPrev[links[i]] = links[i - 1]
        BY <3>4, <1>1, <1>2 DEF RunVerifies
      <4>3. PICK d : d = RunEntries(base, links)[i - 1]
        OBVIOUS
      <4>4. d.height = base.height + (i - 1) /\ d.hash = links[i - 1] /\ d \in new
        BY <4>1, <4>3, <1>1, <1>2, <1>3, <1>5, EntriesAre, SMTT(30)
      <4>5. d.height = e.height - 1
        <5>1. \A h, k \in Int : h + (k - 1) = (h + k) - 1
          OBVIOUS
        <5>2. base.height \in Int /\ i \in Int
          BY <1>2
        <5> QED BY <3>1, <4>4, <5>1, <5>2
      <4> QED BY <3>1, <3>2, <3>4, <4>2, <4>3, <4>4, <4>5
    <3> QED BY <3>3, <3>4
  <2>6. CASE e \in Stay(relay, low, base.height)
    <3>1. e \in relay /\ e.height \in Nat /\ low <= e.height /\ e.height <= base.height
      BY <2>6, <1>6
    <3>2. e # BaseEntry(relay)
      <4>1. SUFFICES ASSUME e = BaseEntry(relay) PROVE FALSE
        OBVIOUS
      <4>2. \A f \in relay : f.height >= e.height
        BY <4>1, <1>2, BottomIsBase DEF Bottom
      <4>3. CASE b \in added
        <5>1. PICK i \in 1..n : b.height = base.height + i
          BY <4>3, <1>4
        <5> QED BY <5>1, <3>1, <2>4, <1>2
      <4>4. CASE b \in relay
        BY <4>2, <4>4, <2>3, <2>4, <1>10
      <4> QED BY <4>3, <4>4, <2>3, <1>3, <1>6
    <3>3. PICK d \in relay : /\ d.height = e.height - 1 /\ LinkPrev[e.hash] = d.hash
                             /\ e.chainWork = d.chainWork + LinkWork[e.hash]
      BY <3>1, <3>2, <1>2 DEF IsRelay, FormsChain
    <3>4. low <= d.height /\ d.height <= base.height
      <4>1. d.height \in Nat /\ b.height \in Nat /\ low <= b.height
        BY <2>3, <1>2, <1>10, EntryType
      <4>2. b.height <= d.height
        BY <4>1, <3>1, <3>3, <2>4
      <4> QED BY <4>1, <4>2, <3>1, <3>3, <1>2
    <3>5. d \in new
      BY <3>4, <1>3 DEF Stay
    <3> QED BY <3>3, <3>5
  <2> QED BY <2>5, <2>6, <1>3
<1>18. FormsChain(new)
  BY <1>11, <1>14, <1>15, <1>17 DEF FormsChain
<1> QED BY <1>1, <1>9, <1>16, <1>18 DEF IsRelay

\* The change a block makes is taken back by reverting it, and applying it to
\* the tables gives the state's relay.
LEMMA GrownReverts ==
    ASSUME NEW relay, NEW run, NEW t, Extends(relay, run, t)
    PROVE  LET change == Extended(relay, run)
           IN  /\ AppliedChange(relay, change.removed, change.added) = Grown(relay, change)
               /\ RevertedChange(Grown(relay, change), change.removed, change.added) = relay
<1>1. PICK base, n, low, added, removed, left :
         /\ base = BaseOf(relay, run) /\ n = Len(run.links) /\ low = CutOf(relay, run)
         /\ added = Extended(relay, run).added /\ removed = Extended(relay, run).removed
         /\ left = Stay(relay, low, base.height)
  OBVIOUS
<1>2. /\ base.height \in Nat /\ n \in Nat \ {0} /\ low \in Int /\ low <= base.height
      /\ IsRelay(relay)
  BY <1>1, RunFacts DEF Extends
<1>3. Without(relay, removed) = left
  BY <1>1, StayIs
<1>4. \A e \in relay : e.height \in Nat
  BY <1>2, EntryType
<1>5. removed = {e \in relay : e.height > base.height \/ e.height < low}
  BY <1>1, ExtendedIs
<1>6. \A e \in added : e.height \in Nat /\ e.height > base.height
  <2> TAKE e \in added
  <2>1. PICK i \in 1..n : e.height = base.height + i
    BY <1>1, RunAdds
  <2> QED BY <2>1, <1>2
<1>7. \A e \in left : e \in relay /\ e.height \in Nat /\ low <= e.height /\ e.height <= base.height
  BY <1>1, <1>4 DEF Stay
<1>8. Without(left, added) = left
  <2>1. \A e \in left, g \in added : e.height # g.height
    BY <1>2, <1>6, <1>7
  <2> QED BY <2>1 DEF Without
<1>9. Without(left \cup added, added) = left
  <2>1. \A e \in left, g \in added : e.height # g.height
    BY <1>2, <1>6, <1>7
  <2> QED BY <2>1 DEF Without
<1>10. Without(left, removed) = left
  <2>1. \A e \in left, g \in removed : e.height # g.height
    BY <1>2, <1>4, <1>5, <1>7
  <2> QED BY <2>1 DEF Without
<1>11. left \cup removed = relay
  <2>1. left \subseteq relay /\ removed \subseteq relay
    BY <1>5, <1>7
  <2>2. \A e \in relay : e \in left \/ e \in removed
    BY <1>1, <1>2, <1>4, <1>5 DEF Stay
  <2> QED BY <2>1, <2>2
<1>12. Grown(relay, Extended(relay, run)) = left \cup added
  BY <1>1, <1>3 DEF Grown
<1>13. AppliedChange(relay, removed, added) = left \cup added
  BY <1>3, <1>8 DEF AppliedChange
<1>14. RevertedChange(left \cup added, removed, added) = relay
  BY <1>9, <1>10, <1>11 DEF RevertedChange
<1> QED BY <1>1, <1>12, <1>13, <1>14

\* A block without a run changes nothing.
LEMMA NothingChanges ==
    ASSUME NEW relay
    PROVE  AppliedChange(relay, {}, {}) = relay /\ RevertedChange(relay, {}, {}) = relay
           /\ Without(relay, {}) \cup {} = relay
  BY DEF AppliedChange, RevertedChange, Without

------------------------------------------------------------------------------
\* Bonds stay proven: what a run replaces revokes the bonds proven above its
\* base, and a header that falls behind the window is below the new base.
ProvenBy(bond, e, base) ==
    \/ e.hash = bond.hash /\ e.height = bond.proven
    \/ e = base /\ bond.proven < e.height
ProvenOn(bonds, relay) ==
    \A b \in bonds : b.proven \in Int /\ \E e \in relay : ProvenBy(b, e, BaseEntry(relay))

\* Every bond stays proven on the relay a run leaves, when those proven above
\* its base are revoked.
LEMMA StayProven ==
    ASSUME NEW relay, NEW run, NEW t, Extends(relay, run, t),
           NEW bonds, ProvenOn(bonds, relay),
           Extended(relay, run).forks =>
               \A b \in bonds : ~(b.proven > Extended(relay, run).fork)
    PROVE  ProvenOn(bonds, Grown(relay, Extended(relay, run)))
<1>1. PICK base, n, low, added, new, bottom, old :
         /\ base = BaseOf(relay, run) /\ n = Len(run.links) /\ low = CutOf(relay, run)
         /\ added = Extended(relay, run).added /\ new = Grown(relay, Extended(relay, run))
         /\ bottom = BaseEntry(new) /\ old = BaseEntry(relay)
  OBVIOUS
<1>2. /\ base \in relay /\ base.height \in Nat /\ n \in Nat \ {0} /\ low \in Int
      /\ low <= base.height /\ IsRelay(relay) /\ IsRelay(new)
  BY <1>1, RunFacts, GrownIsRelay DEF Extends
<1>3. new = Stay(relay, low, base.height) \cup added
  BY <1>1, StayIs DEF Grown
<1>4. \A e \in added : e.height \in Nat /\ e.height > base.height
  <2> TAKE e \in added
  <2>1. PICK i \in 1..n : e.height = base.height + i
    BY <1>1, RunAdds
  <2> QED BY <2>1, <1>2
<1>5. \A e \in relay : e.height \in Nat
  BY <1>2, EntryType
<1>6. Bottom(new, bottom) /\ Bottom(relay, old)
  BY <1>1, <1>2, BottomIsBase
<1>7. bottom \in new /\ bottom.height \in Nat /\ low <= bottom.height /\ old.height \in Nat
      /\ old.height <= bottom.height
  <2>1. bottom \in new /\ old \in relay /\ \A f \in relay : f.height >= old.height
    BY <1>6 DEF Bottom
  <2>2. CASE bottom \in added
    BY <2>1, <2>2, <1>2, <1>4, <1>5
  <2>3. CASE bottom \in Stay(relay, low, base.height)
    BY <2>1, <2>3, <1>5 DEF Stay
  <2> QED BY <2>1, <2>2, <2>3, <1>3
<1>8. ASSUME NEW b \in bonds PROVE \E e \in new : ProvenBy(b, e, bottom)
  <2>0. b.proven \in Int
    BY DEF ProvenOn
  <2>1. PICK e \in relay : ProvenBy(b, e, old)
    BY <1>1 DEF ProvenOn
  <2>2. CASE e.hash = b.hash /\ e.height = b.proven
    <3>1. e.height <= base.height
      <4>1. Extended(relay, run).fork = base.height
        BY <1>1, ExtendedIs
      <4>2. CASE Extended(relay, run).forks
        <5>1. ~(b.proven > base.height)
          BY <4>1, <4>2
        <5> QED BY <2>0, <2>2, <5>1, <1>2
      <4>3. CASE ~Extended(relay, run).forks
        <5>1. ~(e.height > base.height)
          BY <4>3, <1>1, ExtendedIs
        <5> QED BY <5>1, <1>2, <1>5
      <4> QED BY <4>2, <4>3
    <3>2. CASE low <= e.height
      BY <2>2, <3>1, <3>2, <1>3 DEF Stay, ProvenBy
    <3>3. CASE ~(low <= e.height)
      <4>1. b.proven < bottom.height
        BY <2>2, <3>3, <1>2, <1>5, <1>7
      <4> QED BY <4>1, <1>7 DEF ProvenBy
    <3> QED BY <3>2, <3>3
  <2>3. CASE e = old /\ b.proven < e.height
    <3>1. b.proven < bottom.height
      BY <2>0, <2>3, <1>7
    <3> QED BY <3>1, <1>7 DEF ProvenBy
  <2> QED BY <2>1, <2>2, <2>3 DEF ProvenBy
<1> QED BY <1>1, <1>8 DEF ProvenOn
------------------------------------------------------------------------------
\* Chains are sequences of blocks of any kind.
IsChain(c) == \E D : c \in Seq(D)
Firsts(c, n) == SubSeq(c, 1, n)

\* A chain's length and places.
LEMMA ChainLen ==
    ASSUME NEW c, IsChain(c)
    PROVE  Len(c) \in Nat /\ DOMAIN c = 1..Len(c) /\ Firsts(c, Len(c)) = c
<1>1. PICK D : c \in Seq(D)
  BY DEF IsChain
<1> QED BY <1>1 DEF Firsts

\* The first blocks of a chain.
LEMMA FrontIs ==
    ASSUME NEW c, IsChain(c), NEW n \in 0..Len(c)
    PROVE  /\ IsChain(Firsts(c, n)) /\ Len(Firsts(c, n)) = n
           /\ \A i \in 1..n : Firsts(c, n)[i] = c[i]
           /\ \A k \in 0..n : Firsts(Firsts(c, n), k) = Firsts(c, k)
<1>1. PICK D : c \in Seq(D)
  BY DEF IsChain
<1>2. Len(c) \in Nat /\ n \in Nat /\ n <= Len(c) /\ 1 <= n + 1
  BY <1>1
<1>3. Firsts(c, n) \in Seq(D) /\ Len(Firsts(c, n)) = n /\ \A i \in 1..n : Firsts(c, n)[i] = c[i]
  BY <1>1, <1>2 DEF Firsts
<1>4. ASSUME NEW k \in 0..n PROVE Firsts(Firsts(c, n), k) = Firsts(c, k)
  <2>1. k \in Nat /\ k <= n /\ k <= Len(c)
    BY <1>2
  <2>2. PICK a : a = Firsts(c, n)
    OBVIOUS
  <2>3. a \in Seq(D) /\ Len(a) = n /\ \A i \in 1..n : a[i] = c[i]
    BY <1>3, <2>2
  <2>4. Firsts(a, k) \in Seq(D) /\ Len(Firsts(a, k)) = k /\ \A i \in 1..k : Firsts(a, k)[i] = a[i]
    BY <2>1, <2>3 DEF Firsts
  <2>5. Firsts(c, k) \in Seq(D) /\ Len(Firsts(c, k)) = k /\ \A i \in 1..k : Firsts(c, k)[i] = c[i]
    BY <1>1, <2>1 DEF Firsts
  <2>6. \A i \in 1..k : Firsts(a, k)[i] = Firsts(c, k)[i]
    BY <2>1, <2>3, <2>4, <2>5
  <2>7. PICK x, y : x = Firsts(a, k) /\ y = Firsts(c, k)
    OBVIOUS
  <2>8. x \in Seq(D) /\ y \in Seq(D) /\ Len(x) = Len(y) /\ \A i \in 1..Len(x) : x[i] = y[i]
    BY <2>4, <2>5, <2>6, <2>7
  <2> QED BY <2>8, <2>7, <2>2
<1> QED BY <1>3, <1>4 DEF IsChain

\* A chain and one block more.
LEMMA AppendIs ==
    ASSUME NEW c, IsChain(c), NEW b
    PROVE  /\ IsChain(Append(c, b)) /\ Len(Append(c, b)) = Len(c) + 1
           /\ Append(c, b)[Len(c) + 1] = b
           /\ \A i \in 1..Len(c) : Append(c, b)[i] = c[i]
           /\ \A k \in 0..Len(c) : Firsts(Append(c, b), k) = Firsts(c, k)
           /\ Firsts(Append(c, b), Len(c)) = c
<1>1. PICK D0 : c \in Seq(D0)
  BY DEF IsChain
<1>2. PICK D : D = D0 \cup {b}
  OBVIOUS
<1>3. c \in Seq(D) /\ b \in D
  BY <1>1, <1>2
<1>4. PICK d : d = Append(c, b)
  OBVIOUS
<1>5. /\ d \in Seq(D) /\ Len(d) = Len(c) + 1 /\ d[Len(c) + 1] = b
      /\ Len(c) \in Nat /\ \A i \in 1..Len(c) : d[i] = c[i]
  BY <1>3, <1>4
<1>6. ASSUME NEW k \in 0..Len(c) PROVE Firsts(d, k) = Firsts(c, k)
  <2>1. k \in Nat /\ k <= Len(c) /\ k <= Len(d)
    BY <1>5
  <2>2. Firsts(d, k) \in Seq(D) /\ Len(Firsts(d, k)) = k /\ \A i \in 1..k : Firsts(d, k)[i] = d[i]
    BY <1>5, <2>1 DEF Firsts
  <2>3. Firsts(c, k) \in Seq(D) /\ Len(Firsts(c, k)) = k /\ \A i \in 1..k : Firsts(c, k)[i] = c[i]
    BY <1>3, <2>1 DEF Firsts
  <2>4. PICK x, y : x = Firsts(d, k) /\ y = Firsts(c, k)
    OBVIOUS
  <2>5. x \in Seq(D) /\ y \in Seq(D) /\ Len(x) = Len(y) /\ \A i \in 1..Len(x) : x[i] = y[i]
    BY <2>1, <2>2, <2>3, <2>4, <1>5
  <2> QED BY <2>5, <2>4
<1>7. Firsts(d, Len(c)) = c
  <2>1. Len(c) \in 0..Len(c)
    BY <1>5
  <2> QED BY <2>1, <1>6, ChainLen
<1> QED BY <1>4, <1>5, <1>6, <1>7 DEF IsChain

------------------------------------------------------------------------------
Fresh == [sound |-> TRUE, state |-> GenesisState]
Replaying(c) ==
    CHOOSE after : after =
        [n \in 0..Len(c) |->
            IF n = 0 THEN Fresh
            ELSE ReplayedBlock(after[n - 1], c[n], TimesOf(SubSeq(c, 1, n - 1)))]

\* The recursive function that replays a chain, by its equation.
LEMMA ReplayingIs ==
    ASSUME NEW c, Len(c) \in Nat
    PROVE  Replaying(c) =
        [n \in 0..Len(c) |->
            IF n = 0 THEN Fresh
            ELSE ReplayedBlock(Replaying(c)[n - 1], c[n], TimesOf(SubSeq(c, 1, n - 1)))]
<1> DEFINE Then(r, n) == ReplayedBlock(r, c[n], TimesOf(SubSeq(c, 1, n - 1)))
           P(m) == \E g : g = [n \in 0..m |-> IF n = 0 THEN Fresh ELSE Then(g[n - 1], n)]
<1>1. P(0)
  <2>1. [n \in 0..0 |-> Fresh] = [n \in 0..0 |->
           IF n = 0 THEN Fresh ELSE Then([i \in 0..0 |-> Fresh][n - 1], n)]
    OBVIOUS
  <2> QED BY <2>1
<1>2. ASSUME NEW m \in Nat, P(m) PROVE P(m + 1)
  <2> HIDE DEF Then
  <2>1. PICK g : g = [n \in 0..m |-> IF n = 0 THEN Fresh ELSE Then(g[n - 1], n)]
    BY <1>2
  <2>2. PICK h : h = [n \in 0..(m + 1) |-> IF n = m + 1 THEN Then(g[m], n) ELSE g[n]]
    OBVIOUS
  <2>3. ASSUME NEW n \in 0..(m + 1)
        PROVE  h[n] = IF n = 0 THEN Fresh ELSE Then(h[n - 1], n)
    <3>1. CASE n = m + 1
      BY <3>1, <2>2
    <3>2. CASE n # m + 1
      <4>1. n \in 0..m /\ h[n] = g[n]
        BY <3>2, <2>2
      <4>2. n # 0 => n - 1 \in 0..(m + 1) /\ n - 1 # m + 1
        BY <4>1
      <4> QED BY <4>1, <4>2, <2>1, <2>2
    <3> QED BY <3>1, <3>2
  <2>4. h = [n \in 0..(m + 1) |-> IF n = 0 THEN Fresh ELSE Then(h[n - 1], n)]
    BY <2>2, <2>3
  <2> QED BY <2>4
<1>3. \A m \in Nat : P(m)
  <2>1. PICK S : S = {m \in Nat : P(m)}
    OBVIOUS
  <2> HIDE DEF P
  <2>2. 0 \in S /\ \A n \in Nat : n \in S => n + 1 \in S
    BY <1>1, <1>2, <2>1
  <2>3. Nat \subseteq S
    BY <2>2, SetInd
  <2> QED BY <2>1, <2>3
<1> QED BY <1>3 DEF Replaying

\* Replay is its last value.
LEMMA ReplayIs ==
    ASSUME NEW c
    PROVE  Replay(c) = Replaying(c)[Len(c)]
BY DEF Replay, Replaying, Fresh

\* No block leaves the genesis state.
LEMMA ReplayNothing == Replay(<<>>) = Fresh
<1>1. Len(<<>>) = 0 /\ 0 \in 0..0
  OBVIOUS
<1> QED BY <1>1, ReplayIs, ReplayingIs

\* Replaying one block more applies it to the state the others leave.
LEMMA ReplayMore ==
    ASSUME NEW c, IsChain(c), NEW b
    PROVE  Replay(Append(c, b)) = ReplayedBlock(Replay(c), b, TimesOf(c))
<1>1. PICK d : d = Append(c, b)
  OBVIOUS
<1>2. PICK N : N = Len(c)
  OBVIOUS
<1>3. N \in Nat /\ Len(d) = N + 1
  BY <1>1, <1>2, ChainLen, AppendIs
<1>4. PICK f : f = Replaying(c)
  OBVIOUS
<1>5. PICK g : g = Replaying(d)
  OBVIOUS
<1>6. \A n \in 0..N : f[n] = IF n = 0 THEN Fresh
                             ELSE ReplayedBlock(f[n - 1], c[n], TimesOf(Firsts(c, n - 1)))
  BY <1>2, <1>3, <1>4, ReplayingIs DEF Firsts
<1>7. \A n \in 0..(N + 1) :
         g[n] = IF n = 0 THEN Fresh
                ELSE ReplayedBlock(g[n - 1], d[n], TimesOf(Firsts(d, n - 1)))
  BY <1>3, <1>5, ReplayingIs DEF Firsts
<1>8. ASSUME NEW n \in Nat, n + 1 <= N, f[n] = g[n] PROVE f[n + 1] = g[n + 1]
  <2>1. n + 1 \in 0..N /\ n + 1 \in 0..(N + 1) /\ n + 1 # 0 /\ (n + 1) - 1 = n
        /\ n \in 0..N /\ n + 1 \in 1..N
    BY <1>8, <1>3
  <2>2. d[n + 1] = c[n + 1] /\ Firsts(d, n) = Firsts(c, n)
    BY <2>1, <1>1, <1>2, AppendIs
  <2>3. f[n + 1] = ReplayedBlock(f[n], c[n + 1], TimesOf(Firsts(c, n)))
    BY <2>1, <1>6
  <2>4. g[n + 1] = ReplayedBlock(g[n], d[n + 1], TimesOf(Firsts(d, n)))
    BY <2>1, <1>7
  <2> QED BY <1>8, <2>2, <2>3, <2>4
<1>9. f[0] = g[0]
  <2>1. 0 \in 0..N /\ 0 \in 0..(N + 1)
    BY <1>3
  <2>2. f[0] = Fresh
    BY <2>1, <1>6
  <2>3. g[0] = Fresh
    BY <2>1, <1>7
  <2> QED BY <2>2, <2>3
<1>10. f[N] = g[N]
  <2>1. AgreeOn(f, g, N)
    BY <1>8, <1>9 DEF AgreeOn
  <2>2. N \in 0..N
    BY <1>3
  <2> QED BY <1>3, <2>1, <2>2, SameFunction DEF Agree
<1>11. g[N + 1] = ReplayedBlock(g[N], d[N + 1], TimesOf(Firsts(d, N)))
  <2>1. N + 1 \in 0..(N + 1) /\ N + 1 # 0 /\ (N + 1) - 1 = N
    BY <1>3
  <2> QED BY <2>1, <1>7
<1>12. d[N + 1] = b /\ Firsts(d, N) = c
  BY <1>1, <1>2, AppendIs
<1> QED BY <1>1, <1>2, <1>3, <1>4, <1>5, <1>10, <1>11, <1>12, ReplayIs

------------------------------------------------------------------------------
\* What apply_batch works out on the way, by name.
BondsAt(s, b, times) == BondsWith(s, Effects(s, b, times))
WeighedAt(s, b, times) == Weighed(s, BondsAt(s, b, times), b)
SubsidyAt(s, b, times) ==
    SubsidyFor(RewardAt(s.height), b.signer, WeighedAt(s, b, times).window.counts,
               BondsAt(s, b, times), b.time)
Allowed(s, b, times) ==
    Accepts(s, b, times, Effects(s, b, times), BondsAt(s, b, times),
            WeighedAt(s, b, times), SubsidyAt(s, b, times))
NextState(s, b, times) ==
    After(s, b, Effects(s, b, times), BondsAt(s, b, times), WeighedAt(s, b, times),
          SubsidyAt(s, b, times))

\* apply_batch, its result by parts.
LEMMA ApplyIs ==
    ASSUME NEW s, NEW b, NEW times
    PROVE  ApplyBatch(s, b, times)
             = [ok |-> Allowed(s, b, times), claim |-> Claim(s, WeighedAt(s, b, times)),
                effects |-> Effects(s, b, times), state |-> NextState(s, b, times)]
BY DEF ApplyBatch, Changed, Bonded, Weighted, Subsidized, Allowed, NextState, BondsAt,
       WeighedAt, SubsidyAt

FiniteBody(b) ==
    IsFiniteSet(b.spends) /\ IsFiniteSet(OutputsOf(b)) /\ IsFiniteSet(b.kernels)
WellFormed(b) ==
    /\ b.time \in Nat /\ b.fees \in Nat /\ Len(b.regs) \in Nat
    /\ FiniteBody(b)
    /\ b.relay # NoRun => b.relay.links \in Seq(Links)

\* A block's relay change is one the tables can apply and take back.
LEMMA RelayStep ==
    ASSUME NEW s, NEW b, NEW times, IsRelay(s.relay), WellFormed(b), Allowed(s, b, times)
    PROVE  LET e == Effects(s, b, times)
               relay == RelayWith(s, e)
           IN  /\ IsRelay(relay)
               /\ AppliedChange(s.relay, e.relayRemoved, e.relayAdded) = relay
               /\ RevertedChange(relay, e.relayRemoved, e.relayAdded) = s.relay
<1>1. PICK e : e = Effects(s, b, times)
  OBVIOUS
<1>2. PICK change : change = RelayChange(s, b)
  OBVIOUS
<1>3. e.relayAdded = change.added /\ e.relayRemoved = change.removed
  BY <1>1, <1>2 DEF Effects, EffectsOf
<1>4. RelayWith(s, e) = Grown(s.relay, change)
  BY <1>3 DEF RelayWith, Grown
<1>5. CASE b.relay = NoRun
  <2>1. change.added = {} /\ change.removed = {}
    BY <1>5, <1>2 DEF RelayChange, NoChange
  <2>2. Grown(s.relay, change) = s.relay
    BY <2>1, NothingChanges DEF Grown
  <2> QED BY <1>1, <1>3, <1>4, <2>1, <2>2, NothingChanges
<1>6. CASE b.relay # NoRun
  <2>1. ExtendAllowed(s.relay, b.relay, b.time) /\ RunVerifies(b.relay)
    BY <1>6 DEF Allowed, Accepts, ContentsOk
  <2>2. Extends(s.relay, b.relay, b.time)
    BY <1>6, <2>1 DEF Extends, WellFormed
  <2>3. change = Extended(s.relay, b.relay)
    <3>1. OnRelay(s.relay, b.relay.prev)
      BY <2>1 DEF ExtendAllowed
    <3> QED BY <3>1, <1>2, <1>6 DEF RelayChange
  <2>4. IsRelay(Grown(s.relay, change))
    BY <2>2, <2>3, GrownIsRelay
  <2>5. /\ AppliedChange(s.relay, change.removed, change.added) = Grown(s.relay, change)
        /\ RevertedChange(Grown(s.relay, change), change.removed, change.added) = s.relay
    BY <2>2, <2>3, GrownReverts
  <2> QED BY <1>1, <1>3, <1>4, <2>4, <2>5
<1> QED BY <1>5, <1>6

------------------------------------------------------------------------------
\* Bonds: finitely many, one per id, each proven on the relay.
OneEach(bonds) == \A b, d \in bonds : b.id = d.id => b = d
BondsOk(bonds, relay) ==
    /\ IsFiniteSet(bonds) /\ OneEach(bonds) /\ ProvenOn(bonds, relay)

\* Effects on a bond set with one entry for each bond: applying them gives
\* what the block leaves, undoing them what it found.
LEMMA BondEffects ==
    ASSUME NEW bonds, NEW removed, NEW added, OneEach(bonds), OneEach(added),
           removed \subseteq bonds,
           \A a \in added : ~Registered(bonds \ removed, a.id)
    PROVE  /\ AppliedEffects(bonds, removed, added) = (bonds \ removed) \cup added
           /\ UndoneEffects((bonds \ removed) \cup added, removed, added) = bonds
           /\ OneEach((bonds \ removed) \cup added)
<1>1. ASSUME NEW b \in bonds
      PROVE  b.id \in {g.id : g \in removed} \cup {c.id : c \in added} <=> b \in removed
                \/ b.id \in {c.id : c \in added}
  BY DEF OneEach
<1>2. ASSUME NEW b \in bonds, b \notin removed PROVE b.id \notin {c.id : c \in added}
  BY <1>2 DEF Registered
<1>3. AppliedEffects(bonds, removed, added) = (bonds \ removed) \cup added
  BY <1>1, <1>2 DEF AppliedEffects, WithEntries
<1>4. ASSUME NEW b \in (bonds \ removed) \cup added
      PROVE  b.id \in {g.id : g \in added} \cup {c.id : c \in removed} <=> b \notin bonds \ removed
  BY <1>2 DEF OneEach
<1>5. UndoneEffects((bonds \ removed) \cup added, removed, added)
        = (bonds \ removed) \cup removed
  BY <1>4 DEF UndoneEffects, WithEntries
<1>6. OneEach((bonds \ removed) \cup added)
  BY <1>2 DEF OneEach
<1> QED BY <1>3, <1>5, <1>6

\* The bonds a block leaves are one for each identity, proven on its relay,
\* and its effects lead there and back (apply_bond_effects).
LEMMA BondStep ==
    ASSUME MaxRegistrations <= 1, MaxRegistrations \in Nat,
           NEW s, NEW b, NEW times, IsRelay(s.relay), BondsOk(s.bonds, s.relay),
           WellFormed(b), Allowed(s, b, times)
    PROVE  LET e == Effects(s, b, times)
               bonds == BondsAt(s, b, times)
           IN  /\ BondsOk(bonds, RelayWith(s, e))
               /\ AppliedEffects(s.bonds, e.bondsRemoved, e.bondsAdded) = bonds
               /\ UndoneEffects(bonds, e.bondsRemoved, e.bondsAdded) = s.bonds
<1>1. PICK e : e = Effects(s, b, times)
  OBVIOUS
<1>2. PICK change : change = RelayChange(s, b)
  OBVIOUS
<1>3. PICK relay : relay = RelayWith(s, e)
  OBVIOUS
<1>4. PICK left : left = s.bonds \ e.bondsRemoved
  OBVIOUS
<1>5. IsRelay(relay) /\ relay = Grown(s.relay, change)
  <2>1. IsRelay(relay)
    BY <1>1, <1>3, RelayStep
  <2> QED BY <2>1, <1>1, <1>2, <1>3 DEF Effects, EffectsOf, RelayWith, Grown
<1>6. BondsAt(s, b, times) = left \cup e.bondsAdded
  BY <1>1, <1>4 DEF BondsAt, BondsWith
<1>7. e.bondsAdded = {EntryOf(b.regs[i]) : i \in 1..Len(b.regs)}
  BY <1>1 DEF Effects, EffectsOf
<1>8. e.bondsRemoved \subseteq s.bonds
      /\ (change.forks => \A d \in left : ~(d.proven > change.fork))
  <2>1. PICK expired : expired = Expired(s.bonds, MinNextTime(times))
    OBVIOUS
  <2>2. e.bondsRemoved = expired \cup RevokedBy(s.bonds \ expired, change)
    BY <1>1, <1>2, <2>1 DEF Effects, EffectsOf
  <2>3. expired \subseteq s.bonds
    BY <2>1 DEF Expired
  <2> QED BY <2>2, <2>3, <1>4 DEF RevokedBy, ProvenAbove
<1>9. ASSUME NEW i \in 1..Len(b.regs)
      PROVE  /\ ~Registered(left, b.regs[i].bond.id)
             /\ EntryOf(b.regs[i]).id = b.regs[i].bond.id
             /\ EntryOf(b.regs[i]).proven = b.regs[i].proven
             /\ EntryOf(b.regs[i]).hash = b.regs[i].hash
             /\ \E x \in relay : x.height = b.regs[i].proven /\ x.hash = b.regs[i].hash
  <2>1. PrecheckRegistration(left, b.regs[i], WeighedAt(s, b, times).work, b.time)
        /\ RegistrationVerifies(relay, b.regs[i], WeighedAt(s, b, times).work)
    BY <1>1, <1>3, <1>4 DEF Allowed, Accepts
  <2>2. PICK x \in relay : x.height = b.regs[i].proven
    BY <2>1 DEF RegistrationVerifies, HasHeight
  <2>3. AtHeight(relay, x.height) = x
    BY <1>5, AtHeightIs
  <2>4. x.hash = b.regs[i].hash
    BY <2>1, <2>2, <2>3 DEF RegistrationVerifies
  <2> QED BY <2>1, <2>2, <2>4 DEF PrecheckRegistration, EntryOf
<1>10. Len(b.regs) \in Nat /\ Len(b.regs) <= 1
  BY DEF WellFormed, Allowed, Accepts, ContentsOk
<1>11. IsFiniteSet(e.bondsAdded) /\ OneEach(e.bondsAdded)
  <2>1. CASE Len(b.regs) = 0
    <3>1. e.bondsAdded = {}
      BY <2>1, <1>7
    <3> QED BY <3>1, FS_EmptySet DEF OneEach
  <2>2. CASE Len(b.regs) = 1
    <3>1. e.bondsAdded = {EntryOf(b.regs[1])}
      BY <2>2, <1>7
    <3> QED BY <3>1, FS_Singleton DEF OneEach
  <2>3. \A n \in Nat : n <= 1 => n = 0 \/ n = 1
    OBVIOUS
  <2>4. Len(b.regs) = 0 \/ Len(b.regs) = 1
    BY <2>3, <1>10
  <2> QED BY <2>1, <2>2, <2>4
<1>12. \A a \in e.bondsAdded : ~Registered(left, a.id)
  BY <1>7, <1>9
<1>13. /\ AppliedEffects(s.bonds, e.bondsRemoved, e.bondsAdded) = left \cup e.bondsAdded
       /\ UndoneEffects(left \cup e.bondsAdded, e.bondsRemoved, e.bondsAdded) = s.bonds
       /\ OneEach(left \cup e.bondsAdded)
  <2>1. PICK bonds, gone, come : bonds = s.bonds /\ gone = e.bondsRemoved /\ come = e.bondsAdded
    OBVIOUS
  <2>2. OneEach(bonds) /\ OneEach(come) /\ gone \subseteq bonds /\ left = bonds \ gone
        /\ \A a \in come : ~Registered(bonds \ gone, a.id)
    BY <2>1, <1>4, <1>8, <1>11, <1>12 DEF BondsOk
  <2>3. /\ AppliedEffects(bonds, gone, come) = (bonds \ gone) \cup come
        /\ UndoneEffects((bonds \ gone) \cup come, gone, come) = bonds
        /\ OneEach((bonds \ gone) \cup come)
    BY <2>2, BondEffects
  <2> QED BY <2>1, <2>2, <2>3
<1>14. IsFiniteSet(left \cup e.bondsAdded)
  <2>1. IsFiniteSet(s.bonds) /\ left \subseteq s.bonds
    BY <1>4 DEF BondsOk
  <2>2. IsFiniteSet(left)
    BY <2>1, FS_Subset
  <2> QED BY <2>2, <1>11, FS_Union
<1>15. ProvenOn(left, relay)
  <2>1. ProvenOn(left, s.relay)
    BY <1>4 DEF BondsOk, ProvenOn
  <2>2. CASE b.relay = NoRun
    <3>1. change.added = {} /\ change.removed = {}
      BY <2>2, <1>2 DEF RelayChange, NoChange
    <3>2. relay = s.relay
      BY <3>1, <1>5, NothingChanges DEF Grown
    <3> QED BY <3>2, <2>1
  <2>3. CASE b.relay # NoRun
    <3>1. ExtendAllowed(s.relay, b.relay, b.time) /\ RunVerifies(b.relay)
      BY <2>3 DEF Allowed, Accepts, ContentsOk
    <3>2. Extends(s.relay, b.relay, b.time)
      BY <2>3, <3>1 DEF Extends, WellFormed
    <3>3. change = Extended(s.relay, b.relay)
      <4>1. OnRelay(s.relay, b.relay.prev)
        BY <3>1 DEF ExtendAllowed
      <4> QED BY <4>1, <1>2, <2>3 DEF RelayChange
    <3> QED BY <3>2, <3>3, <2>1, <1>5, <1>8, StayProven
  <2> QED BY <2>2, <2>3
<1>16. ProvenOn(e.bondsAdded, relay)
  <2>1. ASSUME NEW a \in e.bondsAdded
        PROVE  a.proven \in Int /\ \E x \in relay : ProvenBy(a, x, BaseEntry(relay))
    <3>1. PICK i \in 1..Len(b.regs) : a = EntryOf(b.regs[i])
      BY <1>7
    <3>2. PICK x \in relay : x.height = a.proven /\ x.hash = a.hash
      BY <3>1, <1>9
    <3>3. x.height \in Nat
      BY <1>5, EntryType
    <3> QED BY <3>2, <3>3 DEF ProvenBy
  <2> QED BY <2>1 DEF ProvenOn
<1>17. ProvenOn(left \cup e.bondsAdded, relay)
  BY <1>15, <1>16 DEF ProvenOn
<1> QED BY <1>1, <1>3, <1>6, <1>13, <1>14, <1>17 DEF BondsOk

------------------------------------------------------------------------------
\* Weights: no block counts for less than one or more than its work.
StateAssumption ==
    /\ GenesisWork \in Nat \ {0}
    /\ \A h, t \in Nat : TargetWork(h, t) \in Nat \ {0}
    /\ \A h \in Nat : RewardAt(h) \in Nat
    /\ MaxRegistrations \in Nat /\ MaxRegistrations <= 1
    /\ CapWindow \in Nat \ {0} /\ CapK \in Nat \ {0}
    /\ WorkCapWindow \in Nat \ {0}
    /\ Headroom \in Nat \ {0} /\ SliverDivisor \in Nat \ {0}

\* Division does not grow a natural.
LEMMA DivLemma ==
    ASSUME NEW a \in Nat, NEW d \in Nat \ {0}
    PROVE  a \div d \in Nat /\ a \div d <= a
<1>1. PICK q \in Int : q = a \div d
  OBVIOUS
<1>2. q >= 0
  BY <1>1
<1>3. q <= a
  BY <1>1, SMTT(30)
<1> QED BY <1>1, <1>2, <1>3

\* A block is credited with something, and with no more than it may be.
LEMMA CreditedBound ==
    ASSUME StateAssumption, NEW counts, NEW bonds, NEW h, NEW signer, NEW t,
           NEW w \in Nat \ {0}
    PROVE  /\ Credited(counts, bonds, h, signer, w, t) \in Nat \ {0}
           /\ Credited(counts, bonds, h, signer, w, t) <= w
<1>1. Sliver(w) \in Nat \ {0} /\ Sliver(w) <= w
  <2>1. w \div SliverDivisor \in Nat /\ w \div SliverDivisor <= w
    BY DivLemma DEF StateAssumption
  <2> QED BY <2>1 DEF Sliver, Most
<1> QED BY <1>1 DEF Credited

\* The subsidy is a natural number.
LEMMA SubsidyIsNat ==
    ASSUME StateAssumption, NEW reward \in Nat, NEW signer, NEW counts, NEW bonds,
           IsFiniteSet(bonds), CountOf(counts, signer) \in Nat, NEW t
    PROVE  SubsidyFor(reward, signer, counts, bonds, t) \in Nat
<1>1. PICK can : can = {b \in bonds : EligibleAt(b, t)}
  OBVIOUS
<1>2. Cardinality(can) \in Nat
  BY <1>1, FS_Subset, FS_CardinalityType
<1>3. PICK k : k = Clamped(Cardinality(can), 1, CapK)
  OBVIOUS
<1>4. k \in Nat \ {0}
  BY <1>2, <1>3 DEF Clamped, Most, Least, StateAssumption
<1>5. SignerCap(bonds, t) = (CapWindow + k - 1) \div k
  BY <1>1, <1>3 DEF SignerCap, CeilDiv
<1>6. SignerCap(bonds, t) \in Nat
  <2>1. CapWindow + k - 1 \in Nat
    BY <1>4 DEF StateAssumption
  <2> QED BY <2>1, <1>4, <1>5, DivLemma
<1>7. PICK n, cap : n = CountOf(counts, signer) /\ cap = SignerCap(bonds, t)
  OBVIOUS
<1>8. n \in Nat /\ cap \in Nat
  BY <1>6, <1>7
<1>9. CappedSubsidy(reward, n, cap) \in Nat
  <2>1. CASE n <= cap
    BY <2>1 DEF CappedSubsidy
  <2>2. CASE ~(n <= cap)
    <3>1. n \in Nat \ {0} /\ reward * cap \in Nat
      BY <2>2, <1>8
    <3>2. (reward * cap) \div n \in Nat
      BY <3>1, DivLemma
    <3> QED BY <3>2, <2>2 DEF CappedSubsidy
  <2> QED BY <2>1, <2>2
<1> QED BY <1>7, <1>9 DEF SubsidyFor

------------------------------------------------------------------------------
\* The signers and the works of a chain's blocks, the genesis block's first.
SignersOf(c) == [i \in 1..(Len(c) + 1) |-> IF i = 1 THEN NoSigner ELSE c[i - 1].signer]
TimeAt(c, h) == IF h = 0 THEN 0 ELSE c[h].time
WorksOf(c) == [h \in 0..Len(c) |->
    IF h = 0 THEN GenesisWork ELSE TargetWork(h, TimeAt(c, h - 1))]

LowSigner(n) == Less(n, CapWindow) + 1
LowWork(n) == Less(n, WorkCapWindow)

ShapeOk(s, c) ==
    /\ s = [height |-> Len(c) + 1, time |-> TimeAt(c, Len(c)), depth |-> s.depth,
            capped |-> s.capped, supply |-> s.supply, utxos |-> s.utxos,
            kernels |-> s.kernels, bonds |-> s.bonds, relay |-> s.relay,
            recent |-> s.recent, counts |-> s.counts, low |-> s.low]
    /\ s.depth \in Nat /\ s.capped \in Nat /\ s.supply \in Nat /\ s.capped <= s.depth
SignersOk(s, c) ==
    [recent |-> s.recent, counts |-> s.counts]
        = WindowOf(SignersOf(c), LowSigner(Len(c) + 1), Len(c) + 1)
FloorOk(s, c) == Enumerates(s.low, WorksOf(c), LowWork(Len(c) + 1), Len(c) + 1)

StateOk(s, c) ==
    /\ ShapeOk(s, c) /\ SignersOk(s, c) /\ FloorOk(s, c)
    /\ IsRelay(s.relay) /\ BondsOk(s.bonds, s.relay)

WellTimed(c) == \A i \in 1..Len(c) : c[i].time \in Nat

\* The works of a chain's headers, and those of one block more.
LEMMA WorksStep ==
    ASSUME StateAssumption, NEW c, IsChain(c), WellTimed(c), NEW b, b.time \in Nat
    PROVE  /\ WellTimed(Append(c, b))
           /\ \A h \in 0..(Len(c) + 1) : /\ WorksOf(Append(c, b))[h] \in Nat \ {0}
                                         /\ h <= Len(c) => WorksOf(Append(c, b))[h] = WorksOf(c)[h]
           /\ WorksOf(Append(c, b))[Len(c) + 1] = TargetWork(Len(c) + 1, TimeAt(c, Len(c)))
           /\ TimeAt(c, Len(c)) \in Nat
           /\ TimeAt(Append(c, b), Len(c) + 1) = b.time
<1>1. PICK d : d = Append(c, b)
  OBVIOUS
<1>2. PICK n : n = Len(c)
  OBVIOUS
<1>3. n \in Nat /\ Len(d) = n + 1 /\ d[n + 1] = b /\ \A i \in 1..n : d[i] = c[i]
  BY <1>1, <1>2, ChainLen, AppendIs
<1>4. WellTimed(d)
  BY <1>2, <1>3 DEF WellTimed
<1>5. \A k \in 0..n : TimeAt(d, k) = TimeAt(c, k) /\ TimeAt(d, k) \in Nat
  BY <1>2, <1>3 DEF WellTimed, TimeAt
<1>6. ASSUME NEW h \in 0..(n + 1)
      PROVE  WorksOf(d)[h] \in Nat \ {0} /\ (h <= n => WorksOf(d)[h] = WorksOf(c)[h])
             /\ (h = n + 1 => WorksOf(d)[h] = TargetWork(h, TimeAt(c, n)))
  <2>1. WorksOf(d)[h] = IF h = 0 THEN GenesisWork ELSE TargetWork(h, TimeAt(d, h - 1))
    BY <1>3 DEF WorksOf
  <2>2. h <= n => WorksOf(c)[h] = IF h = 0 THEN GenesisWork ELSE TargetWork(h, TimeAt(c, h - 1))
    BY <1>2, <1>3 DEF WorksOf
  <2>3. CASE h = 0
    <3>1. GenesisWork \in Nat \ {0}
      BY DEF StateAssumption
    <3>2. h # n + 1 /\ h <= n
      BY <2>3, <1>3
    <3> QED BY <2>1, <2>2, <2>3, <3>1, <3>2
  <2>4. CASE h # 0
    <3>1. h - 1 \in 0..n /\ h \in Nat /\ (h = n + 1 => h - 1 = n)
      BY <2>4, <1>3
    <3>2. TargetWork(h, TimeAt(d, h - 1)) \in Nat \ {0}
      BY <3>1, <1>5 DEF StateAssumption
    <3> QED BY <3>1, <3>2, <2>1, <2>2, <2>4, <1>5
  <2> QED BY <2>3, <2>4
<1>7. TimeAt(d, n + 1) = b.time
  BY <1>3 DEF TimeAt
<1>8. n + 1 \in 0..(n + 1) /\ n \in 0..n
  BY <1>3
<1> QED BY <1>1, <1>2, <1>4, <1>5, <1>6, <1>7, <1>8

\* Windows of columns that agree on their range are the same.
LEMMA SameWindow ==
    ASSUME NEW D, NEW sg \in Seq(D), NEW sh \in Seq(D), NEW lo \in Nat \ {0}, NEW hi \in Nat,
           hi <= Len(sg), hi <= Len(sh), \A i \in lo..hi : sg[i] = sh[i]
    PROVE  WindowOf(sg, lo, hi) = WindowOf(sh, lo, hi)
<1>1. \A s : Places(sg, lo, hi, s) = Places(sh, lo, hi, s)
  BY DEF Places
<1>2. Who(sg, lo, hi) = Who(sh, lo, hi)
  BY DEF Who
<1>3. CountsOf(sg, lo, hi) = CountsOf(sh, lo, hi)
  BY <1>1, <1>2 DEF CountsOf
<1>4. SubSeq(sg, lo, hi) = SubSeq(sh, lo, hi)
  <2>1. PICK a, b : a = SubSeq(sg, lo, hi) /\ b = SubSeq(sh, lo, hi)
    OBVIOUS
  <2>2. a \in Seq(D) /\ b \in Seq(D)
    BY <2>1, SubSeqProperties
  <2>3. /\ Len(a) = (IF lo <= hi THEN hi - lo + 1 ELSE 0)
        /\ Len(b) = (IF lo <= hi THEN hi - lo + 1 ELSE 0)
    BY <2>1
  <2>4. ASSUME NEW i \in 1..Len(a) PROVE a[i] = b[i]
    <3>1. lo <= hi /\ lo + i - 1 \in lo..hi
      BY <2>3
    <3>2. a[i] = sg[lo + i - 1] /\ b[i] = sh[lo + i - 1]
      BY <2>1, <2>3, <3>1
    <3> QED BY <3>1, <3>2
  <2> QED BY <2>1, <2>2, <2>3, <2>4
<1> QED BY <1>3, <1>4 DEF WindowOf

\* The signers' column, and that of one block more.
LEMMA SignersAre ==
    ASSUME NEW c, IsChain(c), NEW b
    PROVE  /\ \E D : SignersOf(c) \in Seq(D) /\ SignersOf(Append(c, b)) \in Seq(D)
           /\ Len(SignersOf(c)) = Len(c) + 1
           /\ Len(SignersOf(Append(c, b))) = Len(c) + 2
           /\ \A i \in 1..(Len(c) + 1) : SignersOf(Append(c, b))[i] = SignersOf(c)[i]
           /\ SignersOf(Append(c, b))[Len(c) + 2] = b.signer
<1>1. PICK d : d = Append(c, b)
  OBVIOUS
<1>2. PICK n : n = Len(c)
  OBVIOUS
<1>3. n \in Nat /\ Len(d) = n + 1 /\ d[n + 1] = b /\ \A i \in 1..n : d[i] = c[i]
  BY <1>1, <1>2, ChainLen, AppendIs
<1>4. PICK D : D = {SignersOf(c)[i] : i \in 1..(n + 1)} \cup {SignersOf(d)[i] : i \in 1..(n + 2)}
  OBVIOUS
<1>5. SignersOf(c) \in [1..(n + 1) -> D]
  BY <1>2, <1>4 DEF SignersOf
<1>6. SignersOf(d) \in [1..(n + 2) -> D]
  BY <1>3, <1>4 DEF SignersOf
<1>7. n + 1 \in Nat /\ n + 2 \in Nat
  BY <1>3
<1>8. SignersOf(c) \in Seq(D) /\ Len(SignersOf(c)) = n + 1
  BY <1>5, <1>7
<1>9. SignersOf(d) \in Seq(D) /\ Len(SignersOf(d)) = n + 2
  BY <1>6, <1>7
<1>10. ASSUME NEW i \in 1..(n + 1) PROVE SignersOf(d)[i] = SignersOf(c)[i]
  <2>1. i \in 1..(n + 2) /\ (i # 1 => i - 1 \in 1..n)
    BY <1>3
  <2> QED BY <2>1, <1>2, <1>3 DEF SignersOf
<1>11. SignersOf(d)[n + 2] = b.signer
  <2>1. n + 2 \in 1..(n + 2) /\ n + 2 # 1 /\ (n + 2) - 1 = n + 1
    BY <1>3
  <2> QED BY <2>1, <1>3 DEF SignersOf
<1> QED BY <1>1, <1>2, <1>8, <1>9, <1>10, <1>11

\* Recording a block's signer gives the signer window of the longer chain.
LEMMA SignersStep ==
    ASSUME StateAssumption, NEW c, IsChain(c), NEW b, NEW s, SignersOk(s, c)
    PROVE  LET w == Recorded([recent |-> s.recent, counts |-> s.counts], b.signer)
           IN  /\ w = WindowOf(SignersOf(Append(c, b)), LowSigner(Len(c) + 2), Len(c) + 2)
               /\ CountOf(w.counts, b.signer) \in Nat
<1>1. PICK n : n = Len(c)
  OBVIOUS
<1>2. PICK sg : sg = SignersOf(Append(c, b))
  OBVIOUS
<1>3. PICK sh : sh = SignersOf(c)
  OBVIOUS
<1>4. PICK lo : lo = LowSigner(n + 1)
  OBVIOUS
<1>5. n \in Nat /\ n + 1 \in Nat /\ (n + 1) + 1 = n + 2
  BY <1>1, ChainLen
<1>6. /\ lo \in Nat \ {0} /\ lo <= n + 2 /\ (n + 1) + 1 - lo <= CapWindow
      /\ LowSigner(n + 2) = IF (n + 1) + 2 - lo <= CapWindow THEN lo ELSE lo + 1
  BY <1>4, <1>5 DEF LowSigner, Less, Most, StateAssumption
<1>7. PICK D : sh \in Seq(D) /\ sg \in Seq(D)
  BY <1>2, <1>3, SignersAre
<1>8. /\ Len(sh) = n + 1 /\ Len(sg) = n + 2 /\ sg[n + 2] = b.signer
      /\ \A i \in 1..(n + 1) : sg[i] = sh[i]
  BY <1>1, <1>2, <1>3, SignersAre
<1>9. WindowOf(sh, lo, n + 1) = WindowOf(sg, lo, n + 1)
  <2>1. \A i \in lo..(n + 1) : sh[i] = sg[i]
    BY <1>6, <1>8
  <2>2. n + 1 <= Len(sh) /\ n + 1 <= Len(sg)
    BY <1>5, <1>8
  <2> QED BY <2>1, <2>2, <1>5, <1>6, <1>7, SameWindow
<1>10. Recorded(WindowOf(sg, lo, n + 1), sg[(n + 1) + 1])
         = WindowOf(sg, IF (n + 1) + 2 - lo <= CapWindow THEN lo ELSE lo + 1, (n + 1) + 1)
  <2>1. lo <= (n + 1) + 1 /\ (n + 1) + 1 <= Len(sg) /\ CapWindow \in Nat \ {0}
    BY <1>5, <1>6, <1>8 DEF StateAssumption
  <2> QED BY <2>1, <1>5, <1>6, <1>7, WindowStep
<1>11. PICK w : w = Recorded([recent |-> s.recent, counts |-> s.counts], b.signer)
  OBVIOUS
<1>12. w = WindowOf(sg, LowSigner(n + 2), n + 2)
  <2>1. [recent |-> s.recent, counts |-> s.counts] = WindowOf(sh, lo, n + 1)
    BY <1>1, <1>3, <1>4 DEF SignersOk
  <2> QED BY <2>1, <1>5, <1>6, <1>8, <1>9, <1>10, <1>11
<1>13. CountOf(w.counts, b.signer) \in Nat
  <2>1. PICK hi : hi = n + 2
    OBVIOUS
  <2>2. PICK lw : lw = LowSigner(n + 2)
    OBVIOUS
  <2>3. lw \in Int /\ hi \in Int
    BY <2>1, <2>2, <1>5, <1>6
  <2>4. w.counts = CountsOf(sg, lw, hi)
    BY <1>12, <2>1, <2>2 DEF WindowOf
  <2>5. \A x : Cardinality(Places(sg, lw, hi, x)) \in Nat
    BY <2>3, PlacesFinite
  <2> QED BY <2>4, <2>5 DEF CountsOf, CountOf
<1> QED BY <1>1, <1>2, <1>11, <1>12, <1>13

\* Queues of works that agree on their range are the same.
LEMMA SameWorks ==
    ASSUME NEW W, NEW V, NEW low, NEW lo \in Nat, NEW hi \in Nat,
           Enumerates(low, W, lo, hi), \A h \in lo..(hi - 1) : V[h] = W[h]
    PROVE  Enumerates(low, V, lo, hi)
<1>1. NotUndercut(V, lo, hi) = NotUndercut(W, lo, hi)
  <2>1. ASSUME NEW j \in lo..(hi - 1)
        PROVE  /\ V[j] = W[j]
               /\ \A m \in (j + 1)..(hi - 1) : V[m] = W[m]
    OBVIOUS
  <2> QED BY <2>1 DEF NotUndercut
<1>2. ASSUME NEW i \in 1..Len(low) PROVE low[i].work = V[low[i].height]
  <2>1. low[i].height \in NotUndercut(W, lo, hi) /\ low[i].work = W[low[i].height]
    BY DEF Enumerates
  <2>2. low[i].height \in lo..(hi - 1)
    BY <2>1 DEF NotUndercut
  <2> QED BY <2>1, <2>2
<1> QED BY <1>1, <1>2 DEF Enumerates

\* Taking a block's work gives the floor queue of the longer chain, and what
\* the block may count for is more than nothing and no more than its work.
LEMMA FloorGrows ==
    ASSUME StateAssumption, NEW c, IsChain(c), WellTimed(c), NEW b, b.time \in Nat,
           NEW s, FloorOk(s, c)
    PROVE  LET h == Len(c) + 1
               work == TargetWork(h, TimeAt(c, Len(c)))
           IN  /\ Enumerates(CappedWindow(s.low, h, work), WorksOf(Append(c, b)),
                             LowWork(h + 1), h + 1)
               /\ Creditable(s.low, h, work) \in Nat \ {0}
               /\ Creditable(s.low, h, work) <= work /\ work \in Nat \ {0}
<1>1. PICK h : h = Len(c) + 1
  OBVIOUS
<1>2. PICK W : W = WorksOf(Append(c, b))
  OBVIOUS
<1>3. PICK lo : lo = LowWork(h)
  OBVIOUS
<1>4. PICK work : work = TargetWork(h, TimeAt(c, Len(c)))
  OBVIOUS
<1>5. h \in Nat \ {0} /\ Len(c) = h - 1
  BY <1>1, ChainLen
<1>6. lo \in Nat /\ lo < h /\ Less(h, WorkCapWindow) = lo
      /\ Most(lo, Less(h + 1, WorkCapWindow)) = LowWork(h + 1)
  <2>1. PICK cap : cap = WorkCapWindow
    OBVIOUS
  <2>2. cap \in Nat \ {0}
    BY <2>1 DEF StateAssumption
  <2>3. lo = Less(h, cap) /\ LowWork(h + 1) = Less(h + 1, cap)
    BY <2>1, <1>3 DEF LowWork
  <2>4. lo \in Nat /\ lo < h /\ Most(lo, Less(h + 1, cap)) = Less(h + 1, cap)
    BY <2>2, <2>3, <1>5 DEF Less, Most
  <2> QED BY <2>1, <2>3, <2>4
<1>7. /\ \A k \in 0..h : W[k] \in Nat \ {0} /\ (k < h => W[k] = WorksOf(c)[k])
      /\ W[h] = work
  BY <1>1, <1>2, <1>4, <1>5, WorksStep
<1>8. work \in Nat \ {0}
  BY <1>5, <1>7
<1>9. Enumerates(s.low, W, lo, h)
  <2>1. Enumerates(s.low, WorksOf(c), lo, h)
    BY <1>1, <1>3 DEF FloorOk
  <2>2. \A k \in lo..(h - 1) : W[k] = WorksOf(c)[k]
    BY <1>5, <1>6, <1>7
  <2> QED BY <2>1, <2>2, <1>5, <1>6, SameWorks
<1>10. /\ KeptWindow(s.low, h) = s.low
       /\ Enumerates(CappedWindow(s.low, h, work), W, LowWork(h + 1), h + 1)
  <2>1. \A j \in lo..h : W[j] \in Nat
    BY <1>6, <1>7
  <2>2. lo <= h /\ Less(h, WorkCapWindow) <= lo /\ WorkCapWindow \in Nat /\ h \in Nat
    BY <1>5, <1>6 DEF StateAssumption
  <2>3. /\ KeptWindow(s.low, h) = s.low
        /\ Enumerates(CappedWindow(s.low, h, W[h]), W,
                      Most(lo, Less(h + 1, WorkCapWindow)), h + 1)
    BY <2>1, <2>2, <1>6, <1>9, FloorStep
  <2> QED BY <2>3, <1>6, <1>7
<1>11. s.low # <<>> /\ s.low[1].work \in Nat \ {0}
  <2>1. \A k \in lo..(h - 1) : W[k] \in Nat \ {0}
    BY <1>5, <1>6, <1>7
  <2>2. h \in Nat
    BY <1>5
  <2> QED BY <2>1, <2>2, <1>6, <1>9, LowFront
<1>12. Creditable(s.low, h, work) \in Nat \ {0} /\ Creditable(s.low, h, work) <= work
  <2>1. Creditable(s.low, h, work)
          = Least(work, s.low[1].work + s.low[1].work \div Headroom)
    BY <1>10, <1>11 DEF Creditable
  <2>2. s.low[1].work \div Headroom \in Nat
    BY <1>11, DivLemma DEF StateAssumption
  <2> QED BY <2>1, <2>2, <1>8, <1>11 DEF Least
<1> QED BY <1>1, <1>2, <1>4, <1>8, <1>10, <1>12

------------------------------------------------------------------------------

\* apply_batch on the state of a chain gives the state of the longer chain:
\* its windows are those of the chain, its relay linked, its bonds proven.
LEMMA StateStep ==
    ASSUME StateAssumption, NEW c, IsChain(c), WellTimed(c), NEW s, StateOk(s, c),
           NEW b, WellFormed(b), NEW times, Allowed(s, b, times)
    PROVE  /\ StateOk(NextState(s, b, times), Append(c, b))
           /\ SubsidyAt(s, b, times) \in Nat
           /\ WeighedAt(s, b, times).work \in Nat
           /\ WeighedAt(s, b, times).credited \in Nat \ {0}
           /\ WeighedAt(s, b, times).credited <= WeighedAt(s, b, times).work
<1>1. PICK d : d = Append(c, b)
  OBVIOUS
<1>2. PICK n : n = Len(c)
  OBVIOUS
<1>3. PICK e : e = Effects(s, b, times)
  OBVIOUS
<1>4. PICK bonds : bonds = BondsAt(s, b, times)
  OBVIOUS
<1>5. PICK w : w = WeighedAt(s, b, times)
  OBVIOUS
<1>6. PICK subsidy : subsidy = SubsidyAt(s, b, times)
  OBVIOUS
<1>7. n \in Nat /\ Len(d) = n + 1 /\ (n + 1) + 1 = n + 2 /\ Len(d) + 1 = n + 2
  BY <1>1, <1>2, ChainLen, AppendIs
<1>8. s.height = n + 1 /\ s.time = TimeAt(c, n)
  BY <1>2 DEF StateOk, ShapeOk
<1>9. PICK window : window = Recorded([recent |-> s.recent, counts |-> s.counts], b.signer)
  OBVIOUS
<1>10. PICK work : work = TargetWork(n + 1, TimeAt(c, n))
  OBVIOUS
<1>11. w = [work |-> work, window |-> window, low |-> CappedWindow(s.low, n + 1, work),
            credited |-> Credited(window.counts, bonds, n + 1, b.signer,
                                  Creditable(s.low, n + 1, work), b.time)]
  BY <1>4, <1>5, <1>8, <1>9, <1>10 DEF WeighedAt, Weighed, WeighedIn, WorkOf
<1>12. /\ window = WindowOf(SignersOf(d), LowSigner(n + 2), n + 2)
       /\ CountOf(window.counts, b.signer) \in Nat
  <2>1. SignersOk(s, c)
    BY DEF StateOk
  <2> QED BY <2>1, <1>1, <1>2, <1>9, SignersStep
<1>13. /\ Enumerates(w.low, WorksOf(d), LowWork(n + 2), n + 2)
       /\ Creditable(s.low, n + 1, work) \in Nat \ {0}
       /\ Creditable(s.low, n + 1, work) <= work /\ work \in Nat \ {0}
  <2>1. FloorOk(s, c) /\ b.time \in Nat
    BY DEF StateOk, WellFormed
  <2>2. w.low = CappedWindow(s.low, n + 1, work)
    BY <1>11
  <2> QED BY <2>1, <2>2, <1>1, <1>2, <1>7, <1>10, FloorGrows
<1>14. w.work = work /\ w.credited \in Nat \ {0} /\ w.credited <= work
  <2>1. PICK k : k = Creditable(s.low, n + 1, work)
    OBVIOUS
  <2>2. w.credited = Credited(window.counts, bonds, n + 1, b.signer, k, b.time) /\ w.work = work
    BY <1>11, <2>1
  <2>3. k \in Nat \ {0} /\ k <= work
    BY <1>13, <2>1
  <2>4. w.credited \in Nat \ {0} /\ w.credited <= k
    BY <2>2, <2>3, CreditedBound
  <2> QED BY <2>2, <2>3, <2>4, <1>13
<1>15. BondsOk(bonds, RelayWith(s, e)) /\ IsRelay(RelayWith(s, e))
  <2>1. IsRelay(s.relay) /\ BondsOk(s.bonds, s.relay)
        /\ MaxRegistrations \in Nat /\ MaxRegistrations <= 1
    BY DEF StateOk, StateAssumption
  <2> QED BY <2>1, <1>3, <1>4, BondStep, RelayStep
<1>16. subsidy \in Nat
  <2>1. subsidy = SubsidyFor(RewardAt(n + 1), b.signer, window.counts, bonds, b.time)
    BY <1>4, <1>5, <1>6, <1>8, <1>11 DEF SubsidyAt
  <2>2. RewardAt(n + 1) \in Nat /\ IsFiniteSet(bonds)
    BY <1>7, <1>15 DEF StateAssumption, BondsOk
  <2> QED BY <2>1, <2>2, <1>12, SubsidyIsNat
<1>17. PICK r : r = NextState(s, b, times)
  OBVIOUS
<1>18. r = After(s, b, e, bonds, w, subsidy)
  BY <1>3, <1>4, <1>5, <1>6, <1>17 DEF NextState
<1>19. ShapeOk(r, d)
  <2>1. TimeAt(d, Len(d)) = b.time
    BY <1>1, <1>2, <1>7, WorksStep DEF WellFormed
  <2>2. r.height = Len(d) + 1 /\ r.time = TimeAt(d, Len(d))
        /\ r = [height |-> r.height, time |-> r.time, depth |-> r.depth,
                capped |-> r.capped, supply |-> r.supply, utxos |-> r.utxos,
                kernels |-> r.kernels, bonds |-> r.bonds, relay |-> r.relay,
                recent |-> r.recent, counts |-> r.counts, low |-> r.low]
    BY <2>1, <1>7, <1>8, <1>18 DEF After
  <2>3. r.depth = s.depth + w.work /\ r.capped = s.capped + (w.work - w.credited)
        /\ r.supply = s.supply + subsidy
    BY <1>18 DEF After
  <2>4. s.depth \in Nat /\ s.capped \in Nat /\ s.supply \in Nat /\ s.capped <= s.depth
    BY DEF StateOk, ShapeOk
  <2>5. \A x, y, a, z \in Nat : y <= x /\ z <= a =>
            x + a \in Nat /\ y + (a - z) \in Nat /\ y + (a - z) <= x + a
    OBVIOUS
  <2>6. w.work \in Nat /\ w.credited \in Nat /\ w.credited <= w.work
    BY <1>13, <1>14
  <2>7. r.depth \in Nat /\ r.capped \in Nat /\ r.capped <= r.depth /\ r.supply \in Nat
    BY <2>3, <2>4, <2>5, <2>6, <1>16
  <2> QED BY <2>2, <2>7 DEF ShapeOk
<1>20. SignersOk(r, d)
  <2>1. r.recent = window.recent /\ r.counts = window.counts
    BY <1>11, <1>18 DEF After
  <2>2. window = [recent |-> window.recent, counts |-> window.counts]
    BY <1>12 DEF WindowOf
  <2> QED BY <2>1, <2>2, <1>7, <1>12 DEF SignersOk
<1>21. FloorOk(r, d)
  BY <1>7, <1>13, <1>18 DEF FloorOk, After
<1>22. IsRelay(r.relay) /\ BondsOk(r.bonds, r.relay)
  BY <1>15, <1>18 DEF After
<1> QED BY <1>1, <1>5, <1>6, <1>13, <1>14, <1>16, <1>17, <1>19, <1>20, <1>21, <1>22 DEF StateOk

\* The genesis relay is a relay.
LEMMA GenesisIsRelay == IsRelay(GenesisRelay)
<1>1. PICK root : root = RelayRoot
  OBVIOUS
<1>2. root \in RelayEntries /\ root.height = 0
  BY <1>1 DEF RelayRoot, RelayEntries
<1>3. BaseEntry({root}) = root
  BY <1>2 DEF BaseEntry
<1>4. Cardinality({root}) = 1
  BY FS_Singleton
<1>5. RelayWindow \in Nat
  BY RelayAssumption
<1>6. FormsChain({root})
  <2>1. Cardinality({root}) <= RelayWindow + 1
    BY <1>4, <1>5
  <2> QED BY <2>1, <1>3 DEF FormsChain
<1>7. Top({root}, root)
  BY <1>2 DEF Top
<1> QED BY <1>1, <1>2, <1>6, <1>7 DEF IsRelay, GenesisRelay

\* The genesis state is that of the empty chain.
LEMMA GenesisOk ==
    ASSUME StateAssumption
    PROVE  StateOk(GenesisState, <<>>)
<1>1. PICK s : s = GenesisState
  OBVIOUS
<1>2. Len(<<>>) = 0 /\ TimeAt(<<>>, 0) = 0
  BY DEF TimeAt
<1>3. GenesisWork \in Nat \ {0} /\ CapWindow \in Nat \ {0} /\ WorkCapWindow \in Nat \ {0}
  BY DEF StateAssumption
<1>4. ShapeOk(s, <<>>)
  <2>1. s = [height |-> 1, time |-> 0, depth |-> GenesisWork, capped |-> 0, supply |-> 0,
             utxos |-> {}, kernels |-> {}, bonds |-> {}, relay |-> GenesisRelay,
             recent |-> <<NoSigner>>, counts |-> <<>>,
             low |-> <<[height |-> 0, work |-> GenesisWork]>>]
    BY <1>1 DEF GenesisState
  <2>2. s = [height |-> 1, time |-> 0, depth |-> s.depth,
             capped |-> s.capped, supply |-> s.supply, utxos |-> s.utxos,
             kernels |-> s.kernels, bonds |-> s.bonds, relay |-> s.relay,
             recent |-> s.recent, counts |-> s.counts, low |-> s.low]
    BY <2>1, Zenon
  <2>3. s.depth = GenesisWork /\ s.capped = 0 /\ s.supply = 0
    BY <2>1
  <2>4. Len(<<>>) + 1 = 1 /\ TimeAt(<<>>, Len(<<>>)) = 0
    BY <1>2
  <2>5. s.depth \in Nat /\ s.capped \in Nat /\ s.supply \in Nat /\ s.capped <= s.depth
    BY <2>3, <1>3
  <2> QED BY <2>2, <2>4, <2>5 DEF ShapeOk
<1>5. SignersOk(s, <<>>)
  <2>1. PICK sg : sg = SignersOf(<<>>)
    OBVIOUS
  <2>2. sg = [i \in 1..1 |-> NoSigner]
    BY <2>1, <1>2 DEF SignersOf
  <2>3. sg = <<NoSigner>>
    BY <2>2
  <2>4. LowSigner(0 + 1) = 1
    BY <1>3 DEF LowSigner, Less, Most
  <2>5. SubSeq(sg, 1, 1) = <<NoSigner>>
    <3>1. sg \in Seq({NoSigner}) /\ Len(sg) = 1
      BY <2>3
    <3>2. Firsts(sg, Len(sg)) = sg
      BY <3>1, ChainLen DEF IsChain
    <3> QED BY <3>1, <3>2, <2>3 DEF Firsts
  <2>6. Who(sg, 1, 1) = {}
    BY <2>2 DEF Who
  <2>7. CountsOf(sg, 1, 1) = <<>>
    BY <2>6 DEF CountsOf
  <2>8. WindowOf(sg, 1, 1) = [recent |-> <<NoSigner>>, counts |-> <<>>]
    BY <2>5, <2>7 DEF WindowOf
  <2>9. s.recent = <<NoSigner>> /\ s.counts = <<>>
    BY <1>1 DEF GenesisState
  <2>10. 0 + 1 = 1
    OBVIOUS
  <2> QED BY <2>1, <2>4, <2>8, <2>9, <2>10, <1>2 DEF SignersOk
<1>6. FloorOk(s, <<>>)
  <2>1. PICK low : low = <<[height |-> 0, work |-> GenesisWork]>>
    OBVIOUS
  <2>2. low \in Seq(Entries) /\ Len(low) = 1 /\ low[1].height = 0 /\ low[1].work = GenesisWork
    BY <2>1, <1>3 DEF Entries
  <2>3. LowWork(0 + 1) = 0
    BY <1>3 DEF LowWork, Less, Most
  <2>4. WorksOf(<<>>)[0] = GenesisWork
    BY <1>2 DEF WorksOf
  <2>5. NotUndercut(WorksOf(<<>>), 0, 1) = {0}
    BY DEF NotUndercut
  <2>6. \A i \in 1..Len(low) : i = 1
    BY <2>2
  <2>7. Rises(low)
    BY <2>6 DEF Rises
  <2>8. {low[i].height : i \in 1..Len(low)} = {0}
    BY <2>2, <2>6
  <2>9. Enumerates(low, WorksOf(<<>>), 0, 1)
    BY <2>2, <2>4, <2>5, <2>6, <2>7, <2>8 DEF Enumerates
  <2>10. s.low = low /\ 0 + 1 = 1
    BY <1>1, <2>1 DEF GenesisState
  <2> QED BY <2>3, <2>9, <2>10, <1>2 DEF FloorOk
<1>7. IsRelay(s.relay) /\ BondsOk(s.bonds, s.relay)
  <2>1. s.relay = GenesisRelay /\ s.bonds = {}
    BY <1>1 DEF GenesisState
  <2> QED BY <2>1, GenesisIsRelay, FS_EmptySet DEF BondsOk, OneEach, ProvenOn
<1> QED BY <1>1, <1>4, <1>5, <1>6, <1>7 DEF StateOk

------------------------------------------------------------------------------
\* A chain every block of which applies.
StateOf(c) == Replay(c).state
SoundChain(c) ==
    /\ IsChain(c)
    /\ \A k \in 1..Len(c) :
          WellFormed(c[k]) /\ Allowed(StateOf(Firsts(c, k - 1)), c[k], TimesOf(Firsts(c, k - 1)))

\* The first k blocks of a chain are the first k - 1 and the k-th.
LEMMA FrontMore ==
    ASSUME NEW c, IsChain(c), NEW n \in Nat, n + 1 <= Len(c)
    PROVE  Firsts(c, n + 1) = Append(Firsts(c, n), c[n + 1])
<1>1. PICK D : c \in Seq(D)
  BY DEF IsChain
<1>2. n + 1 \in 1..Len(c) /\ c[n + 1] \in D
  BY <1>1, ElementOfSeq
<1>3. PICK x, y : x = Firsts(c, n + 1) /\ y = Append(Firsts(c, n), c[n + 1])
  OBVIOUS
<1>4. /\ Firsts(c, n + 1) \in Seq(D) /\ Len(Firsts(c, n + 1)) = n + 1
      /\ \A i \in 1..(n + 1) : Firsts(c, n + 1)[i] = c[i]
  BY <1>1, <1>2 DEF Firsts
<1>5. /\ Firsts(c, n) \in Seq(D) /\ Len(Firsts(c, n)) = n
      /\ \A i \in 1..n : Firsts(c, n)[i] = c[i]
  BY <1>1, <1>2 DEF Firsts
<1>6. /\ y \in Seq(D) /\ Len(y) = n + 1 /\ y[n + 1] = c[n + 1]
      /\ \A i \in 1..n : y[i] = c[i]
  BY <1>2, <1>3, <1>5
<1>7. x \in Seq(D) /\ Len(x) = Len(y) /\ \A i \in 1..Len(x) : x[i] = y[i]
  BY <1>3, <1>4, <1>6
<1> QED BY <1>3, <1>6, <1>7

\* The first blocks of a sound chain are sound.
LEMMA SoundFront ==
    ASSUME NEW c, SoundChain(c), NEW n \in 0..Len(c)
    PROVE  SoundChain(Firsts(c, n))
<1>1. IsChain(c) /\ Len(c) \in Nat /\ n \in Nat
  BY ChainLen DEF SoundChain
<1>2. /\ IsChain(Firsts(c, n)) /\ Len(Firsts(c, n)) = n
      /\ \A i \in 1..n : Firsts(c, n)[i] = c[i]
      /\ \A k \in 0..n : Firsts(Firsts(c, n), k) = Firsts(c, k)
  BY <1>1, FrontIs
<1>3. ASSUME NEW k \in 1..n
      PROVE  k - 1 \in 0..n /\ k \in 1..Len(c)
  BY <1>1
<1> QED BY <1>2, <1>3 DEF SoundChain

\* A sound chain and a block that applies to it are sound.
LEMMA SoundAppend ==
    ASSUME NEW c, SoundChain(c), NEW b, WellFormed(b), Allowed(StateOf(c), b, TimesOf(c))
    PROVE  SoundChain(Append(c, b))
<1>1. PICK d : d = Append(c, b)
  OBVIOUS
<1>2. PICK n : n = Len(c)
  OBVIOUS
<1>3. /\ IsChain(c) /\ n \in Nat /\ IsChain(d) /\ Len(d) = n + 1 /\ d[n + 1] = b
      /\ \A i \in 1..n : d[i] = c[i]
      /\ \A k \in 0..n : Firsts(d, k) = Firsts(c, k)
      /\ Firsts(d, n) = c
  BY <1>1, <1>2, ChainLen, AppendIs DEF SoundChain
<1>4. ASSUME NEW k \in 1..(n + 1)
      PROVE  /\ WellFormed(d[k])
             /\ Allowed(StateOf(Firsts(d, k - 1)), d[k], TimesOf(Firsts(d, k - 1)))
  <2>1. CASE k = n + 1
    <3>1. k - 1 = n
      BY <2>1, <1>3
    <3> QED BY <3>1, <2>1, <1>3
  <2>2. CASE k # n + 1
    <3>1. k \in 1..n /\ k - 1 \in 0..n
      BY <2>2, <1>3
    <3> QED BY <3>1, <1>2, <1>3 DEF SoundChain
  <2> QED BY <2>1, <2>2
<1> QED BY <1>1, <1>3, <1>4 DEF SoundChain

\* The blocks of a sound chain have times.
LEMMA SoundWellTimed ==
    ASSUME NEW c, SoundChain(c)
    PROVE  WellTimed(c)
BY DEF SoundChain, WellTimed, WellFormed

\* Replay by a block, in parts.
LEMMA StateMore ==
    ASSUME NEW c, IsChain(c), NEW b
    PROVE  /\ StateOf(Append(c, b)) = NextState(StateOf(c), b, TimesOf(c))
           /\ Replay(Append(c, b)).sound
                <=> Replay(c).sound /\ Allowed(StateOf(c), b, TimesOf(c))
<1>1. Replay(Append(c, b)) = ReplayedBlock(Replay(c), b, TimesOf(c))
  BY ReplayMore
<1>2. PICK a : a = ApplyBatch(Replay(c).state, b, TimesOf(c))
  OBVIOUS
<1>3. a.ok = Allowed(StateOf(c), b, TimesOf(c)) /\ a.state = NextState(StateOf(c), b, TimesOf(c))
  BY <1>2, ApplyIs DEF StateOf
<1>4. Replay(Append(c, b)) = [sound |-> (Replay(c).sound /\ a.ok), state |-> a.state]
  BY <1>1, <1>2 DEF ReplayedBlock
<1>5. Replay(Append(c, b)).sound = (Replay(c).sound /\ a.ok)
      /\ Replay(Append(c, b)).state = a.state
  BY <1>4
<1> QED BY <1>3, <1>5 DEF StateOf

\* Replaying a sound chain leaves a state with the chain's own windows, a
\* linked relay and proven bonds.
LEMMA SoundIsOk ==
    ASSUME StateAssumption, NEW c, SoundChain(c)
    PROVE  StateOk(StateOf(c), c) /\ Replay(c).sound
<1>1. IsChain(c) /\ Len(c) \in Nat /\ Firsts(c, Len(c)) = c
  BY ChainLen DEF SoundChain
<1> DEFINE S == {n \in Nat : n <= Len(c) => /\ StateOk(StateOf(Firsts(c, n)), Firsts(c, n))
                                            /\ Replay(Firsts(c, n)).sound}
<1>2. 0 \in S
  <2>1. Firsts(c, 0) = <<>>
    BY <1>1 DEF Firsts
  <2>2. StateOf(<<>>) = GenesisState /\ Replay(<<>>).sound
    BY ReplayNothing DEF StateOf, Fresh
  <2> QED BY <2>1, <2>2, GenesisOk
<1>3. ASSUME NEW n \in Nat, n \in S PROVE n + 1 \in S
  <2>1. SUFFICES ASSUME n + 1 <= Len(c)
                 PROVE  /\ StateOk(StateOf(Firsts(c, n + 1)), Firsts(c, n + 1))
                        /\ Replay(Firsts(c, n + 1)).sound
    OBVIOUS
  <2>2. PICK f : f = Firsts(c, n)
    OBVIOUS
  <2>3. n \in 0..Len(c) /\ n <= Len(c) /\ n + 1 \in 1..Len(c) /\ (n + 1) - 1 = n
    BY <2>1, <1>1
  <2>4. StateOk(StateOf(f), f) /\ Replay(f).sound
    BY <1>3, <2>2, <2>3
  <2>5. SoundChain(f) /\ IsChain(f) /\ WellTimed(f)
    BY <2>2, <2>3, SoundFront, SoundWellTimed DEF SoundChain
  <2>6. WellFormed(c[n + 1]) /\ Allowed(StateOf(f), c[n + 1], TimesOf(f))
    BY <2>2, <2>3 DEF SoundChain
  <2>7. Firsts(c, n + 1) = Append(f, c[n + 1])
    BY <2>1, <2>2, <1>1, FrontMore
  <2>8. /\ StateOf(Append(f, c[n + 1])) = NextState(StateOf(f), c[n + 1], TimesOf(f))
        /\ Replay(Append(f, c[n + 1])).sound
    BY <2>4, <2>5, <2>6, StateMore
  <2>9. StateOk(NextState(StateOf(f), c[n + 1], TimesOf(f)), Append(f, c[n + 1]))
    BY <2>4, <2>5, <2>6, StateStep
  <2> QED BY <2>7, <2>8, <2>9
<1>4. Nat \subseteq S
  <2> HIDE DEF S
  <2> QED BY <1>2, <1>3, SetInd
<1>5. Len(c) \in S
  BY <1>1, <1>4
<1> QED BY <1>1, <1>5

------------------------------------------------------------------------------
\* Cutting a range out of a column moves its places, not their number.
LEMMA ShiftedPlaces ==
    ASSUME NEW D, NEW sg \in Seq(D), NEW lo \in Nat \ {0}, NEW hi \in Nat,
           hi <= Len(sg), lo <= hi + 1, NEW s
    PROVE  Cardinality(Places(SubSeq(sg, lo, hi), 1, hi - lo + 1, s))
             = Cardinality(Places(sg, lo, hi, s))
<1>1. PICK sh : sh = SubSeq(sg, lo, hi)
  OBVIOUS
<1>2. PICK m : m = hi - lo + 1
  OBVIOUS
<1>3. m \in Nat /\ \A i \in 1..m : sh[i] = sg[lo + i - 1]
  BY <1>1, <1>2
<1>4. PICK S, T : S = Places(sh, 1, m, s) /\ T = Places(sg, lo, hi, s)
  OBVIOUS
<1>5. PICK f : f = [i \in S |-> lo + i - 1]
  OBVIOUS
<1>6. f \in [S -> T] /\ \A i \in S : f[i] = lo + i - 1 /\ i \in Int
  BY <1>2, <1>3, <1>4, <1>5 DEF Places
<1>7. IsInjective(f)
  BY <1>5, <1>6 DEF IsInjective
<1>8. ASSUME NEW t \in T PROVE \E i \in S : f[i] = t
  <2>1. t \in lo..hi /\ sg[t] = s
    BY <1>4 DEF Places
  <2>2. PICK i : i = t - lo + 1
    OBVIOUS
  <2>3. i \in 1..m /\ lo + i - 1 = t
    BY <1>2, <2>1, <2>2
  <2>4. i \in S
    BY <2>1, <2>3, <1>3, <1>4 DEF Places
  <2> QED BY <2>3, <2>4, <1>6
<1>9. f \in Bijection(S, T)
  BY <1>6, <1>7, <1>8 DEF Bijection, Injection, Surjection
<1>10. IsFiniteSet(S)
  <2>1. m \in Int /\ 1 \in Int
    BY <1>3
  <2> QED BY <2>1, <1>4, PlacesFinite
<1>11. Cardinality(T) = Cardinality(S)
  BY <1>9, <1>10, FS_Bijection DEF ExistsBijection
<1> QED BY <1>1, <1>2, <1>4, <1>11

\* The window of a range is the window of the range cut out.
LEMMA ShiftedWindow ==
    ASSUME NEW D, NEW sg \in Seq(D), NEW lo \in Nat \ {0}, NEW hi \in Nat,
           hi <= Len(sg), lo <= hi + 1
    PROVE  WindowOf(SubSeq(sg, lo, hi), 1, hi - lo + 1) = WindowOf(sg, lo, hi)
<1>1. PICK sh : sh = SubSeq(sg, lo, hi)
  OBVIOUS
<1>2. PICK m : m = hi - lo + 1
  OBVIOUS
<1>3. /\ m \in Nat /\ sh \in Seq(D) /\ Len(sh) = m
      /\ \A i \in 1..m : sh[i] = sg[lo + i - 1]
  BY <1>1, <1>2, SubSeqProperties
<1>4. SubSeq(sh, 1, m) = sh
  <2>1. IsChain(sh)
    BY <1>3 DEF IsChain
  <2> QED BY <2>1, <1>3, ChainLen DEF Firsts
<1>5. Who(sh, 1, m) = Who(sg, lo, hi)
  <2>1. ASSUME NEW i \in lo..hi PROVE i - lo + 1 \in 1..m /\ sh[i - lo + 1] = sg[i]
    <3>1. i - lo + 1 \in 1..m /\ lo + (i - lo + 1) - 1 = i
      BY <1>2
    <3> QED BY <3>1, <1>3
  <2>2. ASSUME NEW i \in 1..m PROVE lo + i - 1 \in lo..hi /\ sh[i] = sg[lo + i - 1]
    <3>1. lo + i - 1 \in lo..hi
      BY <1>2
    <3> QED BY <3>1, <1>3
  <2>3. ASSUME NEW x \in {sg[i] : i \in lo..hi} PROVE x \in {sh[i] : i \in 1..m}
    <3>1. PICK i \in lo..hi : x = sg[i]
      OBVIOUS
    <3>2. PICK j \in 1..m : sh[j] = sg[i]
      BY <2>1
    <3> QED BY <3>1, <3>2
  <2>4. ASSUME NEW x \in {sh[i] : i \in 1..m} PROVE x \in {sg[i] : i \in lo..hi}
    <3>1. PICK i \in 1..m : x = sh[i]
      OBVIOUS
    <3>2. PICK j \in lo..hi : sh[i] = sg[j]
      BY <2>2
    <3> QED BY <3>1, <3>2
  <2>5. {sh[i] : i \in 1..m} = {sg[i] : i \in lo..hi}
    BY <2>3, <2>4
  <2> QED BY <2>5 DEF Who
<1>6. \A s : Cardinality(Places(sh, 1, m, s)) = Cardinality(Places(sg, lo, hi, s))
  BY <1>1, <1>2, ShiftedPlaces
<1>7. CountsOf(sh, 1, m) = CountsOf(sg, lo, hi)
  BY <1>5, <1>6 DEF CountsOf
<1> QED BY <1>1, <1>2, <1>4, <1>7 DEF WindowOf

\* A restart rebuilds the signer window that was kept block by block.
LEMMA SignersBeforeIs ==
    ASSUME StateAssumption, NEW c, IsChain(c), NEW n \in 0..Len(c)
    PROVE  SignersBefore(SignersOf(c), n + 1) = WindowOf(SignersOf(c), LowSigner(n + 1), n + 1)
<1>1. PICK sg : sg = SignersOf(c)
  OBVIOUS
<1>2. PICK D : sg \in Seq(D)
  BY <1>1, SignersAre
<1>3. Len(sg) = Len(c) + 1 /\ Len(c) \in Nat
  BY <1>1, SignersAre, ChainLen
<1>4. PICK lo : lo = LowSigner(n + 1)
  OBVIOUS
<1>5. PICK cap : cap = CapWindow
  OBVIOUS
<1>6. cap \in Nat \ {0} /\ n \in Nat /\ n <= Len(c)
  BY <1>3, <1>5 DEF StateAssumption
<1>7. lo = Less(n + 1, cap) + 1
  BY <1>4, <1>5 DEF LowSigner
<1>8. lo \in Nat \ {0} /\ lo <= (n + 1) + 1 /\ (n + 1) - lo + 1 <= cap /\ (n + 1) - lo + 1 \in Nat
  BY <1>6, <1>7 DEF Less, Most
<1>9. PICK sh : sh = SubSeq(sg, lo, n + 1)
  OBVIOUS
<1>10. PICK hi : hi = n + 1
  OBVIOUS
<1>11. hi \in Nat /\ hi <= Len(sg) /\ lo <= hi + 1
  BY <1>3, <1>6, <1>8, <1>10
<1>12. sh \in Seq(D) /\ Len(sh) = hi - lo + 1
  BY <1>2, <1>8, <1>9, <1>10, <1>11, SubSeqProperties
<1>13. RebuiltSigners(sh) = WindowOf(sh, 1, Len(sh))
  <2>1. Len(sh) <= CapWindow /\ CapWindow \in Nat \ {0}
    BY <1>5, <1>6, <1>8, <1>10, <1>12
  <2> QED BY <2>1, <1>12, RebuiltWindow
<1>14. WindowOf(sh, 1, hi - lo + 1) = WindowOf(sg, lo, hi)
  BY <1>2, <1>8, <1>9, <1>10, <1>11, ShiftedWindow
<1>15. SignersBefore(sg, n + 1) = RebuiltSigners(sh)
  BY <1>5, <1>7, <1>9 DEF SignersBefore
<1> QED BY <1>1, <1>4, <1>10, <1>12, <1>13, <1>14, <1>15

\* header_works reads the chain's works.
LEMMA HeaderWorkIs ==
    ASSUME NEW c, IsChain(c), NEW h \in 0..Len(c)
    PROVE  WorkOfHeader(c, h) = WorksOf(c)[h]
<1>1. Len(c) \in Nat /\ (h # 0 => (h - 1 = 0 <=> h = 1))
  BY ChainLen
<1> QED BY <1>1 DEF WorkOfHeader, WorksOf, TimeAt, GenesisState

\* And the window of least works, whichever way it was kept.
LEMMA FloorBeforeIs ==
    ASSUME StateAssumption, NEW c, IsChain(c), WellTimed(c), NEW n \in 0..Len(c), NEW low,
           Enumerates(low, WorksOf(c), LowWork(n + 1), n + 1)
    PROVE  FloorBefore(c, n + 1) = low
<1>1. PICK W : W = WorksOf(c)
  OBVIOUS
<1>2. PICK lo : lo = LowWork(n + 1)
  OBVIOUS
<1>3. PICK cap : cap = WorkCapWindow
  OBVIOUS
<1>4. cap \in Nat \ {0} /\ n \in Nat /\ n <= Len(c) /\ Len(c) \in Nat
  BY <1>3, ChainLen DEF StateAssumption
<1>5. lo = Less(n + 1, cap)
  BY <1>2, <1>3 DEF LowWork
<1>6. lo \in Nat /\ lo <= n /\ n - lo + 1 \in Nat /\ n - lo + 1 <= cap
  BY <1>4, <1>5 DEF Less, Most
<1>7. PICK works : works = HeaderWorks(c, lo, (n + 1) - 1)
  OBVIOUS
<1>8. works = [i \in 1..(n - lo + 1) |-> WorkOfHeader(c, lo + i - 1)]
  <2>1. (n + 1) - 1 = n
    BY <1>4
  <2> QED BY <2>1, <1>7 DEF HeaderWorks
<1>9. ASSUME NEW i \in 1..(n - lo + 1)
      PROVE  works[i] = W[lo + i - 1] /\ works[i] \in Nat
  <2>1. lo + i - 1 \in 0..Len(c)
    BY <1>4, <1>6
  <2>2. works[i] = W[lo + i - 1]
    BY <2>1, <1>1, <1>8, HeaderWorkIs
  <2>3. PICK h \in 0..Len(c) : h = lo + i - 1
    BY <2>1
  <2>4. W[h] = IF h = 0 THEN GenesisWork ELSE TargetWork(h, TimeAt(c, h - 1))
    BY <1>1 DEF WorksOf
  <2>5. W[h] \in Nat
    <3>1. CASE h = 0
      BY <3>1, <2>4 DEF StateAssumption
    <3>2. CASE h # 0
      <4>1. h \in Nat /\ h - 1 \in 0..Len(c) /\ (h - 1 # 0 => h - 1 \in 1..Len(c))
        BY <3>2, <1>4
      <4>2. TimeAt(c, h - 1) \in Nat
        BY <4>1 DEF TimeAt, WellTimed
      <4> QED BY <3>2, <4>1, <4>2, <2>4 DEF StateAssumption
    <3> QED BY <3>1, <3>2
  <2> QED BY <2>2, <2>3, <2>5
<1>10. works \in Seq(Nat) /\ Len(works) = n - lo + 1
  <2>1. works \in [1..(n - lo + 1) -> Nat]
    BY <1>8, <1>9
  <2> QED BY <2>1, <1>6
<1>11. Enumerates(RebuiltFloor(lo, works), W, lo, lo + Len(works))
  <2>1. \A i \in 1..Len(works) : works[i] = W[lo + i - 1]
    BY <1>9, <1>10
  <2>2. Len(works) <= WorkCapWindow /\ WorkCapWindow \in Nat
    BY <1>3, <1>4, <1>6, <1>10
  <2> QED BY <2>1, <2>2, <1>6, <1>10, RebuiltEnumerates
<1>12. lo + Len(works) = n + 1
  BY <1>4, <1>6, <1>10
<1>13. FloorBefore(c, n + 1) = RebuiltFloor(lo, works)
  BY <1>3, <1>5, <1>7 DEF FloorBefore
<1>14. Enumerates(low, W, lo, n + 1)
  BY <1>1, <1>2
<1> QED BY <1>11, <1>12, <1>13, <1>14, OneEnumeration

------------------------------------------------------------------------------
\* The tables that storing a chain block by block leaves.
EffectsIn(c, n) == Effects(StateOf(Firsts(c, n - 1)), c[n], TimesOf(Firsts(c, n - 1)))
EffectsOn(c, b) == Effects(StateOf(c), b, TimesOf(c))

Storing(c) ==
    CHOOSE after : after =
        [n \in 0..Len(c) |->
            IF n = 0 THEN GenesisTables
            ELSE StoredBlock(after[n - 1], c[n], EffectsIn(c, n))]
Book(c) == Storing(c)[Len(c)]

\* The recursive function that stores a chain, by its equation.
LEMMA StoringIs ==
    ASSUME NEW c, Len(c) \in Nat
    PROVE  Storing(c) =
        [n \in 0..Len(c) |->
            IF n = 0 THEN GenesisTables
            ELSE StoredBlock(Storing(c)[n - 1], c[n], EffectsIn(c, n))]
<1> DEFINE Then(r, n) == StoredBlock(r, c[n], EffectsIn(c, n))
           P(m) == \E g : g = [n \in 0..m |-> IF n = 0 THEN GenesisTables ELSE Then(g[n - 1], n)]
<1>1. P(0)
  <2> HIDE DEF Then
  <2>1. [n \in 0..0 |-> GenesisTables] = [n \in 0..0 |->
           IF n = 0 THEN GenesisTables ELSE Then([i \in 0..0 |-> GenesisTables][n - 1], n)]
    OBVIOUS
  <2> QED BY <2>1
<1>2. ASSUME NEW m \in Nat, P(m) PROVE P(m + 1)
  <2> HIDE DEF Then
  <2>1. PICK g : g = [n \in 0..m |-> IF n = 0 THEN GenesisTables ELSE Then(g[n - 1], n)]
    BY <1>2
  <2>2. PICK h : h = [n \in 0..(m + 1) |-> IF n = m + 1 THEN Then(g[m], n) ELSE g[n]]
    OBVIOUS
  <2>3. ASSUME NEW n \in 0..(m + 1)
        PROVE  h[n] = IF n = 0 THEN GenesisTables ELSE Then(h[n - 1], n)
    <3>1. CASE n = m + 1
      BY <3>1, <2>2
    <3>2. CASE n # m + 1
      <4>1. n \in 0..m /\ h[n] = g[n]
        BY <3>2, <2>2
      <4>2. n # 0 => n - 1 \in 0..(m + 1) /\ n - 1 # m + 1
        BY <4>1
      <4> QED BY <4>1, <4>2, <2>1, <2>2
    <3> QED BY <3>1, <3>2
  <2>4. h = [n \in 0..(m + 1) |-> IF n = 0 THEN GenesisTables ELSE Then(h[n - 1], n)]
    BY <2>2, <2>3
  <2> QED BY <2>4
<1>3. \A m \in Nat : P(m)
  <2>1. PICK S : S = {m \in Nat : P(m)}
    OBVIOUS
  <2> HIDE DEF P
  <2>2. 0 \in S /\ \A n \in Nat : n \in S => n + 1 \in S
    BY <1>1, <1>2, <2>1
  <2>3. Nat \subseteq S
    BY <2>2, SetInd
  <2> QED BY <2>1, <2>3
<1> QED BY <1>3 DEF Storing

\* Storing no block leaves the genesis tables.
LEMMA BookNothing == Book(<<>>) = GenesisTables
<1>1. Len(<<>>) = 0 /\ 0 \in 0..0
  OBVIOUS
<1> QED BY <1>1, StoringIs DEF Book

\* Storing one block more is StoredBlock.
LEMMA BookMore ==
    ASSUME NEW c, IsChain(c), NEW b
    PROVE  Book(Append(c, b)) = StoredBlock(Book(c), b, EffectsOn(c, b))
<1>1. PICK d : d = Append(c, b)
  OBVIOUS
<1>2. PICK N : N = Len(c)
  OBVIOUS
<1>3. N \in Nat /\ Len(d) = N + 1
  BY <1>1, <1>2, ChainLen, AppendIs
<1>4. PICK f : f = Storing(c)
  OBVIOUS
<1>5. PICK g : g = Storing(d)
  OBVIOUS
<1>6. \A n \in 0..N : f[n] = IF n = 0 THEN GenesisTables
                             ELSE StoredBlock(f[n - 1], c[n], EffectsIn(c, n))
  BY <1>2, <1>3, <1>4, StoringIs
<1>7. \A n \in 0..(N + 1) :
         g[n] = IF n = 0 THEN GenesisTables
                ELSE StoredBlock(g[n - 1], d[n], EffectsIn(d, n))
  BY <1>3, <1>5, StoringIs
<1>8. ASSUME NEW n \in Nat, n + 1 <= N, f[n] = g[n] PROVE f[n + 1] = g[n + 1]
  <2>1. n + 1 \in 0..N /\ n + 1 \in 0..(N + 1) /\ n + 1 # 0 /\ (n + 1) - 1 = n
        /\ n \in 0..N /\ n + 1 \in 1..N
    BY <1>8, <1>3
  <2>2. d[n + 1] = c[n + 1] /\ Firsts(d, n) = Firsts(c, n)
    BY <2>1, <1>1, <1>2, AppendIs
  <2>3. EffectsIn(d, n + 1) = EffectsIn(c, n + 1)
    BY <2>1, <2>2 DEF EffectsIn
  <2>4. f[n + 1] = StoredBlock(f[n], c[n + 1], EffectsIn(c, n + 1))
    BY <2>1, <1>6
  <2>5. g[n + 1] = StoredBlock(g[n], d[n + 1], EffectsIn(d, n + 1))
    BY <2>1, <1>7
  <2> QED BY <1>8, <2>2, <2>3, <2>4, <2>5
<1>9. f[0] = g[0]
  BY <1>3, <1>6, <1>7
<1>10. f[N] = g[N]
  <2>1. AgreeOn(f, g, N)
    BY <1>8, <1>9 DEF AgreeOn
  <2>2. N \in 0..N
    BY <1>3
  <2> QED BY <1>3, <2>1, <2>2, SameFunction DEF Agree
<1>11. g[N + 1] = StoredBlock(g[N], d[N + 1], EffectsIn(d, N + 1))
  <2>1. N + 1 \in 0..(N + 1) /\ N + 1 # 0 /\ (N + 1) - 1 = N
    BY <1>3
  <2> QED BY <2>1, <1>7
<1>12. d[N + 1] = b /\ Firsts(d, N) = c
  BY <1>1, <1>2, AppendIs
<1>13. EffectsIn(d, N + 1) = EffectsOn(c, b)
  <2>1. (N + 1) - 1 = N
    BY <1>3
  <2> QED BY <2>1, <1>12 DEF EffectsIn, EffectsOn
<1> QED BY <1>1, <1>2, <1>3, <1>4, <1>5, <1>10, <1>11, <1>12, <1>13 DEF Book

------------------------------------------------------------------------------
\* Groups: each has an id of its own and an unspent member, and the unspent
\* members are the unspent outputs.
GroupsOk(groups, utxos) ==
    /\ UNION {g.id \ g.spent : g \in groups} = {u.coin : u \in utxos}
    /\ \A g, k \in groups : g # k => (g.id \ g.spent) \cap (k.id \ k.spent) = {}
    /\ \A g \in groups : /\ g.spent # g.id /\ g.spent \subseteq g.id
                         /\ g = [id |-> g.id, spent |-> g.spent]
    /\ \A g, k \in groups : g.id = k.id => g = k

\* The tables after storing a block, group by group.
SpentGroups(groups, b) ==
    {g \in groups : \E c \in SpentCoins(b) : GroupOf(g, c) /\ c \notin g.spent}
GroupsAfter(groups, b) ==
    LET touched == SpentGroups(groups, b)
        left == (groups \ touched) \cup Kept({AfterSpends(g, b) : g \in touched})
        made == GroupsMade(b)
    IN  {g \in left : g.id \notin {m.id : m \in made}} \cup made
GroupsBefore(groups, created, touched) ==
    LET kept == {g \in groups : g.id \notin created}
    IN  {g \in kept : g.id \notin {x.id : x \in touched}} \cup touched
CoinsAfter(coins, b) ==
    (coins \ SpentCoins(b)) \cup CoinsOf(OutputsOf(b)) \cup CoinsOf(b.reward)

Coins(utxos) == {u.coin : u \in utxos}
Unspent(g) == g.id \ g.spent

\* What a body may do to the coins there are (SpendsOk, OutputsOk).
BodyFits(coins, b) ==
    /\ StructureOk(b) /\ SpentCoins(b) \subseteq coins
    /\ (CoinsOf(OutputsOf(b)) \cup CoinsOf(b.reward)) \cap (coins \ SpentCoins(b)) = {}
    /\ CoinsOf(b.reward) \cap CoinsOf(OutputsOf(b)) = {}

\* What a block's spends leave of a group.
LEMMA SpendsLeave ==
    ASSUME NEW groups, NEW utxos, GroupsOk(groups, utxos), NEW b, NEW g \in groups
    PROVE  /\ AfterSpends(g, b).id = g.id
           /\ Unspent(AfterSpends(g, b)) = Unspent(g) \ SpentCoins(b)
           /\ AfterSpends(g, b) = [id |-> g.id, spent |-> AfterSpends(g, b).spent]
           /\ AfterSpends(g, b).spent \subseteq g.id
           /\ g \notin SpentGroups(groups, b) => AfterSpends(g, b) = g
           /\ g \notin SpentGroups(groups, b) => Unspent(g) \cap SpentCoins(b) = {}
<1>1. g = [id |-> g.id, spent |-> g.spent] /\ g.spent \subseteq g.id
  BY DEF GroupsOk
<1>2. PICK a : a = AfterSpends(g, b)
  OBVIOUS
<1>3. a = [id |-> g.id, spent |-> g.spent \cup (SpentCoins(b) \cap g.id)]
  BY <1>1, <1>2 DEF AfterSpends
<1>4. a.id = g.id /\ a.spent = g.spent \cup (SpentCoins(b) \cap g.id)
  BY <1>3
<1>5. g \notin SpentGroups(groups, b) => Unspent(g) \cap SpentCoins(b) = {}
  BY DEF SpentGroups, GroupOf, Unspent
<1>6. g \notin SpentGroups(groups, b) => g.spent \cup (SpentCoins(b) \cap g.id) = g.spent
  BY <1>5 DEF Unspent
<1>7. g \notin SpentGroups(groups, b) => a = g
  BY <1>1, <1>3, <1>6
<1> QED BY <1>1, <1>2, <1>3, <1>4, <1>5, <1>7 DEF Unspent

\* The groups a block's spends leave are those with a member unspent.
LEMMA LeftIs ==
    ASSUME NEW groups, NEW utxos, GroupsOk(groups, utxos), NEW b
    PROVE  (groups \ SpentGroups(groups, b))
              \cup Kept({AfterSpends(g, b) : g \in SpentGroups(groups, b)})
            = {a \in {AfterSpends(g, b) : g \in groups} : Unspent(a) # {}}
<1>1. PICK touched : touched = SpentGroups(groups, b)
  OBVIOUS
<1>2. touched \subseteq groups
  BY <1>1 DEF SpentGroups
<1>3. ASSUME NEW g \in groups
      PROVE  (AfterSpends(g, b).spent # AfterSpends(g, b).id)
                <=> Unspent(AfterSpends(g, b)) # {}
  <2>1. AfterSpends(g, b).spent \subseteq AfterSpends(g, b).id
    BY SpendsLeave
  <2> QED BY <2>1 DEF Unspent
<1>4. ASSUME NEW g \in groups PROVE Unspent(g) # {}
  BY DEF GroupsOk, Unspent
<1>5. \A g \in groups : g \notin touched => AfterSpends(g, b) = g
  BY <1>1, SpendsLeave
<1>6. Kept({AfterSpends(g, b) : g \in touched})
        = {a \in {AfterSpends(g, b) : g \in touched} : Unspent(a) # {}}
  BY <1>2, <1>3 DEF Kept
<1>7. groups \ touched
        = {a \in {AfterSpends(g, b) : g \in groups \ touched} : Unspent(a) # {}}
  BY <1>4, <1>5
<1> QED BY <1>1, <1>2, <1>6, <1>7

\* The groups a block makes hold its outputs, unspent, each in one.
LEMMA MadeGroups ==
    ASSUME NEW b, StructureOk(b), CoinsOf(b.reward) \cap CoinsOf(OutputsOf(b)) = {}
    PROVE  /\ UNION {Unspent(m) : m \in GroupsMade(b)}
                = CoinsOf(OutputsOf(b)) \cup CoinsOf(b.reward)
           /\ \A m \in GroupsMade(b) : /\ m = [id |-> m.id, spent |-> {}]
                                       /\ Unspent(m) = m.id /\ m.id # {}
           /\ \A m, k \in GroupsMade(b) : m # k => Unspent(m) \cap Unspent(k) = {}
<1>1. PICK all : all = b.groups \cup (IF b.reward = {} THEN {} ELSE {b.reward})
  OBVIOUS
<1>2. GroupsMade(b) = {NewGroup(g) : g \in all}
  BY <1>1 DEF GroupsMade
<1>3. ASSUME NEW g \in all
      PROVE  /\ NewGroup(g) = [id |-> CoinsOf(g), spent |-> {}]
             /\ NewGroup(g).id = CoinsOf(g) /\ NewGroup(g).spent = {}
             /\ Unspent(NewGroup(g)) = CoinsOf(g) /\ CoinsOf(g) # {}
  <2>1. g # {}
    BY <1>1 DEF StructureOk
  <2>2. CoinsOf(g) # {}
    BY <2>1 DEF CoinsOf
  <2> QED BY <2>2 DEF NewGroup, GroupId, Unspent
<1>4. UNION {Unspent(m) : m \in GroupsMade(b)} = UNION {CoinsOf(g) : g \in all}
  BY <1>2, <1>3
<1>5. UNION {CoinsOf(g) : g \in all} = CoinsOf(OutputsOf(b)) \cup CoinsOf(b.reward)
  <2>1. CoinsOf({}) = {}
    BY DEF CoinsOf
  <2> QED BY <2>1, <1>1 DEF CoinsOf, OutputsOf
<1>6. ASSUME NEW g \in b.groups PROVE CoinsOf(g) \subseteq CoinsOf(OutputsOf(b))
  BY DEF CoinsOf, OutputsOf
<1>7. ASSUME NEW g \in all, NEW k \in all, g # k PROVE CoinsOf(g) \cap CoinsOf(k) = {}
  <2>1. CASE g \in b.groups /\ k \in b.groups
    BY <2>1, <1>7 DEF StructureOk, CoinsOf
  <2>2. CASE g \notin b.groups /\ k \in b.groups
    <3>1. g = b.reward
      BY <2>2, <1>1
    <3> QED BY <3>1, <2>2, <1>6
  <2>3. CASE g \in b.groups /\ k \notin b.groups
    <3>1. k = b.reward
      BY <2>3, <1>1
    <3> QED BY <3>1, <2>3, <1>6
  <2>4. CASE g \notin b.groups /\ k \notin b.groups
    BY <2>4, <1>1, <1>7
  <2> QED BY <2>1, <2>2, <2>3, <2>4
<1>8. ASSUME NEW m \in GroupsMade(b), NEW k \in GroupsMade(b), m # k
      PROVE  Unspent(m) \cap Unspent(k) = {}
  <2>1. PICK g \in all, j \in all : m = NewGroup(g) /\ k = NewGroup(j)
    BY <1>2
  <2>2. g # j
    BY <2>1, <1>8
  <2> QED BY <2>1, <2>2, <1>3, <1>7
<1>9. ASSUME NEW m \in GroupsMade(b)
      PROVE  m = [id |-> m.id, spent |-> {}] /\ Unspent(m) = m.id /\ m.id # {}
  <2>1. PICK g \in all : m = NewGroup(g)
    BY <1>2
  <2> QED BY <2>1, <1>3
<1> QED BY <1>4, <1>5, <1>8, <1>9

\* The groups' table follows the unspent outputs, and the undo record takes
\* it back (touched and created groups).
LEMMA GroupsStep ==
    ASSUME NEW groups, NEW utxos, GroupsOk(groups, utxos), NEW b,
           BodyFits(Coins(utxos), b),
           NEW after, Coins(after) = CoinsAfter(Coins(utxos), b)
    PROVE  /\ GroupsOk(GroupsAfter(groups, b), after)
           /\ GroupsBefore(GroupsAfter(groups, b), {m.id : m \in GroupsMade(b)},
                           SpentGroups(groups, b)) = groups
<1>1. PICK touched : touched = SpentGroups(groups, b)
  OBVIOUS
<1>2. PICK made : made = GroupsMade(b)
  OBVIOUS
<1>3. PICK left : left = {a \in {AfterSpends(g, b) : g \in groups} : Unspent(a) # {}}
  OBVIOUS
<1>4. PICK spent : spent = SpentCoins(b)
  OBVIOUS
<1>5. PICK new : new = CoinsOf(OutputsOf(b)) \cup CoinsOf(b.reward)
  OBVIOUS
<1>6. /\ UNION {Unspent(m) : m \in made} = new
      /\ \A m \in made : m = [id |-> m.id, spent |-> {}] /\ Unspent(m) = m.id /\ m.id # {}
      /\ \A m, k \in made : m # k => Unspent(m) \cap Unspent(k) = {}
  BY <1>2, <1>5, MadeGroups DEF BodyFits
<1>7. /\ UNION {Unspent(g) : g \in groups} = Coins(utxos)
      /\ \A g, k \in groups : g # k => Unspent(g) \cap Unspent(k) = {}
      /\ \A g, k \in groups : g.id = k.id => g = k
  BY DEF GroupsOk, Unspent, Coins
<1>8. ASSUME NEW g \in groups
      PROVE  /\ AfterSpends(g, b).id = g.id
             /\ Unspent(AfterSpends(g, b)) = Unspent(g) \ spent
             /\ g \notin touched => AfterSpends(g, b) = g
  BY <1>1, <1>4, SpendsLeave
<1>9. ASSUME NEW a \in left
      PROVE  \E g \in groups : /\ a = AfterSpends(g, b) /\ a.id = g.id
                               /\ Unspent(a) = Unspent(g) \ spent /\ Unspent(a) # {}
                               /\ a = [id |-> a.id, spent |-> a.spent] /\ a.spent \subseteq a.id
  <2>1. PICK g \in groups : a = AfterSpends(g, b) /\ Unspent(a) # {}
    BY <1>3
  <2>2. a = [id |-> a.id, spent |-> a.spent] /\ a.spent \subseteq a.id
    BY <2>1, SpendsLeave
  <2> QED BY <2>1, <2>2, <1>8
<1>10. UNION {Unspent(a) : a \in left} = Coins(utxos) \ spent
  <2>1. ASSUME NEW x \in Coins(utxos) \ spent PROVE \E a \in left : x \in Unspent(a)
    <3>1. PICK g \in groups : x \in Unspent(g)
      BY <1>7
    <3>2. x \in Unspent(AfterSpends(g, b))
      BY <3>1, <1>8
    <3> QED BY <3>2, <1>3
  <2>2. ASSUME NEW a \in left, NEW x \in Unspent(a) PROVE x \in Coins(utxos) \ spent
    <3>1. PICK g \in groups : Unspent(a) = Unspent(g) \ spent
      BY <1>9
    <3> QED BY <3>1, <1>7
  <2> QED BY <2>1, <2>2
<1>11. new \cap (Coins(utxos) \ spent) = {}
  BY <1>4, <1>5 DEF BodyFits
<1>12. ASSUME NEW a \in left, NEW m \in made
       PROVE  a.id # m.id /\ Unspent(a) \cap Unspent(m) = {}
  <2>1. Unspent(a) # {} /\ Unspent(a) \subseteq a.id
    BY <1>9 DEF Unspent
  <2>2. Unspent(a) \subseteq Coins(utxos) \ spent
    BY <1>10
  <2>3. Unspent(m) \subseteq new /\ Unspent(m) = m.id
    BY <1>6
  <2> QED BY <2>1, <2>2, <2>3, <1>11
<1>13. GroupsAfter(groups, b) = left \cup made
  <2>1. GroupsAfter(groups, b) = {g \in left : g.id \notin {m.id : m \in made}} \cup made
    BY <1>2, <1>3, LeftIs DEF GroupsAfter
  <2> QED BY <2>1, <1>12
<1>14. ASSUME NEW a \in left, NEW k \in left, a # k
       PROVE  a.id # k.id /\ Unspent(a) \cap Unspent(k) = {}
  <2>1. PICK g \in groups : a = AfterSpends(g, b) /\ a.id = g.id /\ Unspent(a) = Unspent(g) \ spent
    BY <1>9
  <2>2. PICK j \in groups : k = AfterSpends(j, b) /\ k.id = j.id /\ Unspent(k) = Unspent(j) \ spent
    BY <1>9
  <2>3. g # j
    BY <2>1, <2>2, <1>14
  <2> QED BY <2>1, <2>2, <2>3, <1>7
<1>15. ASSUME NEW m \in made, NEW k \in made, m # k
       PROVE  m.id # k.id /\ Unspent(m) \cap Unspent(k) = {}
  BY <1>6, <1>15
<1>16. GroupsOk(left \cup made, after)
  <2>1. UNION {Unspent(g) : g \in left \cup made} = (Coins(utxos) \ spent) \cup new
    BY <1>6, <1>10
  <2>2. UNION {Unspent(g) : g \in left \cup made} = Coins(after)
    BY <2>1, <1>4, <1>5 DEF CoinsAfter
  <2>3. \A g, k \in left \cup made : g # k => g.id # k.id /\ Unspent(g) \cap Unspent(k) = {}
    BY <1>12, <1>14, <1>15
  <2>4. ASSUME NEW g \in left \cup made
        PROVE  g.spent # g.id /\ g.spent \subseteq g.id /\ g = [id |-> g.id, spent |-> g.spent]
    <3>1. CASE g \in left
      <4>1. g = [id |-> g.id, spent |-> g.spent] /\ g.spent \subseteq g.id /\ Unspent(g) # {}
        BY <3>1, <1>9
      <4> QED BY <4>1 DEF Unspent
    <3>2. CASE g \in made
      <4>1. g = [id |-> g.id, spent |-> {}] /\ g.id # {}
        BY <3>2, <1>6
      <4>2. g.spent = {}
        BY <4>1
      <4> QED BY <4>1, <4>2
    <3> QED BY <3>1, <3>2
  <2>5. UNION {g.id \ g.spent : g \in left \cup made} = {u.coin : u \in after}
    BY <2>2 DEF Unspent, Coins
  <2>6. \A g, k \in left \cup made : g # k => (g.id \ g.spent) \cap (k.id \ k.spent) = {}
    BY <2>3 DEF Unspent
  <2> QED BY <2>3, <2>4, <2>5, <2>6 DEF GroupsOk
<1>17. {g \in left \cup made : g.id \notin {m.id : m \in made}} = left
  BY <1>12
<1>18. {g \in left : g.id \notin {x.id : x \in touched}} \cup touched = groups
  <2>1. touched \subseteq groups
    BY <1>1 DEF SpentGroups
  <2>2. ASSUME NEW g \in groups, g \notin touched
        PROVE  g \in left /\ g.id \notin {x.id : x \in touched}
    <3>1. AfterSpends(g, b) = g
      BY <1>8, <2>2
    <3>2. Unspent(g) # {}
      BY DEF GroupsOk, Unspent
    <3> QED BY <2>1, <2>2, <3>1, <3>2, <1>3, <1>7
  <2>3. ASSUME NEW a \in left, a.id \notin {x.id : x \in touched}
        PROVE  a \in groups
    <3>1. PICK g \in groups : a = AfterSpends(g, b) /\ a.id = g.id
      BY <1>9
    <3>2. g \notin touched
      BY <3>1, <2>3
    <3> QED BY <3>1, <3>2, <1>8
  <2> QED BY <2>1, <2>2, <2>3
<1>19. GroupsBefore(left \cup made, {m.id : m \in made}, touched) = groups
  BY <1>17, <1>18 DEF GroupsBefore
<1> QED BY <1>1, <1>2, <1>13, <1>16, <1>19

------------------------------------------------------------------------------
\* The work withheld and the work done up to each height.
CappedOf(c) == [i \in 1..(Len(c) + 1) |-> StateOf(Firsts(c, i - 1)).capped]
DepthsOf(c) == [i \in 1..(Len(c) + 1) |-> StateOf(Firsts(c, i - 1)).depth]

\* What tables hold of the state a chain leaves.
Fits(t, c) ==
    /\ t.blocks = c /\ t.signers = SignersOf(c) /\ t.capped = CappedOf(c)
    /\ t.depths = DepthsOf(c) /\ t.meta = Meta(StateOf(c))
    /\ t.utxos = StateOf(c).utxos /\ t.kernels = StateOf(c).kernels
    /\ t.bonds = StateOf(c).bonds /\ t.relay = StateOf(c).relay

\* The coins a block spends and makes, and its undo record.
SpentOf(s, b) == {c \in s.utxos : c.coin \in SpentCoins(b)}
OutputsMade(s, b) == Made(s, OutputsOf(b), FALSE) \cup Made(s, b.reward, TRUE)
UndoRecord(c, groups, b) ==
    [spent |-> SpentOf(StateOf(c), b),
     created |-> {o.coin : o \in OutputsMade(StateOf(c), b)},
     kernels |-> {k.id : k \in b.kernels}, prev |-> Meta(StateOf(c)),
     createdGroups |-> {m.id : m \in GroupsMade(b)}, touchedGroups |-> SpentGroups(groups, b),
     effects |-> EffectsOn(c, b)]

Applies(c, b) == WellFormed(b) /\ Allowed(StateOf(c), b, TimesOf(c))

\* A sequence one longer that agrees with another is its Append.
LEMMA AppendExt ==
    ASSUME NEW x, IsChain(x), NEW y, IsChain(y), NEW v, Len(y) = Len(x) + 1,
           \A i \in 1..Len(x) : y[i] = x[i], y[Len(x) + 1] = v
    PROVE  y = Append(x, v)
<1>1. Len(y) \in Nat /\ Len(x) \in Nat
  BY ChainLen
<1>2. Firsts(y, Len(x) + 1) = y
  BY <1>1, ChainLen
<1>3. Firsts(y, Len(x) + 1) = Append(Firsts(y, Len(x)), v)
  BY <1>1, FrontMore
<1>4. Firsts(y, Len(x)) = x
  <2>1. PICK D : D = {x[i] : i \in 1..Len(x)} \cup {y[i] : i \in 1..Len(y)}
    OBVIOUS
  <2>2. PICK f : f = Firsts(y, Len(x))
    OBVIOUS
  <2>3. Len(x) \in 0..Len(y)
    BY <1>1
  <2>4. IsChain(f) /\ Len(f) = Len(x) /\ \A i \in 1..Len(x) : f[i] = y[i]
    BY <2>2, <2>3, FrontIs
  <2>5. \A i \in 1..Len(x) : f[i] = x[i]
    BY <2>4
  <2>6. PICK E, F : f \in Seq(E) /\ x \in Seq(F)
    BY <2>4 DEF IsChain
  <2>7. f = [i \in 1..Len(f) |-> f[i]] /\ x = [i \in 1..Len(x) |-> x[i]]
    BY <2>6
  <2> QED BY <2>2, <2>4, <2>5, <2>7
<1> QED BY <1>2, <1>3, <1>4

\* The per-block columns of one block more.
LEMMA ColumnsMore ==
    ASSUME NEW c, IsChain(c), NEW b
    PROVE  /\ SignersOf(Append(c, b)) = Append(SignersOf(c), b.signer)
           /\ CappedOf(Append(c, b)) = Append(CappedOf(c), StateOf(Append(c, b)).capped)
           /\ DepthsOf(Append(c, b)) = Append(DepthsOf(c), StateOf(Append(c, b)).depth)
           /\ IsChain(SignersOf(c)) /\ Len(SignersOf(c)) = Len(c) + 1
           /\ IsChain(CappedOf(c)) /\ Len(CappedOf(c)) = Len(c) + 1
           /\ IsChain(DepthsOf(c)) /\ Len(DepthsOf(c)) = Len(c) + 1
<1>1. PICK d : d = Append(c, b)
  OBVIOUS
<1>2. PICK n : n = Len(c)
  OBVIOUS
<1>3. /\ n \in Nat /\ Len(d) = n + 1 /\ IsChain(d) /\ Len(d) + 1 = n + 2 /\ (n + 1) + 1 = n + 2
      /\ \A k \in 0..n : Firsts(d, k) = Firsts(c, k)
      /\ Firsts(d, n + 1) = d
  <2>1. n \in Nat /\ IsChain(d) /\ Len(d) = n + 1 /\ \A k \in 0..n : Firsts(d, k) = Firsts(c, k)
    BY <1>1, <1>2, ChainLen, AppendIs
  <2>2. Firsts(d, n + 1) = d
    BY <2>1, ChainLen
  <2> QED BY <2>1, <2>2
<1>4. ASSUME NEW i \in 1..(n + 1) PROVE i \in 1..(n + 2) /\ i - 1 \in 0..n
  BY <1>3
<1>5. n + 2 \in 1..(n + 2) /\ (n + 2) - 1 = n + 1 /\ n + 1 \in Nat /\ n + 2 \in Nat
  BY <1>3
<1>6. SignersOf(d) = Append(SignersOf(c), b.signer) /\ IsChain(SignersOf(c))
      /\ Len(SignersOf(c)) = n + 1
  <2>1. PICK x, y : x = SignersOf(c) /\ y = SignersOf(d)
    OBVIOUS
  <2>2. /\ IsChain(x) /\ IsChain(y) /\ Len(x) = n + 1 /\ Len(y) = n + 2
        /\ \A i \in 1..(n + 1) : y[i] = x[i]
        /\ y[n + 2] = b.signer
    BY <2>1, <1>1, <1>2, SignersAre DEF IsChain
  <2>3. y = Append(x, b.signer)
    BY <2>2, <1>3, AppendExt
  <2> QED BY <2>1, <2>2, <2>3
<1>7. CappedOf(d) = Append(CappedOf(c), StateOf(d).capped) /\ IsChain(CappedOf(c))
      /\ Len(CappedOf(c)) = n + 1
  <2>1. PICK x, y : x = CappedOf(c) /\ y = CappedOf(d)
    OBVIOUS
  <2>2. /\ x = [i \in 1..(n + 1) |-> StateOf(Firsts(c, i - 1)).capped]
        /\ y = [i \in 1..(n + 2) |-> StateOf(Firsts(d, i - 1)).capped]
    BY <2>1, <1>2, <1>3 DEF CappedOf
  <2>3. IsChain(x) /\ Len(x) = n + 1
    <3>1. PICK D : D = {x[i] : i \in 1..(n + 1)}
      OBVIOUS
    <3>2. x \in [1..(n + 1) -> D]
      BY <2>2, <3>1
    <3>3. x \in Seq(D) /\ Len(x) = n + 1
      BY <3>2, <1>5
    <3> QED BY <3>3 DEF IsChain
  <2>4. IsChain(y) /\ Len(y) = n + 2
    <3>1. PICK D : D = {y[i] : i \in 1..(n + 2)}
      OBVIOUS
    <3>2. y \in [1..(n + 2) -> D]
      BY <2>2, <3>1
    <3>3. y \in Seq(D) /\ Len(y) = n + 2
      BY <3>2, <1>5
    <3> QED BY <3>3 DEF IsChain
  <2>5. \A i \in 1..(n + 1) : y[i] = x[i]
    BY <2>2, <1>3, <1>4
  <2>6. y[n + 2] = StateOf(d).capped
    BY <2>2, <1>3, <1>5
  <2>7. y = Append(x, StateOf(d).capped)
    BY <2>3, <2>4, <2>5, <2>6, <1>3, AppendExt
  <2> QED BY <2>1, <2>3, <2>7
<1>8. DepthsOf(d) = Append(DepthsOf(c), StateOf(d).depth) /\ IsChain(DepthsOf(c))
      /\ Len(DepthsOf(c)) = n + 1
  <2>1. PICK x, y : x = DepthsOf(c) /\ y = DepthsOf(d)
    OBVIOUS
  <2>2. /\ x = [i \in 1..(n + 1) |-> StateOf(Firsts(c, i - 1)).depth]
        /\ y = [i \in 1..(n + 2) |-> StateOf(Firsts(d, i - 1)).depth]
    BY <2>1, <1>2, <1>3 DEF DepthsOf
  <2>3. IsChain(x) /\ Len(x) = n + 1
    <3>1. PICK D : D = {x[i] : i \in 1..(n + 1)}
      OBVIOUS
    <3>2. x \in [1..(n + 1) -> D]
      BY <2>2, <3>1
    <3>3. x \in Seq(D) /\ Len(x) = n + 1
      BY <3>2, <1>5
    <3> QED BY <3>3 DEF IsChain
  <2>4. IsChain(y) /\ Len(y) = n + 2
    <3>1. PICK D : D = {y[i] : i \in 1..(n + 2)}
      OBVIOUS
    <3>2. y \in [1..(n + 2) -> D]
      BY <2>2, <3>1
    <3>3. y \in Seq(D) /\ Len(y) = n + 2
      BY <3>2, <1>5
    <3> QED BY <3>3 DEF IsChain
  <2>5. \A i \in 1..(n + 1) : y[i] = x[i]
    BY <2>2, <1>3, <1>4
  <2>6. y[n + 2] = StateOf(d).depth
    BY <2>2, <1>3, <1>5
  <2>7. y = Append(x, StateOf(d).depth)
    BY <2>3, <2>4, <2>5, <2>6, <1>3, AppendExt
  <2> QED BY <2>1, <2>3, <2>7
<1> QED BY <1>1, <1>2, <1>6, <1>7, <1>8

StoredAs(t, c, b) ==
    LET s == StateOf(c)
        r == StateOf(Append(c, b))
    IN  [blocks |-> Append(t.blocks, b), utxos |-> r.utxos,
         groups |-> GroupsAfter(t.groups, b), kernels |-> r.kernels, bonds |-> r.bonds,
         relay |-> r.relay, signers |-> Append(t.signers, b.signer),
         capped |-> Append(t.capped, r.capped),
         minted |-> Append(t.minted, SubsidyAt(s, b, TimesOf(c))),
         depths |-> Append(t.depths, r.depth),
         undo |-> [k \in DOMAIN t.undo \cup {Len(c) + 1} |->
                      IF k # Len(c) + 1 THEN t.undo[k] ELSE UndoRecord(c, t.groups, b)],
         meta |-> Meta(r)]

\* Storing a block that applies gives, table by table, what the state holds.
LEMMA StoredIs ==
    ASSUME StateAssumption, NEW c, SoundChain(c), NEW b, Applies(c, b), NEW t, Fits(t, c)
    PROVE  StoredBlock(t, b, EffectsOn(c, b)) = StoredAs(t, c, b)
<1> DEFINE effects == EffectsOn(c, b)
           h == t.meta.height
           bonds == AppliedEffects(t.bonds, effects.bondsRemoved, effects.bondsAdded)
           work == WorkOfHeader(t.blocks, h)
           window == Recorded(SignersBefore(t.signers, h), b.signer)
           credited == Credited(window.counts, bonds, h, b.signer,
                                Creditable(FloorBefore(t.blocks, h), h, work), b.time)
           subsidy == SubsidyFor(RewardAt(h), b.signer, window.counts, bonds, b.time)
           capped == t.capped[h] + (work - credited)
           touched == Touched(t, b)
           spent == {x \in t.utxos : x.coin \in SpentCoins(b)}
           groups == (t.groups \ touched) \cup Kept({AfterSpends(g, b) : g \in touched})
           made == GroupsMade(b)
           outputs == Made(t.meta, OutputsOf(b), FALSE) \cup Made(t.meta, b.reward, TRUE)
           meta == [height |-> h + 1, time |-> b.time, depth |-> t.meta.depth + work,
                    supply |-> t.meta.supply + (IF b.reward = {} THEN 0 ELSE subsidy)]
           undone == [spent |-> spent, created |-> {o.coin : o \in outputs},
                      kernels |-> {k2.id : k2 \in b.kernels}, prev |-> t.meta,
                      createdGroups |-> {m.id : m \in made}, touchedGroups |-> touched,
                      effects |-> effects]
<1>1. StoredBlock(t, b, effects) =
        [blocks |-> Append(t.blocks, b),
         utxos |-> (t.utxos \ spent) \cup outputs,
         groups |-> {g \in groups : g.id \notin {m.id : m \in made}} \cup made,
         kernels |-> t.kernels \cup {k.id : k \in b.kernels},
         bonds |-> bonds,
         relay |-> AppliedChange(t.relay, effects.relayRemoved, effects.relayAdded),
         signers |-> Append(t.signers, b.signer), capped |-> Append(t.capped, capped),
         minted |-> Append(t.minted, subsidy), depths |-> Append(t.depths, meta.depth),
         undo |-> [k \in DOMAIN t.undo \cup {h} |-> IF k # h THEN t.undo[k] ELSE undone],
         meta |-> meta]
  BY DEF StoredBlock
<1>2. PICK n : n = Len(c)
  OBVIOUS
<1>3. PICK s : s = StateOf(c)
  OBVIOUS
<1>4. PICK times : times = TimesOf(c)
  OBVIOUS
<1>5. PICK r : r = StateOf(Append(c, b))
  OBVIOUS
<1>6. PICK w : w = WeighedAt(s, b, times)
  OBVIOUS
<1>7. /\ IsChain(c) /\ n \in Nat /\ WellTimed(c) /\ StateOk(s, c)
      /\ WellFormed(b) /\ Allowed(s, b, times) /\ effects = Effects(s, b, times)
  BY <1>2, <1>3, <1>4, ChainLen, SoundWellTimed, SoundIsOk DEF SoundChain, Applies, EffectsOn
<1>8. r = After(s, b, effects, BondsAt(s, b, times), w, SubsidyAt(s, b, times))
  <2>1. r = NextState(s, b, times)
    BY <1>3, <1>4, <1>5, <1>7, StateMore
  <2> QED BY <2>1, <1>6, <1>7 DEF NextState
<1>9. s.height = n + 1 /\ s.time = TimeAt(c, n)
  BY <1>2, <1>7 DEF StateOk, ShapeOk
<1>10. t.meta = [height |-> n + 1, time |-> s.time, depth |-> s.depth, supply |-> s.supply]
  BY <1>3, <1>9 DEF Fits, Meta
<1>11. h = n + 1
  BY <1>10
<1>12. bonds = BondsAt(s, b, times)
  <2>1. IsRelay(s.relay) /\ BondsOk(s.bonds, s.relay)
        /\ MaxRegistrations \in Nat /\ MaxRegistrations <= 1
    BY <1>7 DEF StateOk, StateAssumption
  <2>2. t.bonds = s.bonds
    BY <1>3 DEF Fits
  <2> HIDE DEF effects
  <2> QED BY <2>1, <2>2, <1>7, BondStep
<1>13. work = WorkOf(s)
  <2>1. WorkOf(s) = TargetWork(n + 1, TimeAt(c, n))
    BY <1>9 DEF WorkOf
  <2>2. n + 1 # 0 /\ (n + 1) - 1 = n /\ (n + 1 = 1 <=> n = 0)
    BY <1>7
  <2>3. t.blocks = c
    BY DEF Fits
  <2> QED BY <2>1, <2>2, <2>3, <1>11 DEF WorkOfHeader, TimeAt, GenesisState
<1>14. SignersBefore(t.signers, h) = [recent |-> s.recent, counts |-> s.counts]
  <2>1. n \in 0..Len(c)
    BY <1>2, <1>7
  <2>2. SignersBefore(SignersOf(c), n + 1) = WindowOf(SignersOf(c), LowSigner(n + 1), n + 1)
    BY <2>1, <1>7, SignersBeforeIs
  <2>3. [recent |-> s.recent, counts |-> s.counts]
          = WindowOf(SignersOf(c), LowSigner(n + 1), n + 1)
    BY <1>2, <1>7 DEF StateOk, SignersOk
  <2>4. t.signers = SignersOf(c)
    BY DEF Fits
  <2> QED BY <2>2, <2>3, <2>4, <1>11
<1>15. FloorBefore(t.blocks, h) = s.low
  <2>1. n \in 0..Len(c)
    BY <1>2, <1>7
  <2>2. Enumerates(s.low, WorksOf(c), LowWork(n + 1), n + 1)
    BY <1>2, <1>7 DEF StateOk, FloorOk
  <2>3. FloorBefore(c, n + 1) = s.low
    BY <2>1, <2>2, <1>7, FloorBeforeIs
  <2>4. t.blocks = c
    BY DEF Fits
  <2> QED BY <2>3, <2>4, <1>11
<1>16. w = [work |-> work, window |-> window,
            low |-> CappedWindow(s.low, s.height, work), credited |-> credited]
  <2> HIDE DEF bonds, work
  <2> QED BY <1>6, <1>9, <1>11, <1>12, <1>13, <1>14, <1>15 DEF WeighedAt, Weighed, WeighedIn
<1> HIDE DEF effects, bonds, work, window, credited
<1>17. subsidy = SubsidyAt(s, b, times)
  <2>1. w.window = window
    BY <1>16
  <2> QED BY <2>1, <1>6, <1>9, <1>11, <1>12 DEF SubsidyAt
<1>18. subsidy \in Nat
  BY <1>7, <1>17, StateStep
<1> HIDE DEF subsidy
<1>19. capped = r.capped
  <2>1. t.capped[h] = s.capped
    <3>1. n + 1 \in 1..(n + 1) /\ (n + 1) - 1 = n
      BY <1>7
    <3>2. Firsts(c, n) = c
      BY <1>2, <1>7, ChainLen
    <3> QED BY <3>1, <3>2, <1>2, <1>3, <1>11 DEF Fits, CappedOf
  <2>2. w.work = work /\ w.credited = credited
    BY <1>16
  <2> QED BY <2>1, <2>2, <1>8 DEF After
<1>20. meta = Meta(r)
  <2>1. w.work = work
    BY <1>16
  <2>2. r.height = s.height + 1 /\ r.time = b.time /\ r.depth = s.depth + work
        /\ r.supply = s.supply + subsidy
    BY <2>1, <1>8, <1>17 DEF After
  <2>3. s.supply + (IF b.reward = {} THEN 0 ELSE subsidy) = s.supply + subsidy
    <3>1. b.reward = {} <=> subsidy + b.fees = 0
      BY <1>7, <1>17 DEF Allowed, Accepts, ContentsOk
    <3>2. b.fees \in Nat
      BY <1>7 DEF WellFormed
    <3>3. s.supply \in Nat
      BY <1>7 DEF StateOk, ShapeOk
    <3> QED BY <3>1, <3>2, <3>3, <1>18
  <2>4. t.meta.depth = s.depth /\ t.meta.supply = s.supply
    BY <1>10
  <2> QED BY <2>2, <2>3, <2>4, <1>9, <1>11 DEF Meta
<1>21. outputs = OutputsMade(s, b)
  BY <1>9, <1>10 DEF OutputsMade, Made
<1>22. spent = SpentOf(s, b)
  BY <1>3 DEF Fits, SpentOf
<1>23. (t.utxos \ spent) \cup outputs = r.utxos
  <2>1. t.utxos = s.utxos
    BY <1>3 DEF Fits
  <2>2. t.utxos \ spent = {u \in s.utxos : u.coin \notin SpentCoins(b)}
    BY <2>1, <1>22 DEF SpentOf
  <2> HIDE DEF spent, outputs
  <2> QED BY <2>2, <1>8, <1>21 DEF After, OutputsMade
<1>24. touched = SpentGroups(t.groups, b)
  BY DEF Touched, SpentGroups
<1>25. undone = UndoRecord(c, t.groups, b)
  <2>1. t.meta = Meta(s)
    BY <1>3 DEF Fits
  <2> HIDE DEF spent, outputs, touched
  <2> QED BY <2>1, <1>3, <1>21, <1>22, <1>24 DEF UndoRecord, effects
<1>26. {g \in groups : g.id \notin {m.id : m \in made}} \cup made = GroupsAfter(t.groups, b)
  <2> HIDE DEF touched
  <2> QED BY <1>24 DEF GroupsAfter
<1>27. t.kernels \cup {k.id : k \in b.kernels} = r.kernels
  BY <1>3, <1>8 DEF Fits, After
<1>28. bonds = r.bonds
  BY <1>8, <1>12 DEF After
<1>29. AppliedChange(t.relay, effects.relayRemoved, effects.relayAdded) = r.relay
  <2>1. IsRelay(s.relay) /\ t.relay = s.relay
    BY <1>3, <1>7 DEF StateOk, Fits
  <2>2. AppliedChange(s.relay, effects.relayRemoved, effects.relayAdded) = RelayWith(s, effects)
    BY <2>1, <1>7, RelayStep
  <2> QED BY <2>1, <2>2, <1>8 DEF After
<1>30. meta.depth = r.depth
  <2> HIDE DEF meta
  <2> QED BY <1>20 DEF Meta
<1> HIDE DEF h, capped, touched, spent, groups, made, outputs, meta, undone
<1>31. StoredAs(t, c, b) =
        [blocks |-> Append(t.blocks, b), utxos |-> r.utxos,
         groups |-> GroupsAfter(t.groups, b), kernels |-> r.kernels, bonds |-> r.bonds,
         relay |-> r.relay, signers |-> Append(t.signers, b.signer),
         capped |-> Append(t.capped, r.capped),
         minted |-> Append(t.minted, subsidy),
         depths |-> Append(t.depths, r.depth),
         undo |-> [k \in DOMAIN t.undo \cup {h} |->
                      IF k # h THEN t.undo[k] ELSE undone],
         meta |-> Meta(r)]
  BY <1>2, <1>3, <1>4, <1>5, <1>11, <1>17, <1>25 DEF StoredAs
<1>32. StoredBlock(t, b, effects) = StoredAs(t, c, b)
  BY <1>1, <1>19, <1>20, <1>23, <1>26, <1>27, <1>28, <1>29, <1>30, <1>31
<1> QED BY <1>32 DEF effects

BookOk(c) ==
    LET t == Book(c)
    IN  /\ Fits(t, c) /\ GroupsOk(t.groups, t.utxos)
        /\ IsChain(t.minted) /\ Len(t.minted) = Len(c) + 1
        /\ t = [blocks |-> t.blocks, utxos |-> t.utxos, groups |-> t.groups,
                kernels |-> t.kernels, bonds |-> t.bonds, relay |-> t.relay,
                signers |-> t.signers, capped |-> t.capped, minted |-> t.minted,
                depths |-> t.depths, undo |-> t.undo, meta |-> t.meta]
        /\ t.undo = [k \in 1..Len(c) |-> t.undo[k]]

\* The same for the chain's own tables.
LEMMA BookIsStored ==
    ASSUME StateAssumption, NEW c, SoundChain(c), NEW b, Applies(c, b), BookOk(c)
    PROVE  Book(Append(c, b)) = StoredAs(Book(c), c, b)
<1>1. IsChain(c) /\ Fits(Book(c), c)
  BY DEF SoundChain, BookOk
<1> QED BY <1>1, BookMore, StoredIs

\* The coins and kernels before and after a block.
LEMMA CoinsChange ==
    ASSUME NEW c, IsChain(c), NEW b, Applies(c, b)
    PROVE  /\ BodyFits(Coins(StateOf(c).utxos), b)
           /\ Coins(StateOf(Append(c, b)).utxos) = CoinsAfter(Coins(StateOf(c).utxos), b)
           /\ StateOf(Append(c, b)).utxos
                = {u \in StateOf(c).utxos : u.coin \notin SpentCoins(b)}
                     \cup OutputsMade(StateOf(c), b)
           /\ Coins(OutputsMade(StateOf(c), b)) = CoinsOf(OutputsOf(b)) \cup CoinsOf(b.reward)
           /\ StateOf(Append(c, b)).kernels = StateOf(c).kernels \cup {k.id : k \in b.kernels}
           /\ {k.id : k \in b.kernels} \cap StateOf(c).kernels = {}
<1>1. PICK s : s = StateOf(c)
  OBVIOUS
<1>2. PICK r : r = StateOf(Append(c, b))
  OBVIOUS
<1>3. PICK subsidy : ContentsOk(b, subsidy) /\ SpendsOk(s, b) /\ OutputsOk(s, b) /\ KernelsOk(s, b)
  BY <1>1 DEF Applies, Allowed, Accepts
<1>4. BodyFits(Coins(s.utxos), b)
  <2>1. StructureOk(b)
    BY <1>3 DEF ContentsOk
  <2>2. SpentCoins(b) \subseteq Coins(s.utxos)
    BY <1>3 DEF SpendsOk, HasCoin, SpentCoins, Coins
  <2> QED BY <2>1, <2>2, <1>3 DEF OutputsOk, BodyFits, Coins
<1>5. r = NextState(s, b, TimesOf(c))
  BY <1>1, <1>2, StateMore
<1>6. /\ r.utxos = {u \in s.utxos : u.coin \notin SpentCoins(b)} \cup OutputsMade(s, b)
      /\ r.kernels = s.kernels \cup {k.id : k \in b.kernels}
  BY <1>5 DEF NextState, After, OutputsMade
<1>7. ASSUME NEW outputs, NEW coinbase
      PROVE  Coins(Made(s, outputs, coinbase)) = CoinsOf(outputs)
  <2>1. ASSUME NEW o \in outputs
        PROVE  [coin |-> o.coin, owner |-> o.owner, height |-> s.height,
                coinbase |-> coinbase].coin = o.coin
    OBVIOUS
  <2>2. Coins(Made(s, outputs, coinbase))
          = {[coin |-> o.coin, owner |-> o.owner, height |-> s.height,
              coinbase |-> coinbase].coin : o \in outputs}
    BY DEF Coins, Made
  <2> QED BY <2>1, <2>2 DEF CoinsOf
<1>8. Coins(OutputsMade(s, b)) = CoinsOf(OutputsOf(b)) \cup CoinsOf(b.reward)
  <2>1. Coins(OutputsMade(s, b))
          = Coins(Made(s, OutputsOf(b), FALSE)) \cup Coins(Made(s, b.reward, TRUE))
    BY DEF Coins, OutputsMade
  <2> QED BY <2>1, <1>7
<1>9. Coins(r.utxos) = CoinsAfter(Coins(s.utxos), b)
  <2>1. Coins(r.utxos) = (Coins(s.utxos) \ SpentCoins(b)) \cup Coins(OutputsMade(s, b))
    BY <1>6 DEF Coins
  <2> QED BY <2>1, <1>8 DEF CoinsAfter
<1>10. {k.id : k \in b.kernels} \cap s.kernels = {}
  BY <1>3 DEF KernelsOk
<1> QED BY <1>1, <1>2, <1>4, <1>6, <1>8, <1>9, <1>10

\* The tables stay right by a block, and the undo records of the blocks below
\* are kept.
LEMMA BookStep ==
    ASSUME StateAssumption, NEW c, SoundChain(c), NEW b, Applies(c, b), BookOk(c)
    PROVE  /\ BookOk(Append(c, b))
           /\ \A k \in 1..Len(c) : Book(Append(c, b)).undo[k] = Book(c).undo[k]
           /\ Book(Append(c, b)).undo[Len(c) + 1] = UndoRecord(c, Book(c).groups, b)
<1>1. PICK d : d = Append(c, b)
  OBVIOUS
<1>2. PICK n : n = Len(c)
  OBVIOUS
<1>3. PICK t : t = Book(c)
  OBVIOUS
<1>4. PICK x : x = Book(d)
  OBVIOUS
<1>5. PICK r : r = StateOf(d)
  OBVIOUS
<1>6. IsChain(c) /\ n \in Nat /\ Len(d) = n + 1
  BY <1>1, <1>2, ChainLen, AppendIs DEF SoundChain
<1>7. /\ Fits(t, c) /\ GroupsOk(t.groups, t.utxos)
      /\ IsChain(t.minted) /\ Len(t.minted) = n + 1
      /\ t.undo = [k \in 1..n |-> t.undo[k]]
  BY <1>2, <1>3 DEF BookOk
<1>8. PICK undo : undo = [k \in 1..(n + 1) |->
                             IF k # n + 1 THEN t.undo[k] ELSE UndoRecord(c, t.groups, b)]
  OBVIOUS
<1>9. PICK subsidy : subsidy = SubsidyAt(StateOf(c), b, TimesOf(c))
  OBVIOUS
<1>10. x = [blocks |-> Append(t.blocks, b), utxos |-> r.utxos,
            groups |-> GroupsAfter(t.groups, b), kernels |-> r.kernels, bonds |-> r.bonds,
            relay |-> r.relay, signers |-> Append(t.signers, b.signer),
            capped |-> Append(t.capped, r.capped), minted |-> Append(t.minted, subsidy),
            depths |-> Append(t.depths, r.depth), undo |-> undo, meta |-> Meta(r)]
  <2>1. x = StoredAs(t, c, b)
    BY <1>1, <1>3, <1>4, BookIsStored
  <2>2. DOMAIN t.undo \cup {n + 1} = 1..(n + 1)
    <3>1. DOMAIN t.undo = 1..n
      BY <1>7
    <3> QED BY <3>1, <1>6
  <2> QED BY <2>1, <2>2, <1>1, <1>2, <1>5, <1>8, <1>9 DEF StoredAs
<1>11. Fits(x, d)
  <2>1. /\ Append(t.blocks, b) = d /\ Append(t.signers, b.signer) = SignersOf(d)
        /\ Append(t.capped, r.capped) = CappedOf(d) /\ Append(t.depths, r.depth) = DepthsOf(d)
    <3>1. /\ SignersOf(d) = Append(SignersOf(c), b.signer)
          /\ CappedOf(d) = Append(CappedOf(c), r.capped)
          /\ DepthsOf(d) = Append(DepthsOf(c), r.depth)
      BY <1>1, <1>5, <1>6, ColumnsMore
    <3>2. t.blocks = c /\ t.signers = SignersOf(c) /\ t.capped = CappedOf(c)
          /\ t.depths = DepthsOf(c)
      BY <1>7 DEF Fits
    <3> QED BY <3>1, <3>2, <1>1
  <2> QED BY <2>1, <1>5, <1>10 DEF Fits
<1>12. GroupsOk(x.groups, x.utxos)
  <2>1. /\ BodyFits(Coins(t.utxos), b) /\ Coins(r.utxos) = CoinsAfter(Coins(t.utxos), b)
    BY <1>1, <1>5, <1>6, <1>7, CoinsChange DEF Fits
  <2>2. GroupsOk(GroupsAfter(t.groups, b), r.utxos)
    BY <2>1, <1>7, GroupsStep
  <2> QED BY <2>2, <1>10
<1>13. IsChain(x.minted) /\ Len(x.minted) = Len(d) + 1
  <2>1. x.minted = Append(t.minted, subsidy)
    BY <1>10
  <2> QED BY <2>1, <1>6, <1>7, AppendIs
<1>14. x.undo = [k \in 1..Len(d) |-> x.undo[k]]
  BY <1>6, <1>8, <1>10
<1>15. x = [blocks |-> x.blocks, utxos |-> x.utxos, groups |-> x.groups,
            kernels |-> x.kernels, bonds |-> x.bonds, relay |-> x.relay,
            signers |-> x.signers, capped |-> x.capped, minted |-> x.minted,
            depths |-> x.depths, undo |-> x.undo, meta |-> x.meta]
  BY <1>10
<1>16. /\ \A k \in 1..n : x.undo[k] = t.undo[k]
       /\ x.undo[n + 1] = UndoRecord(c, t.groups, b)
  <2>1. n + 1 \in 1..(n + 1) /\ \A k \in 1..n : k \in 1..(n + 1) /\ k # n + 1
    BY <1>6
  <2>2. x.undo = undo
    BY <1>10
  <2> QED BY <2>1, <2>2, <1>8
<1>17. BookOk(d)
  BY <1>4, <1>11, <1>12, <1>13, <1>14, <1>15 DEF BookOk
<1> QED BY <1>1, <1>2, <1>3, <1>4, <1>16, <1>17

\* The genesis tables are right.
LEMMA GenesisBook ==
    ASSUME StateAssumption
    PROVE  BookOk(<<>>)
<1>1. PICK t : t = GenesisTables
  OBVIOUS
<1>2. PICK s : s = GenesisState
  OBVIOUS
<1>3. Book(<<>>) = t /\ StateOf(<<>>) = s
  BY <1>1, <1>2, BookNothing, ReplayNothing DEF StateOf, Fresh
<1>4. Len(<<>>) = 0 /\ Firsts(<<>>, 0) = <<>>
  BY DEF Firsts
<1>5. t = [blocks |-> <<>>, utxos |-> {}, groups |-> {}, kernels |-> {}, bonds |-> {},
           relay |-> GenesisRelay, signers |-> <<NoSigner>>, capped |-> <<0>>,
           minted |-> <<0>>, depths |-> <<GenesisWork>>, undo |-> <<>>, meta |-> Meta(s)]
  BY <1>1, <1>2 DEF GenesisTables
<1>6. s.utxos = {} /\ s.kernels = {} /\ s.bonds = {} /\ s.relay = GenesisRelay
      /\ s.capped = 0 /\ s.depth = GenesisWork
  BY <1>2 DEF GenesisState
<1>7. SignersOf(<<>>) = <<NoSigner>>
  <2>1. SignersOf(<<>>) = [i \in 1..1 |-> NoSigner]
    BY <1>4 DEF SignersOf
  <2> QED BY <2>1
<1>8. CappedOf(<<>>) = <<0>>
  <2>1. CappedOf(<<>>) = [i \in 1..1 |-> 0]
    <3>1. \A i \in 1..1 : i - 1 = 0
      OBVIOUS
    <3> QED BY <3>1, <1>3, <1>4, <1>6 DEF CappedOf
  <2> QED BY <2>1
<1>9. DepthsOf(<<>>) = <<GenesisWork>>
  <2>1. DepthsOf(<<>>) = [i \in 1..1 |-> GenesisWork]
    <3>1. \A i \in 1..1 : i - 1 = 0
      OBVIOUS
    <3> QED BY <3>1, <1>3, <1>4, <1>6 DEF DepthsOf
  <2> QED BY <2>1
<1>10. Fits(t, <<>>)
  BY <1>3, <1>5, <1>6, <1>7, <1>8, <1>9 DEF Fits
<1>11. GroupsOk(t.groups, t.utxos)
  BY <1>5 DEF GroupsOk
<1>12. IsChain(t.minted) /\ Len(t.minted) = 0 + 1
  <2>1. t.minted = <<0>>
    BY <1>5
  <2>2. <<0>> \in Seq({0}) /\ Len(<<0>>) = 1
    OBVIOUS
  <2>3. IsChain(<<0>>)
    BY <2>2 DEF IsChain
  <2> QED BY <2>1, <2>2, <2>3
<1>13. t.undo = [k \in 1..0 |-> t.undo[k]]
  <2>1. t.undo = <<>>
    BY <1>5
  <2> QED BY <2>1
<1> QED BY <1>3, <1>4, <1>5, <1>10, <1>11, <1>12, <1>13 DEF BookOk

\* The tables of every front of a sound chain are right.
LEMMA SoundBook ==
    ASSUME StateAssumption, NEW c, SoundChain(c), NEW n \in 0..Len(c)
    PROVE  BookOk(Firsts(c, n))
<1>1. IsChain(c) /\ Len(c) \in Nat
  BY ChainLen DEF SoundChain
<1> DEFINE S == {m \in Nat : m <= Len(c) => BookOk(Firsts(c, m))}
<1>2. 0 \in S
  <2>1. Firsts(c, 0) = <<>>
    BY <1>1 DEF Firsts
  <2> QED BY <2>1, GenesisBook
<1>3. ASSUME NEW m \in Nat, m \in S PROVE m + 1 \in S
  <2>1. SUFFICES ASSUME m + 1 <= Len(c) PROVE BookOk(Firsts(c, m + 1))
    OBVIOUS
  <2>2. PICK f : f = Firsts(c, m)
    OBVIOUS
  <2>3. m \in 0..Len(c) /\ m <= Len(c) /\ m + 1 \in 1..Len(c) /\ (m + 1) - 1 = m
    BY <2>1, <1>1
  <2>4. BookOk(f) /\ SoundChain(f)
    BY <1>3, <2>2, <2>3, SoundFront
  <2>5. Applies(f, c[m + 1])
    BY <2>2, <2>3 DEF SoundChain, Applies
  <2>6. Firsts(c, m + 1) = Append(f, c[m + 1])
    BY <2>1, <2>2, <1>1, FrontMore
  <2>7. BookOk(Append(f, c[m + 1]))
    BY <2>4, <2>5, BookStep
  <2> QED BY <2>2, <2>6, <2>7
<1>4. Nat \subseteq S
  <2> HIDE DEF S
  <2> QED BY <1>2, <1>3, SetInd
<1>5. n \in S /\ n <= Len(c)
  BY <1>1, <1>4
<1> QED BY <1>5

------------------------------------------------------------------------------
\* The tables of a chain: what storing it leaves, with fewer undo records.
Stored(t, c) ==
    /\ t = [Book(c) EXCEPT !.undo = t.undo]
    /\ DOMAIN t.undo \subseteq 1..Len(c)
    /\ t.undo = [k \in DOMAIN t.undo |-> Book(c).undo[k]]

\* The tables of a stored chain, one by one.
LEMMA StoredFields ==
    ASSUME StateAssumption, NEW c, SoundChain(c), NEW t, Stored(t, c)
    PROVE  /\ Fits(t, c) /\ GroupsOk(t.groups, t.utxos)
           /\ t.groups = Book(c).groups /\ t.minted = Book(c).minted
           /\ t = [blocks |-> t.blocks, utxos |-> t.utxos, groups |-> t.groups,
                   kernels |-> t.kernels, bonds |-> t.bonds, relay |-> t.relay,
                   signers |-> t.signers, capped |-> t.capped, minted |-> t.minted,
                   depths |-> t.depths, undo |-> t.undo, meta |-> t.meta]
<1>1. BookOk(c)
  <2>1. Len(c) \in 0..Len(c) /\ Firsts(c, Len(c)) = c
    BY ChainLen DEF SoundChain
  <2> QED BY <2>1, SoundBook
<1>2. PICK x : x = Book(c)
  OBVIOUS
<1>3. /\ Fits(x, c) /\ GroupsOk(x.groups, x.utxos)
      /\ x = [blocks |-> x.blocks, utxos |-> x.utxos, groups |-> x.groups,
              kernels |-> x.kernels, bonds |-> x.bonds, relay |-> x.relay,
              signers |-> x.signers, capped |-> x.capped, minted |-> x.minted,
              depths |-> x.depths, undo |-> x.undo, meta |-> x.meta]
  BY <1>1, <1>2 DEF BookOk
<1>4. t = [x EXCEPT !.undo = t.undo]
  BY <1>2 DEF Stored
<1>5. t = [blocks |-> x.blocks, utxos |-> x.utxos, groups |-> x.groups,
           kernels |-> x.kernels, bonds |-> x.bonds, relay |-> x.relay,
           signers |-> x.signers, capped |-> x.capped, minted |-> x.minted,
           depths |-> x.depths, undo |-> t.undo, meta |-> x.meta]
  BY <1>3, <1>4
<1>6. /\ t.blocks = x.blocks /\ t.utxos = x.utxos /\ t.groups = x.groups
      /\ t.kernels = x.kernels /\ t.bonds = x.bonds /\ t.relay = x.relay
      /\ t.signers = x.signers /\ t.capped = x.capped /\ t.minted = x.minted
      /\ t.depths = x.depths /\ t.meta = x.meta
  BY <1>5
<1> QED BY <1>2, <1>3, <1>5, <1>6 DEF Fits

\* commit_chain's step 2 on a stored chain leaves the longer chain stored.
LEMMA StoredStep ==
    ASSUME StateAssumption, NEW c, SoundChain(c), NEW b, Applies(c, b), NEW t, Stored(t, c)
    PROVE  LET x == StoredBlock(t, b, EffectsOn(c, b))
           IN  /\ Stored(x, Append(c, b))
               /\ DOMAIN x.undo = DOMAIN t.undo \cup {Len(c) + 1}
<1>1. PICK d : d = Append(c, b)
  OBVIOUS
<1>2. PICK n : n = Len(c)
  OBVIOUS
<1>3. PICK x : x = StoredBlock(t, b, EffectsOn(c, b))
  OBVIOUS
<1>4. PICK B : B = Book(c)
  OBVIOUS
<1>5. PICK C : C = Book(d)
  OBVIOUS
<1>6. n \in Nat /\ Len(d) = n + 1 /\ IsChain(c)
  BY <1>1, <1>2, ChainLen, AppendIs DEF SoundChain
<1>7. BookOk(c)
  <2>1. Len(c) \in 0..Len(c) /\ Firsts(c, Len(c)) = c
    BY ChainLen DEF SoundChain
  <2> QED BY <2>1, SoundBook
<1>8. /\ Fits(t, c) /\ t.groups = B.groups /\ t.minted = B.minted
  BY <1>4, StoredFields
<1>9. Fits(B, c)
  BY <1>4, <1>7 DEF BookOk
<1>10. x = StoredAs(t, c, b)
  BY <1>3, <1>8, StoredIs
<1>11. C = StoredAs(B, c, b)
  BY <1>1, <1>4, <1>5, <1>7, BookIsStored
<1>12. /\ t.blocks = B.blocks /\ t.signers = B.signers /\ t.capped = B.capped
       /\ t.depths = B.depths
  BY <1>8, <1>9 DEF Fits
<1>13. PICK r, subsidy : r = StateOf(Append(c, b)) /\ subsidy = SubsidyAt(StateOf(c), b, TimesOf(c))
  OBVIOUS
<1>14. x = [blocks |-> Append(B.blocks, b), utxos |-> r.utxos,
            groups |-> GroupsAfter(B.groups, b), kernels |-> r.kernels, bonds |-> r.bonds,
            relay |-> r.relay, signers |-> Append(B.signers, b.signer),
            capped |-> Append(B.capped, r.capped), minted |-> Append(B.minted, subsidy),
            depths |-> Append(B.depths, r.depth),
            undo |-> [k \in DOMAIN t.undo \cup {n + 1} |->
                        IF k # n + 1 THEN t.undo[k] ELSE UndoRecord(c, B.groups, b)],
            meta |-> Meta(r)]
  BY <1>2, <1>8, <1>10, <1>12, <1>13 DEF StoredAs
<1>15. C = [blocks |-> Append(B.blocks, b), utxos |-> r.utxos,
            groups |-> GroupsAfter(B.groups, b), kernels |-> r.kernels, bonds |-> r.bonds,
            relay |-> r.relay, signers |-> Append(B.signers, b.signer),
            capped |-> Append(B.capped, r.capped), minted |-> Append(B.minted, subsidy),
            depths |-> Append(B.depths, r.depth),
            undo |-> [k \in DOMAIN B.undo \cup {n + 1} |->
                        IF k # n + 1 THEN B.undo[k] ELSE UndoRecord(c, B.groups, b)],
            meta |-> Meta(r)]
  BY <1>2, <1>11, <1>13 DEF StoredAs
<1>16. x = [C EXCEPT !.undo = x.undo]
  <2>1. PICK u, v : /\ u = [k \in DOMAIN t.undo \cup {n + 1} |->
                            IF k # n + 1 THEN t.undo[k] ELSE UndoRecord(c, B.groups, b)]
                    /\ v = [k \in DOMAIN B.undo \cup {n + 1} |->
                            IF k # n + 1 THEN B.undo[k] ELSE UndoRecord(c, B.groups, b)]
    OBVIOUS
  <2>2. PICK a1, a2, a3, a4, a5, a6 :
           /\ a1 = Append(B.blocks, b) /\ a2 = r.utxos /\ a3 = GroupsAfter(B.groups, b)
           /\ a4 = r.kernels /\ a5 = r.bonds /\ a6 = r.relay
    OBVIOUS
  <2>3. PICK a7, a8, a9, a10, a11 :
           /\ a7 = Append(B.signers, b.signer) /\ a8 = Append(B.capped, r.capped)
           /\ a9 = Append(B.minted, subsidy) /\ a10 = Append(B.depths, r.depth)
           /\ a11 = Meta(r)
    OBVIOUS
  <2>4. x = [blocks |-> a1, utxos |-> a2, groups |-> a3, kernels |-> a4, bonds |-> a5,
             relay |-> a6, signers |-> a7, capped |-> a8, minted |-> a9, depths |-> a10,
             undo |-> u, meta |-> a11]
    BY <2>1, <2>2, <2>3, <1>14, Zenon
  <2>5. C = [blocks |-> a1, utxos |-> a2, groups |-> a3, kernels |-> a4, bonds |-> a5,
             relay |-> a6, signers |-> a7, capped |-> a8, minted |-> a9, depths |-> a10,
             undo |-> v, meta |-> a11]
    BY <2>1, <2>2, <2>3, <1>15, Zenon
  <2>6. x = [C EXCEPT !.undo = u]
    BY <2>4, <2>5
  <2>7. x.undo = u
    BY <2>4
  <2> QED BY <2>6, <2>7
<1>17. /\ DOMAIN t.undo \subseteq 1..n
       /\ \A k \in DOMAIN t.undo : t.undo[k] = B.undo[k]
  BY <1>2, <1>4 DEF Stored
<1>18. DOMAIN B.undo = 1..n
  BY <1>2, <1>4, <1>7 DEF BookOk
<1>19. x.undo = [k \in DOMAIN t.undo \cup {n + 1} |->
                    IF k # n + 1 THEN t.undo[k] ELSE UndoRecord(c, B.groups, b)]
  BY <1>14
<1>20. C.undo = [k \in DOMAIN B.undo \cup {n + 1} |->
                    IF k # n + 1 THEN B.undo[k] ELSE UndoRecord(c, B.groups, b)]
  BY <1>15
<1>21. DOMAIN x.undo = DOMAIN t.undo \cup {n + 1} /\ DOMAIN x.undo \subseteq 1..Len(d)
  BY <1>6, <1>17, <1>19
<1>22. ASSUME NEW k \in DOMAIN x.undo PROVE x.undo[k] = C.undo[k]
  BY <1>6, <1>17, <1>18, <1>19, <1>20
<1>23. x.undo = [k \in DOMAIN x.undo |-> C.undo[k]]
  BY <1>19, <1>22
<1> QED BY <1>1, <1>2, <1>3, <1>5, <1>16, <1>21, <1>23 DEF Stored

\* Its step 1 takes the newest block off: the tables of the chain below.
LEMMA RevertedStep ==
    ASSUME StateAssumption, NEW c, SoundChain(c), NEW b, Applies(c, b),
           NEW t, Stored(t, Append(c, b)), Len(c) + 1 \in DOMAIN t.undo
    PROVE  /\ Stored(RevertedBlock(t), c)
           /\ DOMAIN RevertedBlock(t).undo = DOMAIN t.undo \ {Len(c) + 1}
<1>1. PICK d : d = Append(c, b)
  OBVIOUS
<1>2. PICK n : n = Len(c)
  OBVIOUS
<1>3. PICK s : s = StateOf(c)
  OBVIOUS
<1>4. PICK B : B = Book(c)
  OBVIOUS
<1>5. PICK C : C = Book(d)
  OBVIOUS
<1>6. PICK r : r = StateOf(d)
  OBVIOUS
<1>7. PICK e : e = EffectsOn(c, b)
  OBVIOUS
<1>8. n \in Nat /\ Len(d) = n + 1 /\ IsChain(c) /\ SoundChain(d)
  BY <1>1, <1>2, ChainLen, AppendIs, SoundAppend DEF SoundChain, Applies
<1>9. BookOk(c)
  <2>1. Len(c) \in 0..Len(c) /\ Firsts(c, Len(c)) = c
    BY ChainLen DEF SoundChain
  <2> QED BY <2>1, SoundBook
<1>10. /\ Fits(t, d) /\ t.groups = C.groups /\ t.minted = C.minted
       /\ t = [blocks |-> t.blocks, utxos |-> t.utxos, groups |-> t.groups,
               kernels |-> t.kernels, bonds |-> t.bonds, relay |-> t.relay,
               signers |-> t.signers, capped |-> t.capped, minted |-> t.minted,
               depths |-> t.depths, undo |-> t.undo, meta |-> t.meta]
  BY <1>1, <1>5, <1>8, StoredFields
<1>11. /\ Fits(B, c) /\ GroupsOk(B.groups, B.utxos) /\ IsChain(B.minted) /\ Len(B.minted) = n + 1
       /\ B = [blocks |-> B.blocks, utxos |-> B.utxos, groups |-> B.groups,
               kernels |-> B.kernels, bonds |-> B.bonds, relay |-> B.relay,
               signers |-> B.signers, capped |-> B.capped, minted |-> B.minted,
               depths |-> B.depths, undo |-> B.undo, meta |-> B.meta]
       /\ DOMAIN B.undo = 1..n
  BY <1>2, <1>4, <1>9 DEF BookOk
<1>12. C = StoredAs(B, c, b)
  BY <1>1, <1>4, <1>5, <1>9, BookIsStored
<1>13. /\ C.groups = GroupsAfter(B.groups, b)
       /\ \E subsidy : C.minted = Append(B.minted, subsidy)
  BY <1>12 DEF StoredAs
<1>14. t.undo[n + 1] = UndoRecord(c, B.groups, b)
  <2>1. C.undo[n + 1] = UndoRecord(c, B.groups, b)
    BY <1>1, <1>2, <1>4, <1>5, <1>9, BookStep
  <2>2. t.undo[n + 1] = C.undo[n + 1]
    BY <1>1, <1>2, <1>5 DEF Stored
  <2> QED BY <2>1, <2>2
<1>15. PICK u : u = t.undo[n + 1]
  OBVIOUS
<1>16. /\ u.spent = SpentOf(s, b) /\ u.created = {o.coin : o \in OutputsMade(s, b)}
       /\ u.kernels = {k.id : k \in b.kernels} /\ u.prev = Meta(s)
       /\ u.createdGroups = {m.id : m \in GroupsMade(b)}
       /\ u.touchedGroups = SpentGroups(B.groups, b) /\ u.effects = e
  BY <1>3, <1>7, <1>14, <1>15 DEF UndoRecord
<1> DEFINE h == t.meta.height - 1
           v == t.undo[h]
<1>17. h = n + 1
  <2>1. t.meta.height = r.height
    BY <1>6, <1>10 DEF Fits, Meta
  <2>2. r.height = (n + 1) + 1
    BY <1>6, <1>8, SoundIsOk DEF StateOk, ShapeOk
  <2> QED BY <2>1, <2>2, <1>8
<1>18. RevertedBlock(t) =
         [t EXCEPT !.blocks = Drop(@, h - 1),
                   !.groups = GroupsBefore(t.groups, v.createdGroups, v.touchedGroups),
                   !.utxos = {x \in @ : x.coin \notin v.created} \cup v.spent,
                   !.kernels = @ \ v.kernels,
                   !.bonds = UndoneEffects(@, v.effects.bondsRemoved, v.effects.bondsAdded),
                   !.relay = RevertedChange(@, v.effects.relayRemoved, v.effects.relayAdded),
                   !.signers = Drop(@, h), !.capped = Drop(@, h),
                   !.minted = Drop(@, h), !.depths = Drop(@, h),
                   !.undo = [k \in DOMAIN @ \ {h} |-> @[k]],
                   !.meta = v.prev]
  BY DEF RevertedBlock, GroupsBefore
<1>19. v = u
  BY <1>15, <1>17
<1> HIDE DEF h, v
<1>20. PICK undo : undo = [k \in DOMAIN t.undo \ {n + 1} |-> t.undo[k]]
  OBVIOUS
<1>21. Drop(t.blocks, h - 1) = B.blocks
  <2>1. t.blocks = d /\ B.blocks = c /\ h - 1 = n
    BY <1>8, <1>10, <1>11, <1>17 DEF Fits
  <2>2. Firsts(d, n) = c
    BY <1>1, <1>2, <1>8, AppendIs
  <2> QED BY <2>1, <2>2 DEF Drop, Firsts
<1>22. GroupsBefore(t.groups, v.createdGroups, v.touchedGroups) = B.groups
  <2>1. /\ BodyFits(Coins(B.utxos), b) /\ Coins(r.utxos) = CoinsAfter(Coins(B.utxos), b)
    BY <1>1, <1>3, <1>6, <1>8, <1>11, CoinsChange DEF Fits, Applies
  <2>2. GroupsBefore(GroupsAfter(B.groups, b), {m.id : m \in GroupsMade(b)},
                     SpentGroups(B.groups, b)) = B.groups
    BY <2>1, <1>11, GroupsStep
  <2> QED BY <2>2, <1>10, <1>13, <1>16, <1>19
<1>23. {x \in t.utxos : x.coin \notin v.created} \cup v.spent = B.utxos
  <2>1. PICK made : made = OutputsMade(s, b)
    OBVIOUS
  <2>2. t.utxos = {x \in s.utxos : x.coin \notin SpentCoins(b)} \cup made
    BY <2>1, <1>1, <1>3, <1>6, <1>8, <1>10, CoinsChange DEF Fits
  <2>3. v.created = Coins(made) /\ v.spent = {x \in s.utxos : x.coin \in SpentCoins(b)}
    BY <2>1, <1>16, <1>19 DEF Coins, SpentOf
  <2>4. Coins(made) \cap (Coins(s.utxos) \ SpentCoins(b)) = {}
    <3>1. BodyFits(Coins(s.utxos), b)
          /\ Coins(made) = CoinsOf(OutputsOf(b)) \cup CoinsOf(b.reward)
      BY <2>1, <1>3, <1>8, CoinsChange
    <3> QED BY <3>1 DEF BodyFits
  <2>5. ASSUME NEW x \in s.utxos, x.coin \notin SpentCoins(b) PROVE x.coin \notin Coins(made)
    <3>1. x.coin \in Coins(s.utxos) \ SpentCoins(b)
      BY <2>5 DEF Coins
    <3> QED BY <3>1, <2>4
  <2>6. ASSUME NEW x \in made PROVE x.coin \in Coins(made)
    BY DEF Coins
  <2>7. B.utxos = s.utxos
    BY <1>3, <1>11 DEF Fits
  <2> QED BY <2>2, <2>3, <2>5, <2>6, <2>7
<1>24. t.kernels \ v.kernels = B.kernels
  <2>1. PICK new : new = {k.id : k \in b.kernels}
    OBVIOUS
  <2>2. t.kernels = s.kernels \cup new /\ new \cap s.kernels = {}
    <3>1. /\ r.kernels = s.kernels \cup {k.id : k \in b.kernels}
          /\ {k.id : k \in b.kernels} \cap s.kernels = {}
      BY <1>1, <1>3, <1>6, <1>8, CoinsChange
    <3>2. t.kernels = r.kernels
      BY <1>6, <1>10 DEF Fits
    <3> QED BY <3>1, <3>2, <2>1
  <2>3. v.kernels = new /\ B.kernels = s.kernels
    BY <2>1, <1>3, <1>11, <1>16, <1>19 DEF Fits
  <2> QED BY <2>2, <2>3
<1>25. /\ IsRelay(s.relay) /\ BondsOk(s.bonds, s.relay) /\ WellFormed(b)
       /\ Allowed(s, b, TimesOf(c)) /\ e = Effects(s, b, TimesOf(c))
       /\ r = NextState(s, b, TimesOf(c))
  BY <1>1, <1>3, <1>6, <1>7, <1>8, SoundIsOk, StateMore DEF StateOk, Applies, EffectsOn
<1>26. UndoneEffects(t.bonds, v.effects.bondsRemoved, v.effects.bondsAdded) = B.bonds
  <2>1. UndoneEffects(BondsAt(s, b, TimesOf(c)), e.bondsRemoved, e.bondsAdded) = s.bonds
    <3>1. MaxRegistrations \in Nat /\ MaxRegistrations <= 1
      BY DEF StateAssumption
    <3> QED BY <3>1, <1>25, BondStep
  <2>2. t.bonds = BondsAt(s, b, TimesOf(c))
    <3>1. t.bonds = r.bonds
      BY <1>6, <1>10 DEF Fits
    <3> QED BY <3>1, <1>25 DEF NextState, After
  <2>3. B.bonds = s.bonds
    BY <1>3, <1>11 DEF Fits
  <2> QED BY <2>1, <2>2, <2>3, <1>16, <1>19
<1>27. RevertedChange(t.relay, v.effects.relayRemoved, v.effects.relayAdded) = B.relay
  <2>1. RevertedChange(RelayWith(s, e), e.relayRemoved, e.relayAdded) = s.relay
    BY <1>25, RelayStep
  <2>2. t.relay = RelayWith(s, e)
    <3>1. t.relay = r.relay
      BY <1>6, <1>10 DEF Fits
    <3> QED BY <3>1, <1>25 DEF NextState, After
  <2>3. B.relay = s.relay
    BY <1>3, <1>11 DEF Fits
  <2> QED BY <2>1, <2>2, <2>3, <1>16, <1>19
<1>28. /\ Drop(t.signers, h) = B.signers /\ Drop(t.capped, h) = B.capped
       /\ Drop(t.depths, h) = B.depths
  <2>1. /\ SignersOf(d) = Append(SignersOf(c), b.signer)
        /\ CappedOf(d) = Append(CappedOf(c), r.capped)
        /\ DepthsOf(d) = Append(DepthsOf(c), r.depth)
        /\ IsChain(SignersOf(c)) /\ Len(SignersOf(c)) = n + 1
        /\ IsChain(CappedOf(c)) /\ Len(CappedOf(c)) = n + 1
        /\ IsChain(DepthsOf(c)) /\ Len(DepthsOf(c)) = n + 1
    BY <1>1, <1>2, <1>6, <1>8, ColumnsMore
  <2>2. /\ Firsts(SignersOf(d), n + 1) = SignersOf(c)
        /\ Firsts(CappedOf(d), n + 1) = CappedOf(c)
        /\ Firsts(DepthsOf(d), n + 1) = DepthsOf(c)
    BY <2>1, AppendIs
  <2>3. /\ t.signers = SignersOf(d) /\ t.capped = CappedOf(d) /\ t.depths = DepthsOf(d)
        /\ B.signers = SignersOf(c) /\ B.capped = CappedOf(c) /\ B.depths = DepthsOf(c)
    BY <1>10, <1>11 DEF Fits
  <2> QED BY <2>2, <2>3, <1>17 DEF Drop, Firsts
<1>29. Drop(t.minted, h) = B.minted
  <2>1. PICK subsidy : t.minted = Append(B.minted, subsidy)
    BY <1>10, <1>13
  <2>2. Firsts(t.minted, n + 1) = B.minted
    BY <2>1, <1>11, AppendIs
  <2> QED BY <2>2, <1>17 DEF Drop, Firsts
<1>30. v.prev = B.meta
  BY <1>3, <1>11, <1>16, <1>19 DEF Fits
<1>31. RevertedBlock(t) =
         [blocks |-> B.blocks, utxos |-> B.utxos, groups |-> B.groups,
          kernels |-> B.kernels, bonds |-> B.bonds, relay |-> B.relay,
          signers |-> B.signers, capped |-> B.capped, minted |-> B.minted,
          depths |-> B.depths, undo |-> undo, meta |-> B.meta]
  <2>1. RevertedBlock(t) =
          [t EXCEPT !.blocks = B.blocks, !.groups = B.groups, !.utxos = B.utxos,
                    !.kernels = B.kernels, !.bonds = B.bonds, !.relay = B.relay,
                    !.signers = B.signers, !.capped = B.capped, !.minted = B.minted,
                    !.depths = B.depths, !.undo = undo, !.meta = B.meta]
    BY <1>17, <1>18, <1>20, <1>21, <1>22, <1>23, <1>24, <1>26, <1>27, <1>28, <1>29, <1>30,
       Zenon
  <2> QED BY <2>1, <1>10, ZenonT(60)
<1>32. RevertedBlock(t) = [B EXCEPT !.undo = RevertedBlock(t).undo]
       /\ RevertedBlock(t).undo = undo
  BY <1>11, <1>31
<1>33. ASSUME NEW k \in DOMAIN undo PROVE k \in 1..n /\ undo[k] = B.undo[k]
  <2>1. k \in DOMAIN t.undo /\ k # n + 1 /\ undo[k] = t.undo[k]
    BY <1>20
  <2>2. k \in 1..(n + 1) /\ t.undo[k] = C.undo[k]
    BY <2>1, <1>1, <1>5, <1>8 DEF Stored
  <2>3. k \in 1..n
    BY <2>1, <2>2, <1>8
  <2>4. C.undo[k] = B.undo[k]
    BY <2>3, <1>1, <1>2, <1>4, <1>5, <1>9, BookStep
  <2> QED BY <2>1, <2>2, <2>3, <2>4
<1>34. undo = [k \in DOMAIN undo |-> B.undo[k]] /\ DOMAIN undo = DOMAIN t.undo \ {n + 1}
  BY <1>20, <1>33
<1>35. Stored(RevertedBlock(t), c)
  BY <1>2, <1>4, <1>32, <1>33, <1>34 DEF Stored
<1> QED BY <1>2, <1>32, <1>34, <1>35

\* A block of a sound chain, and the chain below it.
LEMMA SoundLast ==
    ASSUME NEW c, SoundChain(c), NEW k \in 1..Len(c)
    PROVE  /\ Firsts(c, k) = Append(Firsts(c, k - 1), c[k])
           /\ SoundChain(Firsts(c, k - 1)) /\ SoundChain(Firsts(c, k))
           /\ Applies(Firsts(c, k - 1), c[k])
           /\ Len(Firsts(c, k - 1)) = k - 1
<1>1. IsChain(c) /\ Len(c) \in Nat
  BY ChainLen DEF SoundChain
<1>2. k - 1 \in Nat /\ k - 1 \in 0..Len(c) /\ k \in 0..Len(c) /\ (k - 1) + 1 = k /\ (k - 1) + 1 <= Len(c)
  BY <1>1
<1>3. PICK j : j = k - 1
  OBVIOUS
<1>4. Firsts(c, j + 1) = Append(Firsts(c, j), c[j + 1])
  BY <1>1, <1>2, <1>3, FrontMore
<1>5. SoundChain(Firsts(c, k - 1)) /\ SoundChain(Firsts(c, k))
  BY <1>2, SoundFront
<1>6. Applies(Firsts(c, k - 1), c[k])
  BY DEF SoundChain, Applies
<1>7. Len(Firsts(c, k - 1)) = k - 1
  BY <1>1, <1>2, FrontIs
<1> QED BY <1>2, <1>3, <1>4, <1>5, <1>6, <1>7

Reverting(t, n) ==
    CHOOSE after : after = [i \in 0..n |-> IF i = 0 THEN t ELSE RevertedBlock(after[i - 1])]

\* The recursive function that takes blocks off, by its equation.
LEMMA RevertingIs ==
    ASSUME NEW t, NEW n \in Nat
    PROVE  Reverting(t, n) =
        [i \in 0..n |-> IF i = 0 THEN t ELSE RevertedBlock(Reverting(t, n)[i - 1])]
<1> DEFINE P(m) == \E g : g = [i \in 0..m |-> IF i = 0 THEN t ELSE RevertedBlock(g[i - 1])]
<1>1. P(0)
  <2>1. [i \in 0..0 |-> t] = [i \in 0..0 |->
           IF i = 0 THEN t ELSE RevertedBlock([k \in 0..0 |-> t][i - 1])]
    OBVIOUS
  <2> QED BY <2>1
<1>2. ASSUME NEW m \in Nat, P(m) PROVE P(m + 1)
  <2>1. PICK g : g = [i \in 0..m |-> IF i = 0 THEN t ELSE RevertedBlock(g[i - 1])]
    BY <1>2
  <2>2. PICK h : h = [i \in 0..(m + 1) |-> IF i = m + 1 THEN RevertedBlock(g[m]) ELSE g[i]]
    OBVIOUS
  <2>3. ASSUME NEW i \in 0..(m + 1)
        PROVE  h[i] = IF i = 0 THEN t ELSE RevertedBlock(h[i - 1])
    <3>1. CASE i = m + 1
      BY <3>1, <2>2
    <3>2. CASE i # m + 1
      <4>1. i \in 0..m /\ h[i] = g[i]
        BY <3>2, <2>2
      <4>2. i # 0 => i - 1 \in 0..(m + 1) /\ i - 1 # m + 1
        BY <4>1
      <4> QED BY <4>1, <4>2, <2>1, <2>2
    <3> QED BY <3>1, <3>2
  <2>4. h = [i \in 0..(m + 1) |-> IF i = 0 THEN t ELSE RevertedBlock(h[i - 1])]
    BY <2>2, <2>3
  <2> QED BY <2>4
<1>3. P(n)
  <2>1. PICK S : S = {m \in Nat : P(m)}
    OBVIOUS
  <2> HIDE DEF P
  <2>2. 0 \in S /\ \A m \in Nat : m \in S => m + 1 \in S
    BY <1>1, <1>2, <2>1
  <2>3. Nat \subseteq S
    BY <2>2, SetInd
  <2> QED BY <2>1, <2>3
<1> QED BY <1>3 DEF Reverting

\* RevertedTo is its last value.
LEMMA RevertedToIs ==
    ASSUME NEW t, NEW first
    PROVE  RevertedTo(t, first) = Reverting(t, t.meta.height - first)[t.meta.height - first]
BY DEF RevertedTo, Reverting

\* Taking blocks off down to a height leaves the chain below it stored.
LEMMA RevertedFront ==
    ASSUME StateAssumption, NEW c, SoundChain(c), NEW t, Stored(t, c),
           NEW first \in 1..(Len(c) + 1), first..Len(c) \subseteq DOMAIN t.undo
    PROVE  /\ Stored(RevertedTo(t, first), Firsts(c, first - 1))
           /\ DOMAIN RevertedTo(t, first).undo \subseteq DOMAIN t.undo
<1>1. IsChain(c) /\ Len(c) \in Nat /\ Firsts(c, Len(c)) = c
  BY ChainLen DEF SoundChain
<1>2. PICK N : N = Len(c)
  OBVIOUS
<1>3. t.meta.height = N + 1
  <2>1. t.meta = Meta(StateOf(c))
    BY StoredFields DEF Fits
  <2>2. StateOf(c).height = N + 1
    BY <1>2, SoundIsOk DEF StateOk, ShapeOk
  <2> QED BY <2>1, <2>2 DEF Meta
<1>4. PICK n : n = (N + 1) - first
  OBVIOUS
<1>5. n \in Nat /\ N \in Nat /\ first - 1 = N - n /\ n <= N
  BY <1>1, <1>2, <1>4
<1>6. PICK f : f = Reverting(t, n)
  OBVIOUS
<1>7. \A i \in 0..n : f[i] = IF i = 0 THEN t ELSE RevertedBlock(f[i - 1])
  BY <1>5, <1>6, RevertingIs
<1> DEFINE Good(i) == /\ Stored(f[i], Firsts(c, N - i))
                      /\ DOMAIN f[i].undo = {k \in DOMAIN t.undo : k <= N - i}
           S == {i \in Nat : i <= n => Good(i)}
<1>8. DOMAIN t.undo \subseteq 1..N
  BY <1>2 DEF Stored
<1>9. 0 \in S
  <2>1. f[0] = t /\ N - 0 = N
    BY <1>5, <1>7
  <2>2. DOMAIN t.undo = {k \in DOMAIN t.undo : k <= N}
    BY <1>8
  <2> QED BY <2>1, <2>2, <1>1, <1>2
<1>10. ASSUME NEW i \in Nat, i \in S PROVE i + 1 \in S
  <2>1. SUFFICES ASSUME i + 1 <= n PROVE Good(i + 1)
    OBVIOUS
  <2>2. PICK k : k = N - i
    OBVIOUS
  <2>3. k \in 1..Len(c) /\ N - (i + 1) = k - 1 /\ first <= k
    BY <2>1, <2>2, <1>2, <1>4, <1>5
  <2>4. PICK p : p = Firsts(c, k - 1)
    OBVIOUS
  <2>5. PICK b : b = c[k]
    OBVIOUS
  <2>6. /\ Firsts(c, k) = Append(p, b) /\ SoundChain(p) /\ Applies(p, b) /\ Len(p) = k - 1
    BY <2>3, <2>4, <2>5, SoundLast
  <2>7. PICK x : x = f[i]
    OBVIOUS
  <2>8. i <= n /\ Stored(x, Append(p, b)) /\ DOMAIN x.undo = {j \in DOMAIN t.undo : j <= k}
    <3>1. i <= n
      BY <2>1, <1>5
    <3> QED BY <3>1, <1>10, <2>2, <2>6, <2>7
  <2>9. (k - 1) + 1 = k /\ k \in DOMAIN x.undo
    BY <2>3, <2>8, <1>2
  <2>10. f[i + 1] = RevertedBlock(x)
    <3>1. i + 1 \in 0..n /\ i + 1 # 0 /\ (i + 1) - 1 = i
      BY <2>1, <1>5
    <3> QED BY <3>1, <1>7, <2>7
  <2>11. /\ Stored(RevertedBlock(x), p)
         /\ DOMAIN RevertedBlock(x).undo = DOMAIN x.undo \ {k}
    BY <2>6, <2>8, <2>9, RevertedStep
  <2>12. DOMAIN x.undo \ {k} = {j \in DOMAIN t.undo : j <= k - 1}
    BY <2>3, <2>8, <1>8
  <2> QED BY <2>3, <2>4, <2>10, <2>11, <2>12
<1>11. Good(n)
  <2>1. Nat \subseteq S
    <3> HIDE DEF S
    <3> QED BY <1>9, <1>10, SetInd
  <2> QED BY <2>1, <1>5
<1>12. RevertedTo(t, first) = f[n]
  BY <1>3, <1>4, <1>6, RevertedToIs
<1> QED BY <1>5, <1>11, <1>12

------------------------------------------------------------------------------
\* A state that is right but for its windows and withheld work.
ButWindows(s, r) ==
    s = [r EXCEPT !.capped = s.capped, !.recent = s.recent, !.counts = s.counts,
                  !.low = s.low]

\* A state, field by field.
StateFrom(h, t, d, c, m, u, k, b, y, x, n, l) ==
    [height |-> h, time |-> t, depth |-> d, capped |-> c, supply |-> m, utxos |-> u,
     kernels |-> k, bonds |-> b, relay |-> y, recent |-> x, counts |-> n, low |-> l]

StateFields == {"height", "time", "depth", "capped", "supply", "utxos", "kernels", "bonds",
                "relay", "recent", "counts", "low"}

Rewindowed(s, c, x, n, l) ==
    [s EXCEPT !.capped = c, !.recent = x, !.counts = n, !.low = l]
Rebooked(s, h, t, d, m, u, k, b, y) ==
    [s EXCEPT !.height = h, !.time = t, !.depth = d, !.supply = m, !.utxos = u,
              !.kernels = k, !.bonds = b, !.relay = y]

\* The fields of a state put together from its parts.
LEMMA FieldsOf ==
    ASSUME NEW h, NEW t, NEW d, NEW c, NEW m, NEW u, NEW k, NEW b, NEW y, NEW x, NEW n, NEW l
    PROVE  LET s == StateFrom(h, t, d, c, m, u, k, b, y, x, n, l)
           IN  /\ s.height = h /\ s.time = t /\ s.depth = d /\ s.capped = c /\ s.supply = m
               /\ s.utxos = u /\ s.kernels = k /\ s.bonds = b /\ s.relay = y
               /\ s.recent = x /\ s.counts = n /\ s.low = l
BY DEF StateFrom

\* Setting a state's windows.
LEMMA NewWindows ==
    ASSUME NEW h, NEW t, NEW d, NEW c, NEW m, NEW u, NEW k, NEW b, NEW y, NEW x, NEW n, NEW l,
           NEW c2, NEW x2, NEW n2, NEW l2,
           NEW s, s = StateFrom(h, t, d, c, m, u, k, b, y, x, n, l)
    PROVE  Rewindowed(s, c2, x2, n2, l2)
             = StateFrom(h, t, d, c2, m, u, k, b, y, x2, n2, l2)
<1>1. DOMAIN s = StateFields
  BY DEF StateFrom, StateFields
<1>2. PICK e : e = Rewindowed(s, c2, x2, n2, l2)
  OBVIOUS
<1>3. PICK f : f = StateFrom(h, t, d, c2, m, u, k, b, y, x2, n2, l2)
  OBVIOUS
<1>4. DOMAIN e = DOMAIN s /\ e = [i \in DOMAIN s |-> e[i]]
  BY <1>2 DEF Rewindowed
<1>5. DOMAIN f = DOMAIN s /\ f = [i \in DOMAIN s |-> f[i]]
  BY <1>1, <1>3 DEF StateFrom, StateFields
<1>6. e.height = h /\ e.time = t /\ e.depth = d /\ e.capped = c2 /\ e.supply = m /\ e.utxos = u
  BY <1>1, <1>2 DEF Rewindowed, StateFrom, StateFields
<1>7. e.kernels = k /\ e.bonds = b /\ e.relay = y /\ e.recent = x2 /\ e.counts = n2 /\ e.low = l2
  BY <1>1, <1>2 DEF Rewindowed, StateFrom, StateFields
<1>8. /\ f.height = h /\ f.time = t /\ f.depth = d /\ f.capped = c2 /\ f.supply = m /\ f.utxos = u
      /\ f.kernels = k /\ f.bonds = b /\ f.relay = y /\ f.recent = x2 /\ f.counts = n2 /\ f.low = l2
  BY <1>3, FieldsOf
<1>9. \A i \in DOMAIN s : e[i] = f[i]
  BY <1>1, <1>6, <1>7, <1>8 DEF StateFields
<1> QED BY <1>2, <1>3, <1>4, <1>5, <1>9

\* Setting the rest of it.
LEMMA NewBook ==
    ASSUME NEW h, NEW t, NEW d, NEW c, NEW m, NEW u, NEW k, NEW b, NEW y, NEW x, NEW n, NEW l,
           NEW h2, NEW t2, NEW d2, NEW m2, NEW u2, NEW k2, NEW b2, NEW y2,
           NEW s, s = StateFrom(h, t, d, c, m, u, k, b, y, x, n, l)
    PROVE  Rebooked(s, h2, t2, d2, m2, u2, k2, b2, y2)
             = StateFrom(h2, t2, d2, c, m2, u2, k2, b2, y2, x, n, l)
<1>1. DOMAIN s = StateFields
  BY DEF StateFrom, StateFields
<1>2. PICK e : e = Rebooked(s, h2, t2, d2, m2, u2, k2, b2, y2)
  OBVIOUS
<1>3. PICK f : f = StateFrom(h2, t2, d2, c, m2, u2, k2, b2, y2, x, n, l)
  OBVIOUS
<1>4. DOMAIN e = DOMAIN s /\ e = [i \in DOMAIN s |-> e[i]]
  BY <1>2 DEF Rebooked
<1>5. DOMAIN f = DOMAIN s /\ f = [i \in DOMAIN s |-> f[i]]
  BY <1>1, <1>3 DEF StateFrom, StateFields
<1>6. e.height = h2 /\ e.time = t2 /\ e.depth = d2 /\ e.capped = c /\ e.supply = m2 /\ e.utxos = u2
  BY <1>1, <1>2 DEF Rebooked, StateFrom, StateFields
<1>7. e.kernels = k2 /\ e.bonds = b2 /\ e.relay = y2 /\ e.recent = x /\ e.counts = n /\ e.low = l
  BY <1>1, <1>2 DEF Rebooked, StateFrom, StateFields
<1>8. /\ f.height = h2 /\ f.time = t2 /\ f.depth = d2 /\ f.capped = c /\ f.supply = m2 /\ f.utxos = u2
      /\ f.kernels = k2 /\ f.bonds = b2 /\ f.relay = y2 /\ f.recent = x /\ f.counts = n /\ f.low = l
  BY <1>3, FieldsOf
<1>9. \A i \in DOMAIN s : e[i] = f[i]
  BY <1>1, <1>6, <1>7, <1>8 DEF StateFields
<1> QED BY <1>2, <1>3, <1>4, <1>5, <1>9

IsState(s) == \E h, t, d, c, m, u, k, b, y, x, n, l : s = StateFrom(h, t, d, c, m, u, k, b, y, x, n, l)

\* The state of a chain is a state.
LEMMA ShapeIs ==
    ASSUME NEW s, NEW c, ShapeOk(s, c)
    PROVE  IsState(s)
BY DEF ShapeOk, IsState, StateFrom

\* Two states but for their windows, field by field.
LEMMA ButWindowsIs ==
    ASSUME NEW s, NEW r, IsState(r)
    PROVE  /\ ButWindows(s, r)
                 <=> /\ IsState(s) /\ s.height = r.height /\ s.time = r.time /\ s.depth = r.depth
                     /\ s.supply = r.supply /\ s.utxos = r.utxos /\ s.kernels = r.kernels
                     /\ s.bonds = r.bonds /\ s.relay = r.relay
<1>1. PICK h, t, d, c, m, u, k, b, y, x, n, l : r = StateFrom(h, t, d, c, m, u, k, b, y, x, n, l)
  BY DEF IsState
<1>2. /\ r.height = h /\ r.time = t /\ r.depth = d /\ r.capped = c /\ r.supply = m
      /\ r.utxos = u /\ r.kernels = k /\ r.bonds = b /\ r.relay = y
      /\ r.recent = x /\ r.counts = n /\ r.low = l
  BY <1>1, FieldsOf
<1>3. ASSUME ButWindows(s, r)
      PROVE  /\ IsState(s) /\ s.height = r.height /\ s.time = r.time /\ s.depth = r.depth
             /\ s.supply = r.supply /\ s.utxos = r.utxos /\ s.kernels = r.kernels
             /\ s.bonds = r.bonds /\ s.relay = r.relay
  <2>1. PICK c2, x2, n2, l2 : c2 = s.capped /\ x2 = s.recent /\ n2 = s.counts /\ l2 = s.low
    OBVIOUS
  <2>2. s = Rewindowed(r, c2, x2, n2, l2)
    BY <1>3, <2>1, Zenon DEF ButWindows, Rewindowed
  <2>3. s = StateFrom(h, t, d, c2, m, u, k, b, y, x2, n2, l2)
    BY <2>2, <1>1, NewWindows
  <2>4. /\ s.height = h /\ s.time = t /\ s.depth = d /\ s.supply = m
        /\ s.utxos = u /\ s.kernels = k /\ s.bonds = b /\ s.relay = y
    BY <2>3, FieldsOf
  <2>5. IsState(s)
    BY <2>3 DEF IsState
  <2> QED BY <1>2, <2>4, <2>5
<1>4. ASSUME IsState(s), s.height = r.height, s.time = r.time, s.depth = r.depth,
             s.supply = r.supply, s.utxos = r.utxos, s.kernels = r.kernels,
             s.bonds = r.bonds, s.relay = r.relay
      PROVE  ButWindows(s, r)
  <2>1. PICK h2, t2, d2, c2, m2, u2, k2, b2, y2, x2, n2, l2 :
           s = StateFrom(h2, t2, d2, c2, m2, u2, k2, b2, y2, x2, n2, l2)
    BY <1>4 DEF IsState
  <2>2. /\ s.height = h2 /\ s.time = t2 /\ s.depth = d2 /\ s.capped = c2 /\ s.supply = m2
        /\ s.utxos = u2 /\ s.kernels = k2 /\ s.bonds = b2 /\ s.relay = y2
        /\ s.recent = x2 /\ s.counts = n2 /\ s.low = l2
    BY <2>1, FieldsOf
  <2>3. s = StateFrom(h, t, d, c2, m, u, k, b, y, x2, n2, l2)
    BY <1>2, <1>4, <2>1, <2>2
  <2>4. s = Rewindowed(r, c2, x2, n2, l2)
    BY <2>3, <1>1, NewWindows
  <2> QED BY <2>2, <2>4, Zenon DEF ButWindows, Rewindowed
<1> QED BY <1>3, <1>4

\* States that agree in every field are the same.
LEMMA SameState ==
    ASSUME NEW s, NEW r, IsState(s), IsState(r), ButWindows(s, r), s.capped = r.capped,
           s.recent = r.recent, s.counts = r.counts, s.low = r.low
    PROVE  s = r
<1>1. PICK h, t, d, c, m, u, k, b, y, x, n, l : r = StateFrom(h, t, d, c, m, u, k, b, y, x, n, l)
  BY DEF IsState
<1>2. /\ r.height = h /\ r.time = t /\ r.depth = d /\ r.capped = c /\ r.supply = m
      /\ r.utxos = u /\ r.kernels = k /\ r.bonds = b /\ r.relay = y
      /\ r.recent = x /\ r.counts = n /\ r.low = l
  BY <1>1, FieldsOf
<1>3. s = Rewindowed(r, c, x, n, l)
  BY <1>2, Zenon DEF ButWindows, Rewindowed
<1> QED BY <1>1, <1>3, NewWindows

\* Its record u takes the block off the state it was applied to.
LEMMA UndoneStep ==
    ASSUME StateAssumption, NEW c, SoundChain(c), NEW b, Applies(c, b), NEW s,
           ButWindows(s, StateOf(Append(c, b))), NEW groups
    PROVE  ButWindows(UndoneState(s, UndoRecord(c, groups, b)), StateOf(c))
<1>1. PICK q : q = StateOf(c)
  OBVIOUS
<1>2. PICK r : r = StateOf(Append(c, b))
  OBVIOUS
<1>3. PICK e : e = EffectsOn(c, b)
  OBVIOUS
<1>4. PICK u : u = UndoRecord(c, groups, b)
  OBVIOUS
<1>5. IsChain(c) /\ SoundChain(Append(c, b))
  BY SoundAppend DEF SoundChain, Applies
<1>6. /\ u.spent = SpentOf(q, b) /\ u.created = Coins(OutputsMade(q, b))
      /\ u.kernels = {k.id : k \in b.kernels} /\ u.prev = Meta(q) /\ u.effects = e
  BY <1>1, <1>3, <1>4 DEF UndoRecord, Coins
<1>7. /\ u.prev.height = q.height /\ u.prev.time = q.time
      /\ u.prev.depth = q.depth /\ u.prev.supply = q.supply
  BY <1>6 DEF Meta
<1>8. /\ IsRelay(q.relay) /\ BondsOk(q.bonds, q.relay) /\ WellFormed(b)
      /\ Allowed(q, b, TimesOf(c)) /\ e = Effects(q, b, TimesOf(c))
      /\ r = NextState(q, b, TimesOf(c)) /\ ShapeOk(q, c)
  BY <1>1, <1>2, <1>3, <1>5, SoundIsOk, StateMore DEF StateOk, Applies, EffectsOn
<1>9. {x \in r.utxos : x.coin \notin u.created} \cup u.spent = q.utxos
  <2>1. PICK made : made = OutputsMade(q, b)
    OBVIOUS
  <2>2. r.utxos = {x \in q.utxos : x.coin \notin SpentCoins(b)} \cup made
    BY <2>1, <1>1, <1>2, <1>5, CoinsChange
  <2>3. u.created = Coins(made) /\ u.spent = {x \in q.utxos : x.coin \in SpentCoins(b)}
    BY <2>1, <1>6 DEF SpentOf
  <2>4. Coins(made) \cap (Coins(q.utxos) \ SpentCoins(b)) = {}
    <3>1. BodyFits(Coins(q.utxos), b)
          /\ Coins(made) = CoinsOf(OutputsOf(b)) \cup CoinsOf(b.reward)
      BY <2>1, <1>1, <1>5, CoinsChange
    <3> QED BY <3>1 DEF BodyFits
  <2>5. ASSUME NEW x \in q.utxos, x.coin \notin SpentCoins(b) PROVE x.coin \notin Coins(made)
    <3>1. x.coin \in Coins(q.utxos) \ SpentCoins(b)
      BY <2>5 DEF Coins
    <3> QED BY <3>1, <2>4
  <2>6. ASSUME NEW x \in made PROVE x.coin \in Coins(made)
    BY DEF Coins
  <2> QED BY <2>2, <2>3, <2>5, <2>6
<1>10. r.kernels \ u.kernels = q.kernels
  <2>1. PICK new : new = {k.id : k \in b.kernels}
    OBVIOUS
  <2>2. r.kernels = q.kernels \cup new /\ new \cap q.kernels = {}
    BY <2>1, <1>1, <1>2, <1>5, CoinsChange
  <2> QED BY <2>1, <2>2, <1>6
<1>11. UndoneEffects(r.bonds, u.effects.bondsRemoved, u.effects.bondsAdded) = q.bonds
  <2>1. UndoneEffects(BondsAt(q, b, TimesOf(c)), e.bondsRemoved, e.bondsAdded) = q.bonds
    <3>1. MaxRegistrations \in Nat /\ MaxRegistrations <= 1
      BY DEF StateAssumption
    <3> QED BY <3>1, <1>8, BondStep
  <2>2. r.bonds = BondsAt(q, b, TimesOf(c))
    BY <1>8 DEF NextState, After
  <2> QED BY <2>1, <2>2, <1>6
<1>12. RevertedChange(r.relay, u.effects.relayRemoved, u.effects.relayAdded) = q.relay
  <2>1. RevertedChange(RelayWith(q, e), e.relayRemoved, e.relayAdded) = q.relay
    BY <1>8, RelayStep
  <2>2. r.relay = RelayWith(q, e)
    BY <1>8 DEF NextState, After
  <2> QED BY <2>1, <2>2, <1>6
<1>13. ShapeOk(r, Append(c, b)) /\ IsState(r) /\ IsState(q)
  BY <1>2, <1>5, <1>8, SoundIsOk, ShapeIs DEF StateOk
<1>14. /\ IsState(s) /\ s.utxos = r.utxos /\ s.kernels = r.kernels /\ s.bonds = r.bonds
       /\ s.relay = r.relay
  BY <1>2, <1>13, ButWindowsIs
<1>15. PICK y : y = UndoneState(s, u)
  OBVIOUS
<1>16. y = Rebooked(s, q.height, q.time, q.depth, q.supply, q.utxos, q.kernels, q.bonds,
                    q.relay)
  <2>1. UndoneState(s, u) =
         [s EXCEPT !.height = u.prev.height, !.time = u.prev.time,
                   !.depth = u.prev.depth, !.supply = u.prev.supply,
                   !.utxos = {x \in s.utxos : x.coin \notin u.created} \cup u.spent,
                   !.kernels = s.kernels \ u.kernels,
                   !.bonds = UndoneEffects(s.bonds, u.effects.bondsRemoved, u.effects.bondsAdded),
                   !.relay = RevertedChange(s.relay, u.effects.relayRemoved, u.effects.relayAdded)]
    BY DEF UndoneState
  <2> QED BY <2>1, <1>7, <1>9, <1>10, <1>11, <1>12, <1>14, <1>15, Zenon DEF Rebooked
<1>17. PICK h, t, d, c2, m, w, k, a, z, x, n, l : s = StateFrom(h, t, d, c2, m, w, k, a, z, x, n, l)
  BY <1>14 DEF IsState
<1>18. y = StateFrom(q.height, q.time, q.depth, c2, q.supply, q.utxos, q.kernels, q.bonds,
                     q.relay, x, n, l)
  BY <1>16, <1>17, NewBook
<1>19. /\ y.height = q.height /\ y.time = q.time /\ y.depth = q.depth
       /\ y.supply = q.supply /\ y.utxos = q.utxos /\ y.kernels = q.kernels
       /\ y.bonds = q.bonds /\ y.relay = q.relay
  BY <1>18, FieldsOf
<1>20. IsState(y)
  BY <1>18 DEF IsState
<1>21. ButWindows(y, q)
  BY <1>13, <1>19, <1>20, ButWindowsIs
<1> QED BY <1>1, <1>4, <1>15, <1>21

\* The windows of a chain's earlier states are windows of its own columns.
LEMMA FrontWindows ==
    ASSUME StateAssumption, NEW c, SoundChain(c), NEW n \in 0..Len(c)
    PROVE  LET r == StateOf(Firsts(c, n))
           IN  /\ [recent |-> r.recent, counts |-> r.counts]
                    = WindowOf(SignersOf(c), LowSigner(n + 1), n + 1)
               /\ Enumerates(r.low, WorksOf(c), LowWork(n + 1), n + 1)
<1>1. IsChain(c) /\ Len(c) \in Nat /\ n \in Nat /\ n + 1 \in 1..(Len(c) + 1) /\ (n + 1) - 1 = n
  BY ChainLen DEF SoundChain
<1>2. PICK p : p = Firsts(c, n)
  OBVIOUS
<1>3. PICK r : r = StateOf(p)
  OBVIOUS
<1>4. SoundChain(p) /\ StateOk(r, p) /\ IsChain(p) /\ Len(p) = n /\ WellTimed(c)
      /\ \A i \in 1..n : p[i] = c[i]
  BY <1>1, <1>2, <1>3, SoundFront, SoundIsOk, FrontIs, SoundWellTimed DEF SoundChain
<1>5. [recent |-> r.recent, counts |-> r.counts]
         = WindowOf(SignersOf(c), LowSigner(n + 1), n + 1)
  <2>1. PICK sg : sg = SignersOf(c)
    OBVIOUS
  <2>2. PICK sh : sh = SignersOf(p)
    OBVIOUS
  <2>3. PICK lo : lo = LowSigner(n + 1)
    OBVIOUS
  <2>5. [recent |-> r.recent, counts |-> r.counts] = WindowOf(sh, lo, n + 1)
    BY <2>2, <2>3, <1>4 DEF StateOk, SignersOk
  <2>6. PICK D, E : sg \in Seq(D) /\ sh \in Seq(E)
    <3>1. \E D : sg \in Seq(D)
      BY <2>1, <1>1, SignersAre
    <3>2. \E E : sh \in Seq(E)
      BY <2>2, <1>4, SignersAre
    <3> QED BY <3>1, <3>2
  <2>7. sg \in Seq(D \cup E) /\ sh \in Seq(D \cup E)
    BY <2>6
  <2>8. Len(sg) = Len(c) + 1 /\ Len(sh) = n + 1
    BY <2>1, <2>2, <1>1, <1>4, SignersAre
  <2>9. lo \in Nat \ {0}
    <3>1. CapWindow \in Nat \ {0}
      BY DEF StateAssumption
    <3> QED BY <3>1, <2>3, <1>1 DEF LowSigner, Less, Most
  <2>10. ASSUME NEW i \in lo..(n + 1) PROVE sg[i] = sh[i]
    <3>1. i \in 1..(Len(c) + 1) /\ i \in 1..(n + 1)
      BY <2>9, <1>1
    <3>2. i # 1 => i - 1 \in 1..n
      BY <3>1, <1>1
    <3>3. sg[i] = IF i = 1 THEN NoSigner ELSE c[i - 1].signer
      BY <3>1, <2>1 DEF SignersOf
    <3>4. sh[i] = IF i = 1 THEN NoSigner ELSE p[i - 1].signer
      BY <3>1, <2>2, <1>4 DEF SignersOf
    <3> QED BY <3>2, <3>3, <3>4, <1>4
  <2>11. WindowOf(sg, lo, n + 1) = WindowOf(sh, lo, n + 1)
    <3>1. PICK hi \in Nat : hi = n + 1
      BY <1>1
    <3>2. hi <= Len(sg) /\ hi <= Len(sh) /\ \A i \in lo..hi : sg[i] = sh[i]
      BY <3>1, <2>8, <2>10, <1>1
    <3>3. PICK F : sg \in Seq(F) /\ sh \in Seq(F)
      BY <2>7
    <3> QED BY <3>1, <3>2, <3>3, <2>9, SameWindow
  <2> QED BY <2>1, <2>3, <2>5, <2>11
<1>6. Enumerates(r.low, WorksOf(c), LowWork(n + 1), n + 1)
  <2>1. PICK W, V : W = WorksOf(c) /\ V = WorksOf(p)
    OBVIOUS
  <2>2. PICK lo : lo = LowWork(n + 1)
    OBVIOUS
  <2>3. lo \in Nat
    <3>1. WorkCapWindow \in Nat \ {0}
      BY DEF StateAssumption
    <3> QED BY <3>1, <2>2, <1>1 DEF LowWork, Less, Most
  <2>4. PICK hi \in Nat : hi = n + 1
    BY <1>1
  <2>5. Enumerates(r.low, V, lo, hi)
    BY <2>1, <2>2, <2>4, <1>4 DEF StateOk, FloorOk
  <2>6. ASSUME NEW h \in lo..(hi - 1) PROVE W[h] = V[h]
    <3>1. h \in 0..Len(c) /\ h \in 0..Len(p) /\ h <= n
      BY <2>3, <2>4, <1>1, <1>4
    <3>2. h # 0 => h - 1 \in 0..n /\ (h - 1 # 0 => h - 1 \in 1..n)
      BY <3>1, <1>1
    <3>3. W[h] = IF h = 0 THEN GenesisWork ELSE TargetWork(h, TimeAt(c, h - 1))
      BY <3>1, <2>1 DEF WorksOf
    <3>4. V[h] = IF h = 0 THEN GenesisWork ELSE TargetWork(h, TimeAt(p, h - 1))
      BY <3>1, <2>1 DEF WorksOf
    <3>5. h # 0 => TimeAt(c, h - 1) = TimeAt(p, h - 1)
      BY <3>2, <1>4 DEF TimeAt
    <3> QED BY <3>3, <3>4, <3>5
  <2>7. Enumerates(r.low, W, lo, hi)
    BY <2>3, <2>5, <2>6, SameWorks
  <2> QED BY <2>1, <2>2, <2>4, <2>7
<1> QED BY <1>2, <1>3, <1>5, <1>6

\* The windows a restart or a fork check reads back for the state below a block.
LEMMA WindowsBack ==
    ASSUME StateAssumption, NEW c, SoundChain(c), NEW n \in 0..Len(c), NEW t,
           t.blocks = c, t.signers = SignersOf(c), t.capped = CappedOf(c),
           NEW s, ButWindows(s, StateOf(Firsts(c, n)))
    PROVE  WithWindows(s, t) = StateOf(Firsts(c, n))
<1>1. IsChain(c) /\ Len(c) \in Nat /\ n \in Nat /\ n + 1 \in 1..(Len(c) + 1) /\ (n + 1) - 1 = n
  BY ChainLen DEF SoundChain
<1>2. PICK p : p = Firsts(c, n)
  OBVIOUS
<1>3. PICK r : r = StateOf(p)
  OBVIOUS
<1>4. SoundChain(p) /\ StateOk(r, p) /\ IsChain(p) /\ Len(p) = n /\ WellTimed(c)
      /\ \A i \in 1..n : p[i] = c[i]
  BY <1>1, <1>2, <1>3, SoundFront, SoundIsOk, FrontIs, SoundWellTimed DEF SoundChain
<1>5. ShapeOk(r, p) /\ IsState(r) /\ r.height = n + 1
  <2>1. ShapeOk(r, p)
    BY <1>4 DEF StateOk
  <2>2. r.height = n + 1
    BY <2>1, <1>4 DEF ShapeOk
  <2> QED BY <2>1, <2>2, ShapeIs
<1>6. /\ IsState(s) /\ s.height = n + 1
      /\ s.time = r.time /\ s.depth = r.depth
      /\ s.supply = r.supply /\ s.utxos = r.utxos /\ s.kernels = r.kernels
      /\ s.bonds = r.bonds /\ s.relay = r.relay
  BY <1>2, <1>3, <1>5, ButWindowsIs
<1>7. t.capped[n + 1] = r.capped
  BY <1>1, <1>2, <1>3 DEF CappedOf
<1>8. SignersBefore(t.signers, n + 1) = [recent |-> r.recent, counts |-> r.counts]
  <2>1. SignersBefore(SignersOf(c), n + 1) = WindowOf(SignersOf(c), LowSigner(n + 1), n + 1)
    BY <1>1, SignersBeforeIs
  <2> QED BY <2>1, <1>2, <1>3, FrontWindows
<1>9. FloorBefore(t.blocks, n + 1) = r.low
  <2>1. PICK low : low = r.low
    OBVIOUS
  <2>2. Enumerates(low, WorksOf(c), LowWork(n + 1), n + 1)
    BY <2>1, <1>2, <1>3, FrontWindows
  <2> QED BY <2>1, <2>2, <1>1, <1>4, FloorBeforeIs
<1>10. WithWindows(s, t) = Rewindowed(s, r.capped, r.recent, r.counts, r.low)
  <2>1. PICK w : w = SignersBefore(t.signers, s.height)
    OBVIOUS
  <2>2. w.recent = r.recent /\ w.counts = r.counts
    BY <2>1, <1>6, <1>8
  <2>3. WithWindows(s, t) =
          [s EXCEPT !.capped = t.capped[s.height], !.recent = w.recent,
                    !.counts = w.counts, !.low = FloorBefore(t.blocks, s.height)]
    BY <2>1 DEF WithWindows
  <2> QED BY <2>2, <2>3, <1>6, <1>7, <1>9, Zenon DEF Rewindowed
<1>11. WithWindows(s, t) = r
  <2>1. PICK h, t2, d, c2, m, w, k, a, z, x, l, o : s = StateFrom(h, t2, d, c2, m, w, k, a, z, x, l, o)
    BY <1>6 DEF IsState
  <2>2. PICK y : y = WithWindows(s, t)
    OBVIOUS
  <2>3. y = StateFrom(h, t2, d, r.capped, m, w, k, a, z, r.recent, r.counts, r.low)
    BY <1>10, <2>1, <2>2, NewWindows
  <2>4. /\ h = s.height /\ t2 = s.time /\ d = s.depth /\ m = s.supply /\ w = s.utxos
        /\ k = s.kernels /\ a = s.bonds /\ z = s.relay
    BY <2>1, FieldsOf
  <2>5. /\ y.height = h /\ y.time = t2 /\ y.depth = d /\ y.capped = r.capped
        /\ y.supply = m /\ y.utxos = w /\ y.kernels = k /\ y.bonds = a /\ y.relay = z
        /\ y.recent = r.recent /\ y.counts = r.counts /\ y.low = r.low
    BY <2>3, FieldsOf
  <2>6. IsState(y)
    BY <2>3 DEF IsState
  <2>7. ButWindows(y, r)
    BY <1>5, <1>6, <2>4, <2>5, <2>6, ButWindowsIs
  <2> QED BY <1>5, <2>2, <2>5, <2>6, <2>7, SameState
<1> QED BY <1>2, <1>3, <1>11

------------------------------------------------------------------------------
\* The inductive invariant: the state is the replay of the stored chain, whose
\* tables hold what storing it leaves, with undo records no older than kept.
StoreInv ==
    /\ refused = FALSE
    /\ SoundChain(tables.blocks)
    /\ tip = StateOf(tables.blocks)
    /\ Stored(tables, tables.blocks)
    /\ \A k \in DOMAIN tables.undo : k >= Less(tip.height, UndoKeep)

\* What the invariant says of the tip and the stored chain.
LEMMA TipShape ==
    ASSUME StateAssumption, StoreInv
    PROVE  /\ IsChain(tables.blocks) /\ Len(tables.blocks) \in Nat
           /\ Firsts(tables.blocks, Len(tables.blocks)) = tables.blocks
           /\ tip.height = Len(tables.blocks) + 1 /\ ShapeOk(tip, tables.blocks)
           /\ Fits(tables, tables.blocks)
<1>1. PICK c : c = tables.blocks
  OBVIOUS
<1>2. SoundChain(c) /\ tip = StateOf(c) /\ Stored(tables, c)
  BY <1>1 DEF StoreInv
<1>3. IsChain(c) /\ Len(c) \in Nat /\ Firsts(c, Len(c)) = c
  BY <1>2, ChainLen DEF SoundChain
<1>4. ShapeOk(tip, c)
  BY <1>2, SoundIsOk DEF StateOk
<1>5. tip.height = Len(c) + 1
  BY <1>4 DEF ShapeOk
<1>6. Fits(tables, c)
  BY <1>2, StoredFields
<1> QED BY <1>1, <1>3, <1>4, <1>5, <1>6

\* Every undo record of a chain is its block's.
LEMMA BookUndo ==
    ASSUME StateAssumption, NEW c, SoundChain(c), NEW k \in 1..Len(c)
    PROVE  \E groups : Book(c).undo[k] = UndoRecord(Firsts(c, k - 1), groups, c[k])
<1>1. IsChain(c) /\ Len(c) \in Nat /\ Firsts(c, Len(c)) = c
  BY ChainLen DEF SoundChain
<1>2. PICK p : p = Firsts(c, k - 1)
  OBVIOUS
<1>3. PICK b : b = c[k]
  OBVIOUS
<1>4. PICK groups : groups = Book(p).groups
  OBVIOUS
<1> DEFINE Good(m) == Book(Firsts(c, m)).undo[k] = UndoRecord(p, groups, b)
           S == {m \in Nat : k + m <= Len(c) => Good(k + m)}
<1>5. 0 \in S
  <2>1. /\ Firsts(c, k) = Append(p, b) /\ SoundChain(p) /\ Applies(p, b) /\ Len(p) = k - 1
    BY <1>2, <1>3, SoundLast
  <2>2. BookOk(p)
    <3>1. k - 1 \in 0..Len(c)
      BY <1>1
    <3> QED BY <3>1, <1>2, SoundBook
  <2>3. Book(Append(p, b)).undo[Len(p) + 1] = UndoRecord(p, groups, b)
    BY <2>1, <2>2, <1>4, BookStep
  <2>4. Len(p) + 1 = k /\ k + 0 = k
    BY <2>1, <1>1
  <2> QED BY <2>1, <2>3, <2>4
<1>6. ASSUME NEW m \in Nat, m \in S PROVE m + 1 \in S
  <2>1. SUFFICES ASSUME k + (m + 1) <= Len(c) PROVE Good(k + (m + 1))
    OBVIOUS
  <2>2. PICK j : j = k + (m + 1)
    OBVIOUS
  <2>3. j \in 1..Len(c) /\ j - 1 = k + m /\ k + m <= Len(c) /\ k \in 1..(j - 1)
    BY <2>1, <2>2, <1>1
  <2>4. PICK q : q = Firsts(c, j - 1)
    OBVIOUS
  <2>5. /\ Firsts(c, j) = Append(q, c[j]) /\ SoundChain(q) /\ Applies(q, c[j]) /\ Len(q) = j - 1
    BY <2>3, <2>4, SoundLast
  <2>6. BookOk(q)
    <3>1. j - 1 \in 0..Len(c)
      BY <2>3, <1>1
    <3> QED BY <3>1, <2>4, SoundBook
  <2>7. Book(Append(q, c[j])).undo[k] = Book(q).undo[k]
    BY <2>3, <2>5, <2>6, BookStep
  <2>8. Book(q).undo[k] = UndoRecord(p, groups, b)
    BY <2>3, <2>4, <1>6
  <2> QED BY <2>2, <2>5, <2>7, <2>8
<1>7. Good(Len(c))
  <2>1. Nat \subseteq S
    <3> HIDE DEF S
    <3> QED BY <1>5, <1>6, SetInd
  <2>2. PICK m \in Nat : k + m = Len(c)
    <3>1. Len(c) - k \in Nat /\ k + (Len(c) - k) = Len(c)
      BY <1>1
    <3> QED BY <3>1
  <2>3. m \in S /\ k + m <= Len(c)
    BY <2>1, <2>2, <1>1
  <2> QED BY <2>2, <2>3
<1> QED BY <1>1, <1>2, <1>3, <1>7

Undoing(n) ==
    CHOOSE after : after =
        [i \in 0..n |->
            IF i = 0 THEN tip ELSE UndoneState(after[i - 1], tables.undo[tip.height - i])]

\* The recursive function of state_at, by its equation.
LEMMA UndoingIs ==
    ASSUME NEW n \in Nat
    PROVE  Undoing(n) =
        [i \in 0..n |->
            IF i = 0 THEN tip ELSE UndoneState(Undoing(n)[i - 1], tables.undo[tip.height - i])]
<1> DEFINE Then(r, i) == UndoneState(r, tables.undo[tip.height - i])
           P(m) == \E g : g = [i \in 0..m |-> IF i = 0 THEN tip ELSE Then(g[i - 1], i)]
<1>1. P(0)
  <2> HIDE DEF Then
  <2>1. [i \in 0..0 |-> tip] = [i \in 0..0 |->
           IF i = 0 THEN tip ELSE Then([k \in 0..0 |-> tip][i - 1], i)]
    OBVIOUS
  <2> QED BY <2>1
<1>2. ASSUME NEW m \in Nat, P(m) PROVE P(m + 1)
  <2> HIDE DEF Then
  <2>1. PICK g : g = [i \in 0..m |-> IF i = 0 THEN tip ELSE Then(g[i - 1], i)]
    BY <1>2
  <2>2. PICK h : h = [i \in 0..(m + 1) |-> IF i = m + 1 THEN Then(g[m], i) ELSE g[i]]
    OBVIOUS
  <2>3. ASSUME NEW i \in 0..(m + 1)
        PROVE  h[i] = IF i = 0 THEN tip ELSE Then(h[i - 1], i)
    <3>1. CASE i = m + 1
      BY <3>1, <2>2
    <3>2. CASE i # m + 1
      <4>1. i \in 0..m /\ h[i] = g[i]
        BY <3>2, <2>2
      <4>2. i # 0 => i - 1 \in 0..(m + 1) /\ i - 1 # m + 1
        BY <4>1
      <4> QED BY <4>1, <4>2, <2>1, <2>2
    <3> QED BY <3>1, <3>2
  <2>4. h = [i \in 0..(m + 1) |-> IF i = 0 THEN tip ELSE Then(h[i - 1], i)]
    BY <2>2, <2>3
  <2> QED BY <2>4
<1>3. P(n)
  <2>1. PICK S : S = {m \in Nat : P(m)}
    OBVIOUS
  <2> HIDE DEF P
  <2>2. 0 \in S /\ \A m \in Nat : m \in S => m + 1 \in S
    BY <1>1, <1>2, <2>1
  <2>3. Nat \subseteq S
    BY <2>2, SetInd
  <2> QED BY <2>1, <2>3
<1> QED BY <1>3 DEF Undoing

\* The state below a block comes back from the tip and the undo records.
LEMMA StateAtIs ==
    ASSUME StateAssumption, StoreInv, NEW h \in 1..(Len(tables.blocks) + 1), Derivable(h)
    PROVE  StateAt(h) = StateOf(Firsts(tables.blocks, h - 1))
<1>1. PICK c : c = tables.blocks
  OBVIOUS
<1>2. PICK N : N = Len(c)
  OBVIOUS
<1>3. /\ SoundChain(c) /\ tip = StateOf(c) /\ Stored(tables, c) /\ Fits(tables, c)
      /\ IsChain(c) /\ N \in Nat /\ Firsts(c, N) = c /\ tip.height = N + 1
      /\ h \in 1..(N + 1)
  BY <1>1, <1>2, TipShape DEF StoreInv
<1>4. PICK n : n = tip.height - h
  OBVIOUS
<1>5. n \in Nat /\ n = (N + 1) - h /\ h - 1 = N - n /\ n <= N
  BY <1>3, <1>4
<1>6. PICK f : f = Undoing(n)
  OBVIOUS
<1>7. \A i \in 0..n : f[i] = IF i = 0 THEN tip
                             ELSE UndoneState(f[i - 1], tables.undo[tip.height - i])
  BY <1>5, <1>6, UndoingIs
<1> DEFINE Good(i) == ButWindows(f[i], StateOf(Firsts(c, N - i)))
           S == {i \in Nat : i <= n => Good(i)}
<1>8. 0 \in S
  <2>1. f[0] = tip /\ N - 0 = N
    BY <1>3, <1>5, <1>7
  <2>2. IsState(tip)
    BY <1>1, <1>3, TipShape, ShapeIs
  <2>3. ButWindows(tip, StateOf(c))
    BY <2>2, <1>3, ButWindowsIs
  <2> QED BY <2>1, <2>3, <1>3
<1>9. ASSUME NEW i \in Nat, i \in S PROVE i + 1 \in S
  <2>1. SUFFICES ASSUME i + 1 <= n PROVE Good(i + 1)
    OBVIOUS
  <2>2. PICK k : k = N - i
    OBVIOUS
  <2>3. k \in 1..N /\ N - (i + 1) = k - 1 /\ h <= k /\ k = tip.height - (i + 1) /\ i <= n
    BY <2>1, <2>2, <1>3, <1>5
  <2>4. PICK p : p = Firsts(c, k - 1)
    OBVIOUS
  <2>5. PICK b : b = c[k]
    OBVIOUS
  <2>6. /\ Firsts(c, k) = Append(p, b) /\ SoundChain(p) /\ Applies(p, b) /\ Len(p) = k - 1
    BY <2>3, <2>4, <2>5, <1>2, <1>3, SoundLast
  <2>7. PICK s : s = f[i]
    OBVIOUS
  <2>8. ButWindows(s, StateOf(Append(p, b)))
    BY <2>2, <2>3, <2>6, <2>7, <1>9
  <2>9. \E groups : tables.undo[k] = UndoRecord(p, groups, b)
    <3>1. k \in DOMAIN tables.undo
      <4>1. k \in h..(tip.height - 1)
        BY <2>3, <1>3
      <4> QED BY <4>1 DEF Derivable
    <3>2. tables.undo[k] = Book(c).undo[k]
      BY <3>1, <1>3 DEF Stored
    <3>3. \E groups : Book(c).undo[k] = UndoRecord(p, groups, b)
      BY <2>3, <2>4, <2>5, <1>2, <1>3, BookUndo
    <3> QED BY <3>2, <3>3
  <2>10. PICK groups : tables.undo[k] = UndoRecord(p, groups, b)
    BY <2>9
  <2>11. ButWindows(UndoneState(s, UndoRecord(p, groups, b)), StateOf(p))
    BY <2>6, <2>8, UndoneStep
  <2>12. f[i + 1] = UndoneState(s, tables.undo[k])
    <3>1. i + 1 \in 0..n /\ i + 1 # 0 /\ (i + 1) - 1 = i
      BY <2>1, <1>5
    <3> QED BY <3>1, <2>3, <2>7, <1>7
  <2> QED BY <2>3, <2>4, <2>10, <2>11, <2>12
<1>10. Good(n)
  <2>1. Nat \subseteq S
    <3> HIDE DEF S
    <3> QED BY <1>8, <1>9, SetInd
  <2> QED BY <2>1, <1>5
<1>11. StateAt(h) = WithWindows(f[n], tables)
  BY <1>4, <1>6 DEF StateAt, Undoing
<1>12. WithWindows(f[n], tables) = StateOf(Firsts(c, h - 1))
  <2>1. PICK s : s = f[n]
    OBVIOUS
  <2>2. PICK m \in 0..Len(c) : m = h - 1
    BY <1>2, <1>3
  <2>3. ButWindows(s, StateOf(Firsts(c, m)))
    BY <2>1, <2>2, <1>5, <1>10
  <2>4. tables.blocks = c /\ tables.signers = SignersOf(c) /\ tables.capped = CappedOf(c)
    BY <1>3 DEF Fits
  <2> QED BY <2>1, <2>2, <2>3, <2>4, <1>3, WindowsBack
<1> QED BY <1>1, <1>11, <1>12

\* What a restart loads is the state the node had.
LEMMA LoadedIsTip ==
    ASSUME StateAssumption, StoreInv
    PROVE  LoadState(tables) = tip
<1>1. PICK c : c = tables.blocks
  OBVIOUS
<1>2. /\ SoundChain(c) /\ tip = StateOf(c) /\ Fits(tables, c)
      /\ Len(c) \in Nat /\ Firsts(c, Len(c)) = c /\ IsState(tip)
  BY <1>1, TipShape, ShapeIs DEF StoreInv
<1>3. PICK s : s = [height |-> tables.meta.height, time |-> tables.meta.time,
                    depth |-> tables.meta.depth, supply |-> tables.meta.supply, capped |-> 0,
                    utxos |-> tables.utxos, kernels |-> tables.kernels, bonds |-> tables.bonds,
                    relay |-> tables.relay, recent |-> <<>>, counts |-> <<>>, low |-> <<>>]
  OBVIOUS
<1>4. s = StateFrom(tables.meta.height, tables.meta.time, tables.meta.depth, 0,
                    tables.meta.supply, tables.utxos, tables.kernels, tables.bonds,
                    tables.relay, <<>>, <<>>, <<>>)
  BY <1>3 DEF StateFrom
<1>5. /\ s.height = tables.meta.height /\ s.time = tables.meta.time
      /\ s.depth = tables.meta.depth /\ s.supply = tables.meta.supply
      /\ s.utxos = tables.utxos /\ s.kernels = tables.kernels /\ s.bonds = tables.bonds
      /\ s.relay = tables.relay
  BY <1>4, FieldsOf
<1>6. IsState(s)
  BY <1>4 DEF IsState
<1>7. /\ tables.meta.height = tip.height /\ tables.meta.time = tip.time
      /\ tables.meta.depth = tip.depth /\ tables.meta.supply = tip.supply
      /\ tables.utxos = tip.utxos /\ tables.kernels = tip.kernels /\ tables.bonds = tip.bonds
      /\ tables.relay = tip.relay
  BY <1>2 DEF Fits, Meta
<1>8. ButWindows(s, tip)
  BY <1>2, <1>5, <1>6, <1>7, ButWindowsIs
<1>9. WithWindows(s, tables) = StateOf(c)
  <2>1. Len(c) \in 0..Len(c)
    BY <1>2
  <2>2. tables.blocks = c /\ tables.signers = SignersOf(c) /\ tables.capped = CappedOf(c)
    BY <1>2 DEF Fits
  <2> QED BY <2>1, <2>2, <1>2, <1>8, WindowsBack
<1>10. LoadState(tables) = WithWindows(s, tables)
  BY <1>3 DEF LoadState
<1> QED BY <1>2, <1>9, <1>10

------------------------------------------------------------------------------
\* Producers' contents have the shape apply_batch expects.
StoreAssumption ==
    /\ StateAssumption
    /\ UndoKeep \in Nat
    /\ \A c \in Contents : /\ c.gap \in Nat /\ Len(c.regs) \in Nat /\ FiniteBody(c)
                           /\ c.relay # NoRun => c.relay.links \in Seq(Links)

\* A producer's block has its contents' fields.
LEMMA ClaimedFields ==
    ASSUME NEW s, NEW c, NEW w
    PROVE  LET b == Claimed(Timed(s, c), w)
           IN  /\ b.time = s.time + c.gap /\ b.fees = 0 /\ b.regs = c.regs
               /\ b.relay = c.relay /\ (FiniteBody(c) => FiniteBody(b))
<1>1. PICK t : t = Timed(s, c)
  OBVIOUS
<1>2. /\ t.time = s.time + c.gap /\ t.fees = 0 /\ t.regs = c.regs /\ t.relay = c.relay
      /\ t.spends = c.spends /\ t.groups = c.groups /\ t.kernels = c.kernels
  BY <1>1 DEF Timed
<1>3. PICK b : b = [t EXCEPT !.weight = w]
  OBVIOUS
<1>4. /\ b.time = t.time /\ b.fees = t.fees /\ b.regs = t.regs /\ b.relay = t.relay
      /\ b.spends = t.spends /\ b.groups = t.groups /\ b.kernels = t.kernels
  <2>1. /\ "time" \in DOMAIN t /\ "fees" \in DOMAIN t /\ "regs" \in DOMAIN t
        /\ "relay" \in DOMAIN t /\ "spends" \in DOMAIN t /\ "groups" \in DOMAIN t
        /\ "kernels" \in DOMAIN t
    BY <1>1 DEF Timed
  <2> QED BY <2>1, <1>3
<1>5. FiniteBody(c) => FiniteBody(b)
  BY <1>2, <1>4 DEF FiniteBody, OutputsOf
<1> QED BY <1>1, <1>2, <1>3, <1>4, <1>5, Zenon DEF Claimed

\* What a producer makes of its contents is a block; if it applies, what the
\* node keeps of it is what replaying it gives.
LEMMA TriedIs ==
    ASSUME StoreAssumption, NEW p, SoundChain(p), NEW c \in Contents
    PROVE  LET one == OnState(StateOf(p), p, c)
           IN  one.ok => /\ Applies(p, one.blk) /\ one.effects = EffectsOn(p, one.blk)
                         /\ one.state = StateOf(Append(p, one.blk))
<1>1. PICK s : s = StateOf(p)
  OBVIOUS
<1>2. PICK times : times = TimesOf(p)
  OBVIOUS
<1>3. PICK w : w = ApplyBatch(s, Timed(s, c), times).claim + c.overclaim
  OBVIOUS
<1>4. PICK b : b = Claimed(Timed(s, c), w)
  OBVIOUS
<1>5. OnState(s, p, c) = Tried(b, ApplyBatch(s, b, times))
  BY <1>2, <1>3, <1>4 DEF OnState, TriedOn, ClaimedBy
<1>6. WellFormed(b)
  <2>1. s.time \in Nat
    <3>1. ShapeOk(s, p) /\ WellTimed(p) /\ Len(p) \in Nat
      BY <1>1, SoundIsOk, SoundWellTimed, ChainLen DEF StoreAssumption, StateOk, SoundChain
    <3>2. s.time = TimeAt(p, Len(p))
      BY <3>1 DEF ShapeOk
    <3>3. Len(p) # 0 => Len(p) \in 1..Len(p)
      BY <3>1
    <3> QED BY <3>1, <3>2, <3>3 DEF TimeAt, WellTimed
  <2>2. /\ c.gap \in Nat /\ Len(c.regs) \in Nat /\ FiniteBody(c)
        /\ (c.relay # NoRun => c.relay.links \in Seq(Links))
    BY DEF StoreAssumption
  <2>3. /\ b.time = s.time + c.gap /\ b.fees = 0 /\ b.regs = c.regs /\ b.relay = c.relay
        /\ FiniteBody(b)
    BY <2>2, <1>4, ClaimedFields
  <2> QED BY <2>1, <2>2, <2>3 DEF WellFormed
<1>7. PICK one : one = OnState(s, p, c)
  OBVIOUS
<1>8. PICK ok, effects, state : /\ ok = Allowed(s, b, times) /\ effects = Effects(s, b, times)
                                /\ state = NextState(s, b, times)
  OBVIOUS
<1>9. one = [ok |-> ok, blk |-> b, effects |-> effects, state |-> state]
  <2>1. PICK x : x = ApplyBatch(s, b, times)
    OBVIOUS
  <2>2. x = [ok |-> ok, claim |-> Claim(s, WeighedAt(s, b, times)), effects |-> effects,
             state |-> state]
    BY <2>1, <1>8, ApplyIs
  <2>3. x.ok = ok /\ x.effects = effects /\ x.state = state
    BY <2>2, Zenon
  <2> QED BY <2>1, <2>3, <1>5, <1>7 DEF Tried
<1>10. one.ok = ok /\ one.blk = b /\ one.effects = effects /\ one.state = state
  BY <1>9, Zenon
<1>11. effects = EffectsOn(p, b)
  BY <1>1, <1>2, <1>8 DEF EffectsOn
<1>12. state = StateOf(Append(p, b))
  BY <1>1, <1>2, <1>8, StateMore DEF SoundChain
<1>13. ASSUME ok PROVE Applies(p, b)
  BY <1>1, <1>2, <1>6, <1>8, <1>13 DEF Applies
<1> QED BY <1>1, <1>7, <1>10, <1>11, <1>12, <1>13, Zenon

\* saturating_sub, when both sides grow.
LEMMA LessMore ==
    \A d, c, w, k \in Nat : c <= d /\ k <= w
        => Less(d + w, c + (w - k)) = Less(d, c) + k /\ Less(d, c) \in Nat
BY DEF Less, Most

\* The weight a block claims is the chain's with it, more than without it by
\* what the block is credited with.
LEMMA ClaimIs ==
    ASSUME StateAssumption, NEW c, SoundChain(c), NEW b, Applies(c, b)
    PROVE  /\ b.weight = WeightOf(StateOf(Append(c, b)))
           /\ WeightOf(StateOf(Append(c, b)))
                = WeightOf(StateOf(c)) + WeighedAt(StateOf(c), b, TimesOf(c)).credited
           /\ WeightOf(StateOf(Append(c, b))) > WeightOf(StateOf(c))
<1>1. PICK s, times : s = StateOf(c) /\ times = TimesOf(c)
  OBVIOUS
<1>2. PICK r : r = StateOf(Append(c, b))
  OBVIOUS
<1>3. PICK w : w = WeighedAt(s, b, times)
  OBVIOUS
<1>4. /\ IsChain(c) /\ WellTimed(c) /\ StateOk(s, c) /\ WellFormed(b) /\ Allowed(s, b, times)
  BY <1>1, SoundWellTimed, SoundIsOk DEF SoundChain, Applies
<1>5. r = NextState(s, b, times)
  BY <1>1, <1>2, <1>4, StateMore
<1>6. r.depth = s.depth + w.work /\ r.capped = s.capped + (w.work - w.credited)
  BY <1>3, <1>5 DEF NextState, After
<1>7. PICK work, credited : work = w.work /\ credited = w.credited
  OBVIOUS
<1>8. work \in Nat /\ credited \in Nat \ {0} /\ credited <= work
  BY <1>3, <1>4, <1>7, StateStep
<1>9. PICK d, k : d = s.depth /\ k = s.capped
  OBVIOUS
<1>10. d \in Nat /\ k \in Nat /\ k <= d
  BY <1>4, <1>9 DEF StateOk, ShapeOk
<1>11. Less(d + work, k + (work - credited)) = Less(d, k) + credited /\ Less(d, k) \in Nat
  BY <1>8, <1>10, LessMore
<1>12. WeightOf(r) = Less(d + work, k + (work - credited)) /\ WeightOf(s) = Less(d, k)
  BY <1>6, <1>7, <1>9 DEF WeightOf
<1>13. b.weight = WeightOf(s) + credited
  BY <1>3, <1>4, <1>7 DEF Allowed, Accepts, Claim
<1>14. PICK x, y : x = WeightOf(r) /\ y = WeightOf(s)
  OBVIOUS
<1>15. x = y + credited /\ y \in Nat
  BY <1>11, <1>12, <1>14
<1>16. x > y
  BY <1>8, <1>15
<1> QED BY <1>1, <1>2, <1>3, <1>7, <1>13, <1>14, <1>15, <1>16

\* The last row of the withheld work is the state's.
LEMMA CappedAt ==
    ASSUME NEW c, IsChain(c)
    PROVE  CappedOf(c)[Len(CappedOf(c))] = StateOf(c).capped
<1>1. Len(c) \in Nat /\ Firsts(c, Len(c)) = c
  BY ChainLen
<1>2. Len(CappedOf(c)) = Len(c) + 1
  BY ColumnsMore
<1>3. PICK n : n = Len(c) + 1
  OBVIOUS
<1>4. n \in 1..(Len(c) + 1) /\ n - 1 = Len(c)
  BY <1>1, <1>3
<1>5. CappedOf(c)[n] = StateOf(Firsts(c, n - 1)).capped
  BY <1>3, <1>4 DEF CappedOf
<1> QED BY <1>1, <1>2, <1>3, <1>4, <1>5

\* Every check of commit_chain passes on what storing an applied block leaves.
LEMMA ClaimHolds ==
    ASSUME StateAssumption, NEW c, SoundChain(c), NEW b, Applies(c, b), NEW t,
           Stored(t, Append(c, b))
    PROVE  ClaimStands(t)
<1>1. PICK d : d = Append(c, b)
  OBVIOUS
<1>2. SoundChain(d) /\ IsChain(c) /\ IsChain(d) /\ Len(d) = Len(c) + 1 /\ d[Len(c) + 1] = b
  BY <1>1, SoundAppend, AppendIs DEF Applies, SoundChain
<1>3. Fits(t, d)
  BY <1>1, <1>2, StoredFields
<1>4. t.blocks = d /\ t.capped = CappedOf(d) /\ t.meta.depth = StateOf(d).depth
  BY <1>3 DEF Fits, Meta
<1>5. t.capped[Len(t.capped)] = StateOf(d).capped
  BY <1>2, <1>4, CappedAt
<1>6. t.blocks[Len(t.blocks)].weight = WeightOf(StateOf(d))
  BY <1>1, <1>2, <1>4, ClaimIs
<1> QED BY <1>4, <1>5, <1>6 DEF ClaimStands, WeightOf

\* The tables of a stored chain agree with its state.
LEMMA AgreeHolds ==
    ASSUME StateAssumption, NEW d, SoundChain(d), NEW t, Stored(t, d)
    PROVE  Agrees(t, StateOf(d))
<1>1. Fits(t, d) /\ IsChain(d)
  BY StoredFields DEF SoundChain
<1>2. t.capped[Len(t.capped)] = StateOf(d).capped
  BY <1>1, CappedAt DEF Fits
<1> QED BY <1>1, <1>2 DEF Agrees, Fits

\* Trimming the undo records (step 4) leaves the chain stored.
LEMMA TrimHolds ==
    ASSUME StateAssumption, NEW d, SoundChain(d), NEW t, Stored(t, d)
    PROVE  /\ Stored(TrimmedUndo(t), d)
           /\ \A k \in DOMAIN TrimmedUndo(t).undo : k >= Less(StateOf(d).height, UndoKeep)
<1>1. PICK B : B = Book(d)
  OBVIOUS
<1>2. PICK low : low = Less(t.meta.height, UndoKeep)
  OBVIOUS
<1>3. PICK u : u = [h \in {k \in DOMAIN t.undo : k >= low} |-> t.undo[h]]
  OBVIOUS
<1>4. PICK x : x = TrimmedUndo(t)
  OBVIOUS
<1>5. x = [t EXCEPT !.undo = u]
  BY <1>2, <1>3, <1>4 DEF TrimmedUndo
<1>6. PICK v : v = t.undo
  OBVIOUS
<1>7. /\ t = [B EXCEPT !.undo = v] /\ DOMAIN v \subseteq 1..Len(d)
      /\ v = [k \in DOMAIN v |-> B.undo[k]]
  BY <1>1, <1>6, Zenon DEF Stored
<1>8. B = [blocks |-> B.blocks, utxos |-> B.utxos, groups |-> B.groups,
           kernels |-> B.kernels, bonds |-> B.bonds, relay |-> B.relay,
           signers |-> B.signers, capped |-> B.capped, minted |-> B.minted,
           depths |-> B.depths, undo |-> B.undo, meta |-> B.meta]
  <2>1. Len(d) \in 0..Len(d) /\ Firsts(d, Len(d)) = d
    BY ChainLen DEF SoundChain
  <2>2. BookOk(d)
    BY <2>1, SoundBook
  <2> QED BY <2>2, <1>1 DEF BookOk
<1>9. "undo" \in DOMAIN B
  BY <1>8
<1>10. x = [B EXCEPT !.undo = u] /\ x.undo = u
  BY <1>5, <1>7, <1>9
<1>11. ASSUME NEW k \in DOMAIN u PROVE k \in 1..Len(d) /\ u[k] = B.undo[k] /\ k >= low
  BY <1>3, <1>6, <1>7
<1>12. u = [k \in DOMAIN u |-> B.undo[k]] /\ DOMAIN u \subseteq 1..Len(d)
  BY <1>3, <1>11
<1>13. Stored(x, d)
  BY <1>1, <1>10, <1>12 DEF Stored
<1>14. t.meta.height = StateOf(d).height
  <2>1. t.meta = Meta(StateOf(d))
    BY StoredFields DEF Fits
  <2> QED BY <2>1 DEF Meta
<1> QED BY <1>2, <1>4, <1>10, <1>11, <1>13, <1>14

------------------------------------------------------------------------------
Committing(first, blks, effects) ==
    CHOOSE replay : replay =
        [i \in 0..Len(blks) |->
            IF i = 0 THEN RevertedTo(tables, first)
            ELSE StoredBlock(replay[i - 1], blks[i], effects[i])]

\* The recursive function that replays a branch, by its equation.
LEMMA CommittingIs ==
    ASSUME NEW first, NEW blks, NEW effects, Len(blks) \in Nat
    PROVE  Committing(first, blks, effects) =
        [i \in 0..Len(blks) |->
            IF i = 0 THEN RevertedTo(tables, first)
            ELSE StoredBlock(Committing(first, blks, effects)[i - 1], blks[i], effects[i])]
<1> DEFINE Start == RevertedTo(tables, first)
           Then(r, i) == StoredBlock(r, blks[i], effects[i])
           P(m) == \E g : g = [i \in 0..m |-> IF i = 0 THEN Start ELSE Then(g[i - 1], i)]
<1>1. P(0)
  <2> HIDE DEF Start, Then
  <2>1. [i \in 0..0 |-> Start] = [i \in 0..0 |->
           IF i = 0 THEN Start ELSE Then([k \in 0..0 |-> Start][i - 1], i)]
    OBVIOUS
  <2> QED BY <2>1
<1>2. ASSUME NEW m \in Nat, P(m) PROVE P(m + 1)
  <2> HIDE DEF Start, Then
  <2>1. PICK g : g = [i \in 0..m |-> IF i = 0 THEN Start ELSE Then(g[i - 1], i)]
    BY <1>2
  <2>2. PICK h : h = [i \in 0..(m + 1) |-> IF i = m + 1 THEN Then(g[m], i) ELSE g[i]]
    OBVIOUS
  <2>3. ASSUME NEW i \in 0..(m + 1)
        PROVE  h[i] = IF i = 0 THEN Start ELSE Then(h[i - 1], i)
    <3>1. CASE i = m + 1
      BY <3>1, <2>2
    <3>2. CASE i # m + 1
      <4>1. i \in 0..m /\ h[i] = g[i]
        BY <3>2, <2>2
      <4>2. i # 0 => i - 1 \in 0..(m + 1) /\ i - 1 # m + 1
        BY <4>1
      <4> QED BY <4>1, <4>2, <2>1, <2>2
    <3> QED BY <3>1, <3>2
  <2>4. h = [i \in 0..(m + 1) |-> IF i = 0 THEN Start ELSE Then(h[i - 1], i)]
    BY <2>2, <2>3
  <2> QED BY <2>4
<1>3. \A m \in Nat : P(m)
  <2>1. PICK S : S = {m \in Nat : P(m)}
    OBVIOUS
  <2> HIDE DEF P
  <2>2. 0 \in S /\ \A m \in Nat : m \in S => m + 1 \in S
    BY <1>1, <1>2, <2>1
  <2>3. Nat \subseteq S
    BY <2>2, SetInd
  <2> QED BY <2>1, <2>3
<1> QED BY <1>3 DEF Committing

\* The chain d has taken the place of the blocks from first on.
Committed(d) ==
    /\ refused' = refused /\ tip' = StateOf(d) /\ Stored(tables', d)
    /\ \A k \in DOMAIN tables'.undo : k >= Less(StateOf(d).height, UndoKeep)

\* commit_chain, by what it replays.
LEMMA CommitIs ==
    ASSUME NEW first, NEW blks, NEW effects, NEW state, NEW n, n = Len(blks),
           CommitChain(first, blks, effects, state),
           \A i \in 1..n : ClaimStands(Committing(first, blks, effects)[i]),
           Agrees(Committing(first, blks, effects)[n], state)
    PROVE  /\ tables' = TrimmedUndo(Committing(first, blks, effects)[n]) /\ tip' = state
           /\ UNCHANGED refused
BY DEF CommitChain, Committing

\* One block on the chain below first.
LEMMA CommitOne ==
    ASSUME StoreAssumption, StoreInv, NEW first \in 1..(Len(tables.blocks) + 1),
           first..Len(tables.blocks) \subseteq DOMAIN tables.undo,
           NEW p, p = Firsts(tables.blocks, first - 1), NEW b, Applies(p, b),
           CommitChain(first, <<b>>, <<EffectsOn(p, b)>>, StateOf(Append(p, b)))
    PROVE  Committed(Append(p, b))
<1>1. PICK d : d = Append(p, b)
  OBVIOUS
<1>2. PICK x : x = Committing(first, <<b>>, <<EffectsOn(p, b)>>)
  OBVIOUS
<1>3. StateAssumption /\ SoundChain(tables.blocks) /\ Stored(tables, tables.blocks)
  BY DEF StoreAssumption, StoreInv
<1>4. Stored(RevertedTo(tables, first), p)
  BY <1>3, RevertedFront
<1>5. SoundChain(p)
  <2>1. first - 1 \in 0..Len(tables.blocks)
    BY TipShape, <1>3
  <2> QED BY <2>1, <1>3, SoundFront
<1>6. SoundChain(d)
  BY <1>1, <1>5, SoundAppend DEF Applies
<1>7. x[0] = RevertedTo(tables, first) /\ x[1] = StoredBlock(x[0], b, EffectsOn(p, b))
  <2>1. Len(<<b>>) = 1 /\ <<b>>[1] = b /\ <<EffectsOn(p, b)>>[1] = EffectsOn(p, b)
        /\ 0 \in 0..1 /\ 1 \in 0..1 /\ 1 # 0 /\ 1 - 1 = 0
    OBVIOUS
  <2> QED BY <2>1, <1>2, CommittingIs
<1>8. Stored(x[1], d)
  <2>1. PICK t : t = x[0]
    OBVIOUS
  <2>2. Stored(t, p)
    BY <2>1, <1>4, <1>7
  <2>3. Stored(StoredBlock(t, b, EffectsOn(p, b)), Append(p, b))
    BY <2>2, <1>3, <1>5, StoredStep
  <2> QED BY <2>1, <2>3, <1>1, <1>7
<1>9. ClaimStands(x[1]) /\ Agrees(x[1], StateOf(d))
  <2>1. PICK t : t = x[1]
    OBVIOUS
  <2>2. Stored(t, Append(p, b)) /\ Stored(t, d)
    BY <2>1, <1>1, <1>8
  <2>3. ClaimStands(t)
    BY <2>2, <1>3, <1>5, ClaimHolds
  <2>4. Agrees(t, StateOf(d))
    BY <2>2, <1>3, <1>6, AgreeHolds
  <2> QED BY <2>1, <2>3, <2>4
<1>10. tables' = TrimmedUndo(x[1]) /\ tip' = StateOf(d) /\ UNCHANGED refused
  <2>1. Len(<<b>>) = 1 /\ \A i \in 1..1 : i = 1
    OBVIOUS
  <2>2. \A i \in 1..1 : ClaimStands(Committing(first, <<b>>, <<EffectsOn(p, b)>>)[i])
    BY <2>1, <1>2, <1>9
  <2>3. Agrees(Committing(first, <<b>>, <<EffectsOn(p, b)>>)[1], StateOf(Append(p, b)))
    BY <1>1, <1>2, <1>9
  <2> QED BY <2>1, <2>2, <2>3, <1>1, <1>2, CommitIs
<1>11. /\ Stored(tables', d)
       /\ \A k \in DOMAIN tables'.undo : k >= Less(StateOf(d).height, UndoKeep)
  <2>1. PICK t : t = x[1]
    OBVIOUS
  <2>2. /\ Stored(TrimmedUndo(t), d)
        /\ \A k \in DOMAIN TrimmedUndo(t).undo : k >= Less(StateOf(d).height, UndoKeep)
    BY <2>1, <1>3, <1>6, <1>8, TrimHolds
  <2> QED BY <2>1, <2>2, <1>10
<1> QED BY <1>1, <1>10, <1>11 DEF Committed

\* Two blocks on it.
LEMMA CommitTwo ==
    ASSUME StoreAssumption, StoreInv, NEW first \in 1..(Len(tables.blocks) + 1),
           first..Len(tables.blocks) \subseteq DOMAIN tables.undo,
           NEW p, p = Firsts(tables.blocks, first - 1), NEW b, Applies(p, b),
           NEW q, q = Append(p, b), NEW e, Applies(q, e),
           CommitChain(first, <<b, e>>, <<EffectsOn(p, b), EffectsOn(q, e)>>,
                       StateOf(Append(q, e)))
    PROVE  Committed(Append(q, e))
<1>1. PICK d : d = Append(q, e)
  OBVIOUS
<1>2. PICK blks, effects : blks = <<b, e>> /\ effects = <<EffectsOn(p, b), EffectsOn(q, e)>>
  OBVIOUS
<1>3. PICK x : x = Committing(first, blks, effects)
  OBVIOUS
<1>4. StateAssumption /\ SoundChain(tables.blocks) /\ Stored(tables, tables.blocks)
  BY DEF StoreAssumption, StoreInv
<1>5. Stored(RevertedTo(tables, first), p)
  BY <1>4, RevertedFront
<1>6. SoundChain(p)
  <2>1. first - 1 \in 0..Len(tables.blocks)
    BY TipShape, <1>4
  <2> QED BY <2>1, <1>4, SoundFront
<1>7. SoundChain(q)
  BY <1>6, SoundAppend DEF Applies
<1>8. SoundChain(d)
  BY <1>1, <1>7, SoundAppend DEF Applies
<1>9. /\ x[0] = RevertedTo(tables, first) /\ x[1] = StoredBlock(x[0], b, EffectsOn(p, b))
      /\ x[2] = StoredBlock(x[1], e, EffectsOn(q, e))
  <2>1. /\ Len(blks) = 2 /\ blks[1] = b /\ blks[2] = e /\ effects[1] = EffectsOn(p, b)
        /\ effects[2] = EffectsOn(q, e)
    BY <1>2
  <2>2. 0 \in 0..2 /\ 1 \in 0..2 /\ 2 \in 0..2 /\ 1 # 0 /\ 1 - 1 = 0 /\ 2 # 0 /\ 2 - 1 = 1
    OBVIOUS
  <2>3. \A i \in 0..Len(blks) : x[i] = IF i = 0 THEN RevertedTo(tables, first)
                                       ELSE StoredBlock(x[i - 1], blks[i], effects[i])
    <3>1. Len(blks) \in Nat
      BY <2>1
    <3> QED BY <3>1, <1>3, CommittingIs
  <2>4. \A i \in 0..2 : x[i] = IF i = 0 THEN RevertedTo(tables, first)
                               ELSE StoredBlock(x[i - 1], blks[i], effects[i])
    BY <2>1, <2>3
  <2>5. x[0] = RevertedTo(tables, first)
    BY <2>2, <2>4
  <2>6. x[1] = StoredBlock(x[0], b, EffectsOn(p, b))
    BY <2>1, <2>2, <2>4
  <2>7. x[2] = StoredBlock(x[1], e, EffectsOn(q, e))
    BY <2>1, <2>2, <2>4
  <2> QED BY <2>5, <2>6, <2>7
<1>10. Stored(x[1], q)
  <2>1. PICK t : t = x[0]
    OBVIOUS
  <2>2. Stored(t, p)
    BY <2>1, <1>5, <1>9
  <2>3. Stored(StoredBlock(t, b, EffectsOn(p, b)), Append(p, b))
    BY <2>2, <1>4, <1>6, StoredStep
  <2> QED BY <2>1, <2>3, <1>9
<1>11. Stored(x[2], d)
  <2>1. PICK t : t = x[1]
    OBVIOUS
  <2>2. Stored(t, q)
    BY <2>1, <1>10
  <2>3. Stored(StoredBlock(t, e, EffectsOn(q, e)), Append(q, e))
    BY <2>2, <1>4, <1>7, StoredStep
  <2> QED BY <2>1, <2>3, <1>1, <1>9
<1>12. ClaimStands(x[1]) /\ ClaimStands(x[2]) /\ Agrees(x[2], StateOf(d))
  <2>1. PICK t, u : t = x[1] /\ u = x[2]
    OBVIOUS
  <2>2. Stored(t, Append(p, b)) /\ Stored(u, Append(q, e)) /\ Stored(u, d)
    BY <2>1, <1>1, <1>10, <1>11
  <2>3. ClaimStands(t)
    BY <2>2, <1>4, <1>6, ClaimHolds
  <2>4. ClaimStands(u)
    BY <2>2, <1>4, <1>7, ClaimHolds
  <2>5. Agrees(u, StateOf(d))
    BY <2>2, <1>4, <1>8, AgreeHolds
  <2> QED BY <2>1, <2>3, <2>4, <2>5
<1>13. tables' = TrimmedUndo(x[2]) /\ tip' = StateOf(d) /\ UNCHANGED refused
  <2>1. PICK n : n = Len(blks)
    OBVIOUS
  <2>2. n = 2 /\ \A i \in 1..2 : i = 1 \/ i = 2
    BY <2>1, <1>2
  <2>3. \A i \in 1..n : ClaimStands(Committing(first, blks, effects)[i])
    BY <2>2, <1>3, <1>12
  <2>4. Agrees(Committing(first, blks, effects)[n], StateOf(d))
    BY <2>2, <1>3, <1>12
  <2>5. CommitChain(first, blks, effects, StateOf(d))
    BY <1>1, <1>2
  <2>6. /\ tables' = TrimmedUndo(Committing(first, blks, effects)[n]) /\ tip' = StateOf(d)
        /\ UNCHANGED refused
    BY <2>1, <2>3, <2>4, <2>5, CommitIs
  <2> QED BY <2>2, <2>6, <1>3
<1>14. /\ Stored(tables', d)
       /\ \A k \in DOMAIN tables'.undo : k >= Less(StateOf(d).height, UndoKeep)
  <2>1. PICK t : t = x[2]
    OBVIOUS
  <2>2. /\ Stored(TrimmedUndo(t), d)
        /\ \A k \in DOMAIN TrimmedUndo(t).undo : k >= Less(StateOf(d).height, UndoKeep)
    BY <2>1, <1>4, <1>8, <1>11, TrimHolds
  <2> QED BY <2>1, <2>2, <1>13
<1> QED BY <1>1, <1>13, <1>14 DEF Committed

\* A heavier chain that shares all but the last blocks, put in place of the
\* stored one, keeps the invariant and is what the store promises.
LEMMA Moves ==
    ASSUME StoreAssumption, StoreInv, NEW d, SoundChain(d), Committed(d),
           NEW n \in 0..Len(tables.blocks), n <= Len(d), n >= Len(tables.blocks) - UndoKeep,
           Firsts(d, n) = Firsts(tables.blocks, n), WeightOf(StateOf(d)) > WeightOf(tip)
    PROVE  StoreInv' /\ Promise!Adopt
<1>1. PICK c : c = tables.blocks
  OBVIOUS
<1>2. StateAssumption /\ UndoKeep \in Nat /\ IsChain(c) /\ IsChain(d) /\ Len(c) \in Nat /\ refused = FALSE
  BY <1>1, TipShape DEF StoreAssumption, StoreInv, SoundChain
<1>3. PICK y : y = tables'
  OBVIOUS
<1>4. /\ refused' = refused /\ tip' = StateOf(d) /\ Stored(y, d)
      /\ \A k \in DOMAIN y.undo : k >= Less(StateOf(d).height, UndoKeep)
  BY <1>3 DEF Committed
<1>5. y.blocks = d
  <2>1. Fits(y, d)
    BY <1>2, <1>4, StoredFields
  <2> QED BY <2>1 DEF Fits
<1>6. StoreInv'
  <2>1. /\ refused' = FALSE /\ SoundChain(tables'.blocks) /\ tip' = StateOf(tables'.blocks)
        /\ Stored(tables', tables'.blocks)
        /\ \A k \in DOMAIN tables'.undo : k >= Less(tip'.height, UndoKeep)
    BY <1>2, <1>3, <1>4, <1>5
  <2> QED BY <2>1 DEF StoreInv
<1>7. Promise!Shared(c, d, Len(c) - UndoKeep)
  <2>1. PICK m : m = Len(c) - UndoKeep
    OBVIOUS
  <2>2. CASE m <= 0
    BY <2>1, <2>2 DEF Promise!Shared
  <2>3. CASE ~(m <= 0)
    <3>1. m \in 0..n /\ n \in 0..Len(c)
      BY <2>1, <2>3, <1>1, <1>2
    <3>2. Firsts(Firsts(c, n), m) = Firsts(c, m)
      BY <3>1, <1>2, FrontIs
    <3>3. n \in 0..Len(d)
      BY <3>1, <1>2, ChainLen
    <3>4. Firsts(Firsts(d, n), m) = Firsts(d, m)
      BY <3>1, <3>3, <1>2, FrontIs
    <3>5. SubSeq(c, 1, m) = SubSeq(d, 1, m)
      BY <3>2, <3>4, <1>1 DEF Firsts
    <3> QED BY <3>5, <2>1 DEF Promise!Shared
  <2> QED BY <2>2, <2>3
<1>8. Promise!Becomes(Replay(d))
  <2>1. Replay(d).sound /\ tip' = Replay(d).state /\ WeightOf(Replay(d).state) > WeightOf(tip)
    BY <1>2, <1>4, SoundIsOk DEF StateOf
  <2> QED BY <2>1 DEF Promise!Becomes
<1> QED BY <1>1, <1>3, <1>5, <1>6, <1>7, <1>8 DEF Promise!Adopt

\* adopt_block keeps the invariant and is a step of the promise.
LEMMA Accepting ==
    ASSUME StoreAssumption, StoreInv, NEW c \in Contents, AcceptBlock(c)
    PROVE  StoreInv' /\ Promise!Adopt
<1>1. PICK p : p = tables.blocks
  OBVIOUS
<1>2. /\ StateAssumption /\ SoundChain(p) /\ tip = StateOf(p) /\ IsChain(p) /\ Len(p) \in Nat
      /\ Firsts(p, Len(p)) = p /\ tip.height = Len(p) + 1
  BY <1>1, TipShape DEF StoreAssumption, StoreInv
<1>3. PICK one : one = OnState(tip, p, c)
  OBVIOUS
<1>4. one.ok /\ CommitChain(tip.height, <<one.blk>>, <<one.effects>>, one.state)
  BY <1>1, <1>3 DEF AcceptBlock, Taken
<1>5. PICK b : b = one.blk
  OBVIOUS
<1>6. Applies(p, b) /\ one.effects = EffectsOn(p, b) /\ one.state = StateOf(Append(p, b))
  BY <1>2, <1>3, <1>4, <1>5, TriedIs
<1>7. PICK d : d = Append(p, b)
  OBVIOUS
<1>8. PICK first \in 1..(Len(p) + 1) : first = Len(p) + 1
  BY <1>2
<1>9. Committed(d)
  <2>1. first..Len(p) = {}
    BY <1>2, <1>8
  <2>2. p = Firsts(p, first - 1)
    <3>1. first - 1 = Len(p)
      BY <1>2, <1>8
    <3> QED BY <3>1, <1>2
  <2>3. CommitChain(first, <<b>>, <<EffectsOn(p, b)>>, StateOf(Append(p, b)))
    BY <1>2, <1>4, <1>5, <1>6, <1>8
  <2> QED BY <2>1, <2>2, <2>3, <1>1, <1>6, <1>7, CommitOne
<1>10. SoundChain(d) /\ WeightOf(StateOf(d)) > WeightOf(tip)
  BY <1>2, <1>6, <1>7, SoundAppend, ClaimIs DEF Applies
<1>11. Firsts(d, Len(p)) = Firsts(p, Len(p)) /\ Len(p) <= Len(d)
  BY <1>2, <1>7, AppendIs
<1>12. PICK n \in 0..Len(p) : n = Len(p)
  BY <1>2
<1>13. n >= Len(p) - UndoKeep
  <2>1. UndoKeep \in Nat
    BY DEF StoreAssumption
  <2> QED BY <2>1, <1>2, <1>12
<1> QED BY <1>1, <1>9, <1>10, <1>11, <1>12, <1>13, Moves

\* So does adopt_chain.
LEMMA Adopting ==
    ASSUME StoreAssumption, StoreInv, NEW first \in 1..MaxHeight, NEW c \in Contents,
           AdoptChain(first, c)
    PROVE  StoreInv' /\ Promise!Adopt
<1>1. PICK a : a = tables.blocks
  OBVIOUS
<1>2. /\ StateAssumption /\ SoundChain(a) /\ tip = StateOf(a) /\ IsChain(a) /\ Len(a) \in Nat
      /\ tip.height = Len(a) + 1 /\ Stored(tables, a) /\ UndoKeep \in Nat
  BY <1>1, TipShape DEF StoreAssumption, StoreInv
<1>3. /\ first \in 1..Len(a) /\ first \in 1..(Len(a) + 1) /\ first - 1 \in 0..Len(a)
      /\ Derivable(first)
  <2>1. first \in 1..(tip.height - 1) /\ Derivable(first)
    BY DEF AdoptChain
  <2> QED BY <2>1, <1>2
<1>4. first..Len(a) \subseteq DOMAIN tables.undo
  <2>1. \A k \in first..(tip.height - 1) : k \in DOMAIN tables.undo
    BY <1>3 DEF Derivable
  <2>2. tip.height - 1 = Len(a)
    BY <1>2
  <2> QED BY <2>1, <2>2
<1>5. PICK p : p = Firsts(a, first - 1)
  OBVIOUS
<1>6. Below(first) = p
  BY <1>1, <1>5 DEF Below, Drop, Firsts
<1>7. StateAt(first) = StateOf(p)
  BY <1>1, <1>2, <1>3, <1>5, StateAtIs
<1>8. SoundChain(p) /\ IsChain(p) /\ Len(p) = first - 1
  BY <1>2, <1>3, <1>5, SoundFront, FrontIs
<1>9. PICK n \in 0..Len(a) : n = first - 1
  BY <1>3
<1>10. n >= Len(a) - UndoKeep
  <2>1. first \in DOMAIN tables.undo
    BY <1>3, <1>4
  <2>2. first >= Less(tip.height, UndoKeep)
    BY <2>1 DEF StoreInv
  <2>3. first >= (Len(a) + 1) - UndoKeep
    BY <2>2, <1>2, <1>3 DEF Less, Most
  <2> QED BY <2>3, <1>2, <1>3, <1>9
<1>11. PICK one : one = OnState(StateAt(first), Below(first), c)
  OBVIOUS
<1>12. one = OnState(StateOf(p), p, c)
  BY <1>6, <1>7, <1>11
<1>13. PICK b : b = one.blk
  OBVIOUS
<1>14. PICK q : q = Append(p, b)
  OBVIOUS
<1>15. one.ok
  BY <1>11 DEF AdoptChain, TakenBranch, LongerBranch
<1>16. /\ Applies(p, b) /\ one.effects = EffectsOn(p, b) /\ one.state = StateOf(q)
  BY <1>8, <1>12, <1>13, <1>14, <1>15, TriedIs
<1>17. SoundChain(q) /\ IsChain(q) /\ Firsts(q, n) = p /\ Len(q) = n + 1 /\ n <= Len(q)
  <2>1. SoundChain(q)
    BY <1>8, <1>14, <1>16, SoundAppend DEF Applies
  <2>2. Firsts(q, Len(p)) = p /\ Len(q) = Len(p) + 1
    BY <1>8, <1>14, AppendIs
  <2>3. n \in Nat /\ Len(p) = n
    BY <1>2, <1>8, <1>9
  <2> QED BY <2>1, <2>2, <2>3 DEF SoundChain
<1>18. CASE TakenBranch(first, one)
  <2>1. /\ WeightOf(one.state) > WeightOf(tip)
        /\ CommitChain(first, <<one.blk>>, <<one.effects>>, one.state)
    BY <1>18 DEF TakenBranch
  <2>2. CommitChain(first, <<b>>, <<EffectsOn(p, b)>>, StateOf(Append(p, b)))
    BY <2>1, <1>13, <1>14, <1>16
  <2>3. Committed(q)
    BY <2>2, <1>1, <1>3, <1>4, <1>5, <1>14, <1>16, CommitOne
  <2>4. WeightOf(StateOf(q)) > WeightOf(tip)
    BY <2>1, <1>16
  <2>5. Firsts(q, n) = Firsts(a, n)
    BY <1>5, <1>9, <1>17
  <2> QED BY <2>3, <2>4, <2>5, <1>1, <1>10, <1>17, Moves
<1>19. CASE \E d \in Contents : LongerBranch(first, one, d)
  <2>1. PICK d \in Contents : LongerBranch(first, one, d)
    BY <1>19
  <2>2. PICK two : two = OnState(one.state, Append(Below(first), one.blk), d)
    OBVIOUS
  <2>3. TakenBranchOfTwo(first, one, two)
    BY <2>1, <2>2 DEF LongerBranch
  <2>4. two = OnState(StateOf(q), q, d)
    BY <2>2, <1>6, <1>13, <1>14, <1>16
  <2>5. PICK e : e = two.blk
    OBVIOUS
  <2>6. PICK r : r = Append(q, e)
    OBVIOUS
  <2>7. two.ok
    BY <2>3 DEF TakenBranchOfTwo
  <2>8. /\ Applies(q, e) /\ two.effects = EffectsOn(q, e) /\ two.state = StateOf(r)
    BY <2>4, <2>5, <2>6, <2>7, <1>17, TriedIs
  <2>9. /\ WeightOf(two.state) > WeightOf(tip)
        /\ CommitChain(first, <<one.blk, two.blk>>, <<one.effects, two.effects>>, two.state)
    BY <2>3 DEF TakenBranchOfTwo
  <2>10. CommitChain(first, <<b, e>>, <<EffectsOn(p, b), EffectsOn(q, e)>>, StateOf(Append(q, e)))
    BY <2>5, <2>6, <2>8, <2>9, <1>13, <1>16
  <2>11. Committed(r)
    BY <2>6, <2>8, <2>10, <1>1, <1>3, <1>4, <1>5, <1>14, <1>16, CommitTwo
  <2>12. SoundChain(r)
    BY <2>6, <2>8, <1>17, SoundAppend DEF Applies
  <2>13. WeightOf(StateOf(r)) > WeightOf(tip)
    BY <2>8, <2>9
  <2>14. Firsts(r, n) = Firsts(a, n) /\ n <= Len(r)
    <3>1. n \in 0..Len(q) /\ n \in Nat
      BY <1>2, <1>17
    <3>2. Firsts(r, n) = Firsts(q, n) /\ Len(r) = Len(q) + 1
      BY <3>1, <2>6, <1>17, AppendIs
    <3> QED BY <3>1, <3>2, <1>5, <1>9, <1>17
  <2> QED BY <2>11, <2>12, <2>13, <2>14, <1>1, <1>10, Moves
<1>20. TakenBranch(first, one) \/ \E d \in Contents : LongerBranch(first, one, d)
  BY <1>11 DEF AdoptChain
<1> QED BY <1>18, <1>19, <1>20

\* Every step of the store does.
LEMMA StoreStep ==
    ASSUME StoreAssumption, StoreInv, [Next]_vars
    PROVE  StoreInv' /\ [Promise!Next]_(Promise!vars)
<1>1. ASSUME Promise!Adopt PROVE [Promise!Next]_(Promise!vars)
  BY <1>1 DEF Promise!Next
<1>2. ASSUME UNCHANGED <<tip, tables, refused>> PROVE StoreInv' /\ [Promise!Next]_(Promise!vars)
  BY <1>2 DEF StoreInv, Promise!vars
<1>3. ASSUME NEW c \in Contents, AcceptBlock(c)
      PROVE  StoreInv' /\ [Promise!Next]_(Promise!vars)
  BY <1>1, <1>3, Accepting
<1>4. ASSUME NEW first \in 1..MaxHeight, NEW c \in Contents, AdoptChain(first, c)
      PROVE  StoreInv' /\ [Promise!Next]_(Promise!vars)
  BY <1>1, <1>4, Adopting
<1>5. ASSUME Restart PROVE StoreInv' /\ [Promise!Next]_(Promise!vars)
  <2>1. LoadState(tables) = tip
    BY LoadedIsTip DEF StoreAssumption
  <2>2. UNCHANGED <<tip, tables, refused>>
    BY <1>5, <2>1 DEF Restart
  <2> QED BY <2>2, <1>2
<1> QED BY <1>2, <1>3, <1>4, <1>5 DEF Next, vars

\* The store starts right.
LEMMA StoreStart ==
    ASSUME StoreAssumption, Init
    PROVE  StoreInv /\ Promise!Init
<1>1. StateAssumption /\ UndoKeep \in Nat
  BY DEF StoreAssumption
<1>2. tip = GenesisState /\ tables = GenesisTables /\ refused = FALSE
  BY DEF Init
<1>3. tables.blocks = <<>> /\ tables.undo = <<>>
  BY <1>2 DEF GenesisTables
<1>4. SoundChain(<<>>)
  <2>1. IsChain(<<>>) /\ 1..Len(<<>>) = {}
    <3>1. <<>> \in Seq({}) /\ Len(<<>>) = 0
      OBVIOUS
    <3> QED BY <3>1 DEF IsChain
  <2> QED BY <2>1 DEF SoundChain
<1>5. tip = StateOf(<<>>)
  BY <1>2, ReplayNothing DEF StateOf, Fresh
<1>6. Stored(tables, <<>>)
  <2>1. PICK B : B = Book(<<>>)
    OBVIOUS
  <2>2. tables = B
    BY <2>1, <1>2, BookNothing
  <2>3. DOMAIN B.undo = {}
    BY <2>2, <1>3
  <2>4. B = [B EXCEPT !.undo = B.undo]
    <3>1. B = [blocks |-> B.blocks, utxos |-> B.utxos, groups |-> B.groups,
               kernels |-> B.kernels, bonds |-> B.bonds, relay |-> B.relay,
               signers |-> B.signers, capped |-> B.capped, minted |-> B.minted,
               depths |-> B.depths, undo |-> B.undo, meta |-> B.meta]
      BY <2>1, <1>1, GenesisBook DEF BookOk
    <3> QED BY <3>1
  <2>5. B.undo = [k \in DOMAIN B.undo |-> B.undo[k]]
    BY <2>2, <2>3, <1>3
  <2>6. DOMAIN B.undo \subseteq 1..Len(<<>>)
    BY <2>3
  <2> QED BY <2>1, <2>2, <2>4, <2>5, <2>6 DEF Stored
<1>7. DOMAIN tables.undo = {}
  BY <1>3
<1>8. StoreInv
  BY <1>2, <1>3, <1>4, <1>5, <1>6, <1>7 DEF StoreInv
<1> QED BY <1>2, <1>3, <1>8 DEF Promise!Init

\* The invariant holds.
LEMMA StoreKept ==
    ASSUME StoreAssumption
    PROVE  Spec => []StoreInv
<1>1. Init => StoreInv
  BY StoreStart
<1>2. StoreInv /\ [Next]_vars => StoreInv'
  BY StoreStep
<1> QED BY <1>1, <1>2, PTL DEF Spec

\* The store implements ReplayedChain: its state is always the replay of its
\* chain, and only a heavier chain that shares all but a bounded number of the
\* last blocks takes its place (adopt_block, adopt_chain, load_state).
THEOREM StorePromised ==
    ASSUME StoreAssumption
    PROVE  Spec => KeepsPromise
<1>1. Init => Promise!Init
  BY StoreStart
<1>2. StoreInv /\ [Next]_vars => [Promise!Next]_(Promise!vars)
  BY StoreStep
<1> QED BY <1>1, <1>2, StoreKept, PTL DEF Spec, KeepsPromise, Promise!Spec

\* commit_chain never refuses a chain the node has applied: none of its checks
\* can fail (storage.rs:1133).
THEOREM AlwaysStored ==
    ASSUME StoreAssumption
    PROVE  Spec => []NeverRefused
<1>1. StoreInv => NeverRefused
  BY DEF StoreInv, NeverRefused
<1> QED BY <1>1, StoreKept, PTL

\* state_at: undoing any number of blocks gives the state that replaying the
\* rest would, windows included.
THEOREM UndoingReplays ==
    ASSUME StoreAssumption
    PROVE  Spec => []UndoneIsReplayed
<1>1. StoreInv => UndoneIsReplayed
  <2>1. SUFFICES ASSUME StoreInv, NEW h \in 1..(tip.height - 1), Derivable(h)
                 PROVE  StateAt(h) = Replay(Drop(tables.blocks, h - 1)).state
    BY DEF UndoneIsReplayed
  <2>2. StateAssumption
    BY DEF StoreAssumption
  <2>3. h \in 1..(Len(tables.blocks) + 1)
    BY <2>1, <2>2, TipShape
  <2>4. StateAt(h) = StateOf(Firsts(tables.blocks, h - 1))
    BY <2>1, <2>2, <2>3, StateAtIs
  <2> QED BY <2>4 DEF StateOf, Firsts, Drop
<1> QED BY <1>1, StoreKept, PTL

\* The relay stays one chain of linked headers, and every bond is proven by
\* one of them or has outlived the window (revoke_above).
THEOREM BondsStayProven ==
    ASSUME StoreAssumption
    PROVE  Spec => []BondsProven
<1>1. StoreInv => BondsProven
  <2>1. SUFFICES ASSUME StoreInv PROVE BondsProven
    OBVIOUS
  <2>2. IsRelay(tip.relay) /\ BondsOk(tip.bonds, tip.relay)
    <3>1. StateAssumption /\ SoundChain(tables.blocks) /\ tip = StateOf(tables.blocks)
      BY <2>1 DEF StoreAssumption, StoreInv
    <3> QED BY <3>1, SoundIsOk DEF StateOk
  <2>3. FormsChain(tip.relay)
    BY <2>2 DEF IsRelay
  <2>4. ASSUME NEW b \in tip.bonds
        PROVE  \E e \in tip.relay : e.hash = b.hash \/ (e = BaseEntry(tip.relay) /\ b.proven < e.height)
    <3>1. \E e \in tip.relay : ProvenBy(b, e, BaseEntry(tip.relay))
      BY <2>2 DEF BondsOk, ProvenOn
    <3> QED BY <3>1 DEF ProvenBy
  <2> QED BY <2>3, <2>4 DEF BondsProven
<1> QED BY <1>1, StoreKept, PTL

\* Every unspent output is in exactly one group, and no group is kept without
\* one.
THEOREM GroupsStayUnspent ==
    ASSUME StoreAssumption
    PROVE  Spec => []GroupsHoldUnspent
<1>1. StoreInv => GroupsHoldUnspent
  <2>1. SUFFICES ASSUME StoreInv PROVE GroupsHoldUnspent
    OBVIOUS
  <2>2. GroupsOk(tables.groups, tables.utxos)
    <3>1. StateAssumption /\ SoundChain(tables.blocks) /\ Stored(tables, tables.blocks)
      BY <2>1 DEF StoreAssumption, StoreInv
    <3> QED BY <3>1, StoredFields
  <2> QED BY <2>2 DEF GroupsOk, GroupsHoldUnspent
<1> QED BY <1>1, StoreKept, PTL

\* The weights the tables keep for each height are the replayed chain's.
LEMMA WeightColumn ==
    ASSUME StateAssumption, StoreInv, NEW h \in 0..Len(tables.blocks)
    PROVE  WeightAfter(h) = WeightOf(StateOf(Firsts(tables.blocks, h)))
<1>1. PICK c : c = tables.blocks
  OBVIOUS
<1>2. Fits(tables, c) /\ Len(c) \in Nat
  BY <1>1, TipShape
<1>3. PICK n \in 1..(Len(c) + 1) : n = h + 1 /\ n - 1 = h
  BY <1>1, <1>2
<1>4. tables.depths[n] = StateOf(Firsts(c, h)).depth /\ tables.capped[n] = StateOf(Firsts(c, h)).capped
  BY <1>2, <1>3 DEF Fits, CappedOf, DepthsOf
<1> QED BY <1>1, <1>3, <1>4 DEF WeightAfter, WeightOf

\* What a stored block may count for at most, from the headers before it.
LEMMA AllowedWork ==
    ASSUME StateAssumption, NEW c, SoundChain(c), c = tables.blocks, NEW h \in 1..Len(c),
           NEW s, s = StateOf(Firsts(c, h - 1)), NEW work, work = WorkOfHeader(c, h)
    PROVE  /\ s.height = h /\ WorkOf(s) = work /\ FloorBefore(c, h) = s.low
           /\ Creditable(s.low, h, work) \in Nat \ {0}
           /\ Creditable(s.low, h, work)
                = Least(work, LowestBefore(h) + LowestBefore(h) \div Headroom)
<1>1. IsChain(c) /\ WellTimed(c) /\ Len(c) \in Nat
  BY ChainLen, SoundWellTimed DEF SoundChain
<1>2. PICK n \in 0..Len(c) : n = h - 1 /\ n + 1 = h
  BY <1>1
<1>3. PICK p : p = Firsts(c, n)
  OBVIOUS
<1>4. PICK low : low = s.low
  OBVIOUS
<1>5. PICK W : W = WorksOf(c)
  OBVIOUS
<1>6. PICK lo : lo = Less(h, WorkCapWindow)
  OBVIOUS
<1>7. Enumerates(low, W, lo, h)
  BY <1>2, <1>4, <1>5, <1>6, FrontWindows DEF LowWork
<1>8. lo \in Nat /\ lo < h /\ h \in Nat /\ h <= Len(c)
  <2>1. WorkCapWindow \in Nat \ {0}
    BY DEF StateAssumption
  <2> QED BY <2>1, <1>1, <1>6 DEF Less, Most
<1>9. ASSUME NEW i \in 0..h PROVE W[i] = WorkOfHeader(c, i) /\ W[i] \in Nat \ {0}
  <2>1. i \in 0..Len(c)
    BY <1>8
  <2>2. W[i] = WorkOfHeader(c, i)
    BY <2>1, <1>1, <1>5, HeaderWorkIs
  <2>3. W[i] = IF i = 0 THEN GenesisWork ELSE TargetWork(i, TimeAt(c, i - 1))
    BY <2>1, <1>5 DEF WorksOf
  <2>4. CASE i = 0
    BY <2>2, <2>3, <2>4 DEF StateAssumption
  <2>5. CASE i # 0
    <3>1. i \in Nat /\ (i - 1 # 0 => i - 1 \in 1..Len(c))
      BY <2>1, <2>5, <1>1
    <3>2. TimeAt(c, i - 1) \in Nat
      BY <3>1, <1>1 DEF TimeAt, WellTimed
    <3> QED BY <2>2, <2>3, <2>5, <3>1, <3>2 DEF StateAssumption
  <2> QED BY <2>4, <2>5
<1>10. s.height = h /\ WorkOf(s) = work
  <2>1. Len(p) = n /\ ShapeOk(s, p) /\ \A i \in 1..n : p[i] = c[i]
    <3>1. StateOk(s, p)
      BY <1>2, <1>3, SoundFront, SoundIsOk
    <3> QED BY <3>1, <1>1, <1>3, FrontIs DEF StateOk
  <2>2. s.height = n + 1 /\ s.time = TimeAt(p, n)
    BY <2>1 DEF ShapeOk
  <2>3. TimeAt(p, n) = TimeAt(c, n)
    <3>1. n # 0 => n \in 1..n
      BY <1>2
    <3> QED BY <3>1, <2>1 DEF TimeAt
  <2>4. W[h] = TargetWork(h, TimeAt(c, n))
    <3>1. h \in 0..Len(c) /\ h # 0
      BY <1>8
    <3> QED BY <3>1, <1>2, <1>5 DEF WorksOf
  <2>5. W[h] = work
    <3>1. h \in 0..h
      BY <1>8
    <3> QED BY <3>1, <1>9
  <2> QED BY <2>2, <2>3, <2>4, <2>5, <1>2 DEF WorkOf
<1>11. FloorBefore(c, h) = low
  <2>1. Enumerates(low, WorksOf(c), LowWork(n + 1), n + 1)
    BY <1>2, <1>5, <1>6, <1>7 DEF LowWork
  <2> QED BY <2>1, <1>1, <1>2, FloorBeforeIs
<1>12. KeptWindow(low, h) = low
  <2>1. WorkCapWindow \in Nat /\ lo <= h /\ Less(h, WorkCapWindow) <= lo
    <3>1. WorkCapWindow \in Nat
      BY DEF StateAssumption
    <3>2. lo \in Int /\ h \in Int /\ lo <= h
      BY <1>8
    <3> QED BY <3>1, <3>2, <1>6
  <2>2. \A j \in lo..h : W[j] \in Nat
    BY <1>8, <1>9
  <2> QED BY <2>1, <2>2, <1>7, <1>8, FloorStep
<1>13. low # <<>> /\ low[1].work = LowestBefore(h) /\ low[1].work \in Nat \ {0}
  <2>1. \A j \in lo..(h - 1) : W[j] = WorkOfHeader(c, j)
    BY <1>8, <1>9
  <2>2. \A j \in lo..(h - 1) : W[j] \in Nat \ {0}
    BY <1>8, <1>9
  <2>3. low # <<>> /\ low[1].work = Min(WorksIn(W, lo, h)) /\ low[1].work \in Nat \ {0}
    BY <2>2, <1>7, <1>8, LeastIsFront, LowFront
  <2>4. WorksIn(W, lo, h) = {WorkOfHeader(tables.blocks, j) : j \in lo..(h - 1)}
    BY <2>1 DEF WorksIn
  <2> QED BY <2>3, <2>4, <1>6 DEF LowestBefore
<1>14. Creditable(low, h, work) = Least(work, LowestBefore(h) + LowestBefore(h) \div Headroom)
  BY <1>12, <1>13 DEF Creditable
<1>15. Creditable(low, h, work) \in Nat \ {0}
  <2>1. PICK m : m = LowestBefore(h)
    OBVIOUS
  <2>2. m \in Nat \ {0} /\ Headroom \in Nat \ {0}
    BY <2>1, <1>13 DEF StateAssumption
  <2>3. PICK d : d = m \div Headroom
    OBVIOUS
  <2>4. d \in Nat
    BY <2>2, <2>3, DivLemma
  <2>5. work \in Nat \ {0}
    <3>1. h \in 0..h
      BY <1>8
    <3> QED BY <3>1, <1>9
  <2>6. Least(work, m + d) \in Nat \ {0}
    BY <2>2, <2>4, <2>5 DEF Least
  <2> QED BY <2>1, <2>3, <2>6, <1>14
<1> QED BY <1>4, <1>10, <1>11, <1>14, <1>15

\* What a stored block counted for, from the chain alone.
LEMMA BlockCounts ==
    ASSUME StateAssumption, StoreInv, NEW h \in 1..Len(tables.blocks)
    PROVE  /\ WeightAfter(h) = WeightAfter(h - 1) + CountsFor(h)
           /\ CountsFor(h) \in Nat /\ WeightAfter(h - 1) \in Nat
           /\ CreditPossible(Creditable(FloorBefore(tables.blocks, h), h,
                                        WorkOfHeader(tables.blocks, h)),
                             tables.blocks[h].signer # NoSigner, h, CountsFor(h))
<1>1. PICK c : c = tables.blocks
  OBVIOUS
<1>2. SoundChain(c) /\ IsChain(c) /\ Len(c) \in Nat /\ Fits(tables, c) /\ h \in 1..Len(c)
  BY <1>1, TipShape DEF StoreInv
<1>3. PICK p : p = Firsts(c, h - 1)
  OBVIOUS
<1>4. PICK b : b = c[h]
  OBVIOUS
<1>5. /\ Firsts(c, h) = Append(p, b) /\ SoundChain(p) /\ Applies(p, b) /\ Len(p) = h - 1
  BY <1>2, <1>3, <1>4, SoundLast
<1>6. PICK s, times : s = StateOf(p) /\ times = TimesOf(p)
  OBVIOUS
<1>7. PICK r : r = StateOf(Append(p, b))
  OBVIOUS
<1>8. PICK w : w = WeighedAt(s, b, times)
  OBVIOUS
<1>9. r = NextState(s, b, times)
  BY <1>5, <1>6, <1>7, StateMore DEF SoundChain
<1>10. WeightAfter(h) = WeightOf(r) /\ WeightAfter(h - 1) = WeightOf(s)
  <2>1. h \in 0..Len(c) /\ h - 1 \in 0..Len(c)
    BY <1>2
  <2> QED BY <2>1, <1>1, <1>3, <1>5, <1>6, <1>7, WeightColumn
<1>11. WeightOf(r) = WeightOf(s) + w.credited
  BY <1>5, <1>6, <1>7, <1>8, ClaimIs
<1>12. PICK work : work = WorkOfHeader(c, h)
  OBVIOUS
<1>13. PICK top : top = Creditable(s.low, h, work)
  OBVIOUS
<1>14. /\ s.height = h /\ WorkOf(s) = work /\ FloorBefore(c, h) = s.low
       /\ top \in Nat \ {0}
       /\ top = Least(work, LowestBefore(h) + LowestBefore(h) \div Headroom)
  BY <1>1, <1>2, <1>3, <1>6, <1>12, <1>13, AllowedWork
<1>15. PICK counts : counts = r.counts
  OBVIOUS
<1>16. w.window.counts = counts /\ r.bonds = BondsAt(s, b, times)
  BY <1>8, <1>9, <1>15 DEF NextState, After
<1>17. w.credited = Credited(counts, r.bonds, h, b.signer, top, b.time)
  <2>1. PICK window : window = Recorded([recent |-> s.recent, counts |-> s.counts], b.signer)
    OBVIOUS
  <2>2. w = WeighedIn(s, BondsAt(s, b, times), b, WorkOf(s), window)
    BY <2>1, <1>8 DEF WeighedAt, Weighed
  <2>3. /\ w.window = window
        /\ w.credited = Credited(window.counts, BondsAt(s, b, times), s.height, b.signer,
                                 Creditable(s.low, s.height, WorkOf(s)), b.time)
    BY <2>2 DEF WeighedIn
  <2> QED BY <2>3, <1>13, <1>14, <1>16
<1>18. ASSUME b.signer # NoSigner PROVE CountOf(counts, b.signer) = SignedBy(h, b.signer)
  <2>1. PICK sg : sg = SignersOf(c)
    OBVIOUS
  <2>2. PICK D : sg \in Seq(D)
    BY <2>1, <1>2, SignersAre
  <2>3. PICK lo, hi : lo = Less(h + 1, CapWindow) /\ hi = h + 1
    OBVIOUS
  <2>4. lo \in Nat /\ hi \in Nat /\ hi - 1 = h /\ hi <= Len(sg)
    <3>1. CapWindow \in Nat \ {0}
      BY DEF StateAssumption
    <3>2. Len(sg) = Len(c) + 1
      BY <2>1, <1>2, SignersAre
    <3> QED BY <3>1, <3>2, <2>3, <1>2 DEF Less, Most
  <2>5. [recent |-> r.recent, counts |-> r.counts] = WindowOf(sg, lo + 1, hi)
    <3>1. h \in 0..Len(c)
      BY <1>2
    <3> QED BY <3>1, <2>1, <2>3, <1>2, <1>5, <1>7, FrontWindows DEF LowSigner
  <2>6. counts = CountsOf(sg, lo + 1, hi)
    BY <2>5, <1>15 DEF WindowOf
  <2>7. CountOf(counts, b.signer) = Cardinality(SignedIn(sg, lo, hi, b.signer))
    <3>1. PICK x : x = b.signer
      OBVIOUS
    <3>2. CountOf(CountsOf(sg, lo + 1, hi), x) = Cardinality(SignedIn(sg, lo, hi, x))
      BY <3>1, <2>2, <2>4, <1>18, CountIs
    <3> QED BY <3>1, <3>2, <2>6
  <2>8. tables.signers = sg
    BY <2>1, <1>2 DEF Fits
  <2> QED BY <2>3, <2>4, <2>7, <2>8 DEF SignedBy, SignedIn
<1>19. CountsFor(h) =
          IF b.signer = NoSigner
          THEN IF h >= BondedFrom THEN Sliver(top) ELSE top
          ELSE IF SignedBy(h, b.signer) > SignerCap(r.bonds, b.time) THEN Sliver(top) ELSE top
  <2>1. Replay(Drop(tables.blocks, h)).state = r
    BY <1>1, <1>5, <1>7 DEF Drop, StateOf, Firsts
  <2> QED BY <2>1, <1>1, <1>4, <1>12, <1>14 DEF CountsFor
<1>20. CountsFor(h) = w.credited
  BY <1>17, <1>18, <1>19 DEF Credited
<1>21. CountsFor(h) \in Nat
  BY <1>14, <1>17, <1>20, CreditedBound
<1>22. WeightAfter(h - 1) \in Nat
  <2>1. StateOk(s, p)
    BY <1>5, <1>6, SoundIsOk
  <2>2. s.depth \in Nat /\ s.capped \in Nat
    BY <2>1 DEF StateOk, ShapeOk
  <2>3. WeightOf(s) \in Nat
    BY <2>2 DEF WeightOf, Less, Most
  <2> QED BY <2>3, <1>10
<1>23. CreditPossible(top, b.signer # NoSigner, h, CountsFor(h))
  <2>1. CASE b.signer # NoSigner
    <3>1. CountsFor(h) \in {top, Sliver(top)}
      BY <2>1, <1>19
    <3> QED BY <2>1, <3>1 DEF CreditPossible
  <2>2. CASE b.signer = NoSigner /\ h >= BondedFrom
    BY <2>2, <1>19 DEF CreditPossible
  <2>3. CASE b.signer = NoSigner /\ ~(h >= BondedFrom)
    BY <2>3, <1>19 DEF CreditPossible
  <2> QED BY <2>1, <2>2, <2>3
<1> QED BY <1>1, <1>4, <1>10, <1>11, <1>12, <1>13, <1>14, <1>20, <1>21, <1>22, <1>23

\* Every stored block counts for what the chain alone says: a share of the
\* least work before it, a sliver when its signer has more than its share or
\* nobody signed it; and headers alone would have allowed that
\* (credit_in_window, cap_work, credit_possible).
THEOREM WeighedRight ==
    ASSUME StoreAssumption
    PROVE  Spec => []WeighedByTheBook
<1>1. StateAssumption
  BY DEF StoreAssumption
<1>2. ASSUME StoreInv PROVE WeighedByTheBook
  <2>1. PICK c : c = tables.blocks
    OBVIOUS
  <2>2. /\ Len(c) \in Nat /\ tip.height = Len(c) + 1 /\ tip = StateOf(c)
        /\ Firsts(c, Len(c)) = c /\ tip.height - 1 = Len(c)
    <3>1. Len(c) \in Nat /\ tip.height = Len(c) + 1 /\ tip = StateOf(c) /\ Firsts(c, Len(c)) = c
      BY <1>1, <1>2, <2>1, TipShape DEF StoreInv
    <3> QED BY <3>1
  <2>3. WeightAfter(tip.height - 1) = WeightOf(tip)
    <3>1. Len(c) \in 0..Len(c)
      BY <2>2
    <3> QED BY <3>1, <1>1, <1>2, <2>1, <2>2, WeightColumn
  <2>4. WeightAfter(0) = GenesisWork
    <3>1. WeightAfter(0) = WeightOf(StateOf(Firsts(c, 0)))
      <4>1. 0 \in 0..Len(c)
        BY <2>2
      <4> QED BY <4>1, <1>1, <1>2, <2>1, WeightColumn
    <3>2. Firsts(c, 0) = <<>>
      BY DEF Firsts
    <3>3. StateOf(<<>>) = GenesisState
      BY ReplayNothing DEF StateOf, Fresh
    <3>4. GenesisWork \in Nat
      BY <1>1 DEF StateAssumption
    <3>5. WeightOf(GenesisState) = Less(GenesisWork, 0)
      BY DEF WeightOf, GenesisState
    <3> QED BY <3>1, <3>2, <3>3, <3>4, <3>5 DEF Less, Most
  <2>5. ASSUME NEW h \in 1..(tip.height - 1)
        PROVE  /\ WeightAfter(h) = WeightAfter(h - 1) + CountsFor(h)
               /\ CreditPossible(Creditable(FloorBefore(tables.blocks, h), h,
                                            WorkOfHeader(tables.blocks, h)),
                                 tables.blocks[h].signer # NoSigner, h,
                                 WeightAfter(h) - WeightAfter(h - 1))
    <3>1. h \in 1..Len(tables.blocks)
      BY <2>1, <2>2
    <3>2. PICK x, y, z : x = WeightAfter(h) /\ y = WeightAfter(h - 1) /\ z = CountsFor(h)
      OBVIOUS
    <3>3. x = y + z /\ y \in Nat /\ z \in Nat
      BY <3>1, <3>2, <1>1, <1>2, BlockCounts
    <3>4. x - y = z
      BY <3>3
    <3> QED BY <3>1, <3>2, <3>3, <3>4, <1>1, <1>2, BlockCounts
  <2> QED BY <2>3, <2>4, <2>5 DEF WeighedByTheBook, HeadersAgree
<1> QED BY <1>2, StoreKept, PTL

------------------------------------------------------------------------------
\* Sums over finite sets.
Some(s) == CHOOSE x \in s : TRUE
Summing(f, S) ==
    CHOOSE g : g = [s \in SUBSET S |-> IF s = {} THEN 0 ELSE f[Some(s)] + g[s \ {Some(s)}]]
SummedBy(g, f, S) ==
    \A s \in SUBSET S : g[s] = IF s = {} THEN 0 ELSE f[Some(s)] + g[s \ {Some(s)}]
NatOn(f, S) == \A x \in S : f[x] \in Nat

\* A sum over a set is the recursive function below at that set.
LEMMA SumIs ==
    ASSUME NEW f, NEW S
    PROVE  SumFunctionOnSet(f, S) = Summing(f, S)[S]
BY DEF SumFunctionOnSet, FoldFunctionOnSet, MapThenFoldSet, Summing, Some

\* That function is there, and each of its values is an element more than
\* another.
LEMMA SummingIs ==
    ASSUME NEW f, NEW S, IsFiniteSet(S), NatOn(f, S)
    PROVE  /\ Summing(f, S) \in [SUBSET S -> Nat]
           /\ SummedBy(Summing(f, S), f, S)
<1> DEFINE Eq(g) == g = [s \in SUBSET S |-> IF s = {} THEN 0 ELSE f[Some(s)] + g[s \ {Some(s)}]]
<1>1. PICK first, step : /\ first = [s \in SUBSET S |-> Some(s)]
                         /\ step = [p \in S \X Nat |-> f[p[1]] + p[2]]
  OBVIOUS
<1>2. ASSUME NEW s \in SUBSET S, s # {} PROVE first[s] \in s /\ first[s] = Some(s)
  BY <1>1, <1>2 DEF Some
<1>3. ASSUME NEW x \in S, NEW v \in Nat PROVE step[<<x, v>>] = f[x] + v /\ step[<<x, v>>] \in Nat
  BY <1>1 DEF NatOn
<1>4. PICK g \in [SUBSET S -> Nat] : FoldedBy(g, S, 0, first, step)
  <2>1. \A s \in SUBSET S : s # {} => first[s] \in s
    BY <1>2
  <2>2. \A x \in S : \A v \in Nat : step[<<x, v>>] \in Nat
    BY <1>3
  <2>3. 0 \in Nat
    OBVIOUS
  <2> QED BY <2>1, <2>2, <2>3, FoldExists
<1>5. Eq(g)
  <2>1. ASSUME NEW s \in SUBSET S
        PROVE  g[s] = IF s = {} THEN 0 ELSE f[Some(s)] + g[s \ {Some(s)}]
    <3>1. CASE s = {}
      BY <3>1, <1>4 DEF FoldedBy
    <3>2. CASE s # {}
      <4>1. PICK x : x = Some(s)
        OBVIOUS
      <4>2. x = first[s] /\ x \in S /\ s \ {x} \in SUBSET S
        BY <3>2, <4>1, <1>2
      <4>3. g[s] = step[<<x, g[s \ {x}]>>]
        BY <3>2, <4>2, <1>4 DEF FoldedBy
      <4> QED BY <3>2, <4>1, <4>2, <4>3, <1>3
    <3> QED BY <3>1, <3>2
  <2> QED BY <2>1
<1>6. PICK h : h = Summing(f, S)
  OBVIOUS
<1>7. Eq(h)
  BY <1>5, <1>6 DEF Summing
<1>8. h = g
  <2> DEFINE Q == {s \in SUBSET S : h[s] = g[s]}
             N == {n \in Nat : \A s \in SUBSET S : Cardinality(s) = n => h[s] = g[s]}
  <2>1. \A s \in SUBSET S : IsFiniteSet(s) /\ Cardinality(s) \in Nat
    BY FS_Subset, FS_CardinalityType
  <2>2. 0 \in N
    <3>1. ASSUME NEW s \in SUBSET S, Cardinality(s) = 0 PROVE h[s] = g[s]
      <4>1. s = {}
        BY <3>1, <2>1, FS_EmptySet
      <4> QED BY <4>1, <1>5, <1>7
    <3> QED BY <3>1
  <2>3. ASSUME NEW n \in Nat, n \in N PROVE n + 1 \in N
    <3>1. ASSUME NEW s \in SUBSET S, Cardinality(s) = n + 1 PROVE h[s] = g[s]
      <4>1. s # {}
        <5>1. n + 1 # 0
          OBVIOUS
        <5> QED BY <5>1, <3>1, FS_EmptySet
      <4>2. PICK x : x = Some(s)
        OBVIOUS
      <4>3. x \in s /\ s \ {x} \in SUBSET S
        BY <4>1, <4>2 DEF Some
      <4>4. Cardinality(s \ {x}) = n
        <5>1. Cardinality(s \ {x}) = Cardinality(s) - 1
          BY <4>3, <2>1, FS_RemoveElement
        <5> QED BY <5>1, <3>1
      <4>5. h[s \ {x}] = g[s \ {x}]
        BY <4>3, <4>4, <2>3
      <4>6. h[s] = f[x] + h[s \ {x}] /\ g[s] = f[x] + g[s \ {x}]
        BY <4>1, <4>2, <1>5, <1>7
      <4> QED BY <4>5, <4>6
    <3> QED BY <3>1
  <2>4. Nat \subseteq N
    <3> HIDE DEF N
    <3> QED BY <2>2, <2>3, SetInd
  <2>5. ASSUME NEW s \in SUBSET S PROVE h[s] = g[s]
    BY <2>1, <2>4
  <2>6. DOMAIN h = SUBSET S /\ DOMAIN g = SUBSET S
    BY <1>7
  <2> QED BY <2>5, <2>6, <1>5, <1>7
<1>9. SummedBy(g, f, S)
  BY <1>5 DEF SummedBy
<1> QED BY <1>6, <1>8, <1>9

\* The sum over a set is one element's and the rest's, whichever it is.
LEMMA SumEmpty == ASSUME NEW f PROVE SumFunctionOnSet(f, {}) = 0
<1>1. IsFiniteSet({}) /\ NatOn(f, {}) /\ {} \in SUBSET {}
  BY FS_EmptySet DEF NatOn
<1> QED BY <1>1, SumIs, SummingIs DEF SummedBy

\* Its value at a part of the set is the sum over that part.
LEMMA SumOfSubset ==
    ASSUME NEW f, NEW S, IsFiniteSet(S), NatOn(f, S), NEW T \in SUBSET S
    PROVE  Summing(f, S)[T] = SumFunctionOnSet(f, T)
<1>1. IsFiniteSet(T) /\ NatOn(f, T)
  BY FS_Subset DEF NatOn
<1>2. PICK g, h : g = Summing(f, S) /\ h = Summing(f, T)
  OBVIOUS
<1> DEFINE N == {n \in Nat : \A s \in SUBSET T : Cardinality(s) = n => h[s] = g[s]}
<1>3. \A s \in SUBSET T : IsFiniteSet(s) /\ Cardinality(s) \in Nat
  BY <1>1, FS_Subset, FS_CardinalityType
<1>4. \A s \in SUBSET T : /\ g[s] = IF s = {} THEN 0 ELSE f[Some(s)] + g[s \ {Some(s)}]
                          /\ h[s] = IF s = {} THEN 0 ELSE f[Some(s)] + h[s \ {Some(s)}]
  <2>1. \A s \in SUBSET T : s \in SUBSET S
    OBVIOUS
  <2>2. \A s \in SUBSET S : g[s] = IF s = {} THEN 0 ELSE f[Some(s)] + g[s \ {Some(s)}]
    <3>1. SummedBy(g, f, S)
      BY <1>2, SummingIs
    <3> QED BY <3>1 DEF SummedBy
  <2>3. \A s \in SUBSET T : h[s] = IF s = {} THEN 0 ELSE f[Some(s)] + h[s \ {Some(s)}]
    <3>1. SummedBy(h, f, T)
      BY <1>1, <1>2, SummingIs
    <3> QED BY <3>1 DEF SummedBy
  <2> QED BY <2>1, <2>2, <2>3
<1>5. 0 \in N
  <2>1. ASSUME NEW s \in SUBSET T, Cardinality(s) = 0 PROVE h[s] = g[s]
    <3>1. s = {}
      BY <2>1, <1>3, FS_EmptySet
    <3> QED BY <3>1, <1>4
  <2> QED BY <2>1
<1>6. ASSUME NEW n \in Nat, n \in N PROVE n + 1 \in N
  <2>1. ASSUME NEW s \in SUBSET T, Cardinality(s) = n + 1 PROVE h[s] = g[s]
    <3>1. s # {}
      <4>1. n + 1 # 0
        OBVIOUS
      <4> QED BY <4>1, <2>1, FS_EmptySet
    <3>2. PICK x : x = Some(s)
      OBVIOUS
    <3>3. x \in s /\ s \ {x} \in SUBSET T
      BY <3>1, <3>2 DEF Some
    <3>4. Cardinality(s \ {x}) = n
      <4>1. Cardinality(s \ {x}) = Cardinality(s) - 1
        BY <3>3, <1>3, FS_RemoveElement
      <4> QED BY <4>1, <2>1
    <3>5. h[s \ {x}] = g[s \ {x}]
      BY <3>3, <3>4, <1>6
    <3>6. h[s] = f[x] + h[s \ {x}] /\ g[s] = f[x] + g[s \ {x}]
      BY <3>1, <3>2, <1>4
    <3> QED BY <3>5, <3>6
  <2> QED BY <2>1
<1>7. Nat \subseteq N
  <2> HIDE DEF N
  <2> QED BY <1>5, <1>6, SetInd
<1>8. h[T] = g[T]
  <2>1. Cardinality(T) \in N /\ T \in SUBSET T
    BY <1>3, <1>7
  <2> QED BY <2>1
<1> QED BY <1>2, <1>8, SumIs

\* A sum is the chosen element's and the rest's.
LEMMA SumSome ==
    ASSUME NEW f, NEW S, IsFiniteSet(S), NatOn(f, S), S # {}
    PROVE  /\ SumFunctionOnSet(f, S) = f[Some(S)] + SumFunctionOnSet(f, S \ {Some(S)})
           /\ Some(S) \in S
<1>1. S \in SUBSET S /\ S \ {Some(S)} \in SUBSET S
  OBVIOUS
<1>2. Summing(f, S)[S] = f[Some(S)] + Summing(f, S)[S \ {Some(S)}]
  <2>1. \A s \in SUBSET S :
           Summing(f, S)[s] = IF s = {} THEN 0 ELSE f[Some(s)] + Summing(f, S)[s \ {Some(s)}]
    BY SummingIs DEF SummedBy
  <2> QED BY <2>1, <1>1
<1> QED BY <1>1, <1>2, SumIs, SumOfSubset DEF Some

\* A sum of naturals is a natural.
LEMMA SumType ==
    ASSUME NEW f, NEW S, IsFiniteSet(S), NatOn(f, S)
    PROVE  SumFunctionOnSet(f, S) \in Nat
<1>1. PICK g : g = Summing(f, S)
  OBVIOUS
<1>2. g \in [SUBSET S -> Nat] /\ S \in SUBSET S
  BY <1>1, SummingIs
<1>3. g[S] \in Nat
  BY <1>2
<1> QED BY <1>1, <1>3, SumIs

\* A sum is any element's and the rest's.
LEMMA SumWithout ==
    ASSUME NEW f, NEW S, IsFiniteSet(S), NatOn(f, S), NEW x \in S
    PROVE  SumFunctionOnSet(f, S) = f[x] + SumFunctionOnSet(f, S \ {x})
<1> DEFINE Sum(s) == SumFunctionOnSet(f, s)
           N == {n \in Nat : \A s \in SUBSET S : Cardinality(s) = n =>
                    \A y \in s : Sum(s) = f[y] + Sum(s \ {y})}
<1>1. \A s \in SUBSET S : /\ IsFiniteSet(s) /\ NatOn(f, s) /\ Cardinality(s) \in Nat
                          /\ Sum(s) \in Nat
  <2>1. ASSUME NEW s \in SUBSET S PROVE IsFiniteSet(s) /\ NatOn(f, s)
    BY FS_Subset DEF NatOn
  <2> QED BY <2>1, FS_CardinalityType, SumType
<1>2. 0 \in N
  <2>1. ASSUME NEW s \in SUBSET S, Cardinality(s) = 0 PROVE s = {}
    BY <2>1, <1>1, FS_EmptySet
  <2> QED BY <2>1
<1>3. ASSUME NEW n \in Nat, n \in N PROVE n + 1 \in N
  <2>1. ASSUME NEW s \in SUBSET S, Cardinality(s) = n + 1, NEW y \in s
        PROVE  Sum(s) = f[y] + Sum(s \ {y})
    <3>1. PICK z : z = Some(s)
      OBVIOUS
    <3>2. Sum(s) = f[z] + Sum(s \ {z}) /\ z \in s
      BY <3>1, <1>1, SumSome
    <3>3. CASE z = y
      BY <3>2, <3>3
    <3>4. CASE z # y
      <4>1. /\ s \ {z} \in SUBSET S /\ s \ {y} \in SUBSET S /\ y \in s \ {z} /\ z \in s \ {y}
            /\ (s \ {z}) \ {y} = (s \ {y}) \ {z} /\ (s \ {z}) \ {y} \in SUBSET S
        BY <3>2, <3>4
      <4>2. Cardinality(s \ {z}) = n /\ Cardinality(s \ {y}) = n
        <5>1. Cardinality(s \ {z}) = Cardinality(s) - 1 /\ Cardinality(s \ {y}) = Cardinality(s) - 1
          BY <3>2, <1>1, FS_RemoveElement
        <5> QED BY <5>1, <2>1
      <4>3. /\ Sum(s \ {z}) = f[y] + Sum((s \ {z}) \ {y})
            /\ Sum(s \ {y}) = f[z] + Sum((s \ {y}) \ {z})
        BY <4>1, <4>2, <1>3
      <4>4. f[y] \in Nat /\ f[z] \in Nat /\ Sum((s \ {z}) \ {y}) \in Nat
        BY <3>2, <4>1, <1>1 DEF NatOn
      <4>5. PICK a, b, c \in Nat : a = f[y] /\ b = f[z] /\ c = Sum((s \ {z}) \ {y})
        BY <4>4
      <4>6. Sum(s) = b + (a + c)
        BY <3>2, <4>3, <4>5
      <4>7. Sum(s \ {y}) = b + c
        BY <4>1, <4>3, <4>5
      <4>8. b + (a + c) = a + (b + c)
        OBVIOUS
      <4> QED BY <4>5, <4>6, <4>7, <4>8
    <3> QED BY <3>3, <3>4
  <2> QED BY <2>1
<1>4. Nat \subseteq N
  <2> HIDE DEF N
  <2> QED BY <1>2, <1>3, SetInd
<1>5. Cardinality(S) \in N /\ S \in SUBSET S
  BY <1>1, <1>4
<1> QED BY <1>5

\* The sum of the first n of a sequence's values, one more at a time.
LEMMA SumNext ==
    ASSUME NEW f, NEW n \in Nat, NatOn(f, 1..(n + 1))
    PROVE  /\ SumFunctionOnSet(f, 1..(n + 1)) = SumFunctionOnSet(f, 1..n) + f[n + 1]
           /\ SumFunctionOnSet(f, 1..n) \in Nat /\ f[n + 1] \in Nat
           /\ NatOn(f, 1..n)
<1>1. IsFiniteSet(1..(n + 1)) /\ IsFiniteSet(1..n)
  BY FS_Interval
<1>2. (1..(n + 1)) \ {n + 1} = 1..n /\ n + 1 \in 1..(n + 1) /\ NatOn(f, 1..n)
  BY DEF NatOn
<1>3. SumFunctionOnSet(f, 1..(n + 1)) = f[n + 1] + SumFunctionOnSet(f, 1..n)
  BY <1>1, <1>2, SumWithout
<1>4. f[n + 1] \in Nat /\ SumFunctionOnSet(f, 1..n) \in Nat
  BY <1>1, <1>2, SumType DEF NatOn
<1> QED BY <1>2, <1>3, <1>4

\* Sums of functions that agree are the same.
LEMMA SumSame ==
    ASSUME NEW S, IsFiniteSet(S), NEW f, NEW g, NatOn(f, S), \A x \in S : f[x] = g[x]
    PROVE  SumFunctionOnSet(f, S) = SumFunctionOnSet(g, S)
<1> DEFINE Q == {T \in SUBSET S : SumFunctionOnSet(f, T) = SumFunctionOnSet(g, T)}
<1>1. {} \in Q
  BY SumEmpty
<1>2. ASSUME NEW T \in SUBSET S, NEW x \in S, T \in Q, x \notin T PROVE T \cup {x} \in Q
  <2>1. PICK U : U = T \cup {x}
    OBVIOUS
  <2>2. U \in SUBSET S /\ IsFiniteSet(U) /\ NatOn(f, U) /\ NatOn(g, U) /\ x \in U /\ U \ {x} = T
    <3>1. U \in SUBSET S /\ x \in U /\ U \ {x} = T
      BY <1>2, <2>1
    <3> QED BY <3>1, FS_Subset DEF NatOn
  <2>3. /\ SumFunctionOnSet(f, U) = f[x] + SumFunctionOnSet(f, T)
        /\ SumFunctionOnSet(g, U) = g[x] + SumFunctionOnSet(g, T)
    BY <2>2, SumWithout
  <2> QED BY <1>2, <2>1, <2>2, <2>3
<1>3. \A T \in SUBSET S : T \in Q
  <2> HIDE DEF Q
  <2> QED BY <1>1, <1>2, SubsetInd
<1> QED BY <1>3

------------------------------------------------------------------------------
\* A reward split by weights: the shares add up to it.
\* A share and its fraction.
LEMMA Divided ==
    ASSUME NEW a \in Nat, NEW W \in Nat, W > 0
    PROVE  /\ a = W * (a \div W) + (a % W)
           /\ a \div W \in Nat /\ a % W \in Nat /\ a % W < W
OBVIOUS

\* The sum of the sums, and of what is one or nothing.
LEMMA SumPlus ==
    ASSUME NEW S, IsFiniteSet(S), NEW f, NEW g, NEW h, NatOn(f, S), NatOn(g, S),
           \A x \in S : h[x] = f[x] + g[x]
    PROVE  SumFunctionOnSet(h, S) = SumFunctionOnSet(f, S) + SumFunctionOnSet(g, S)
<1> DEFINE Sum(k, T) == SumFunctionOnSet(k, T)
           Q == {T \in SUBSET S : Sum(h, T) = Sum(f, T) + Sum(g, T)}
<1>1. {} \in Q
  <2>1. Sum(h, {}) = 0 /\ Sum(f, {}) = 0 /\ Sum(g, {}) = 0
    BY SumEmpty
  <2> QED BY <2>1
<1>2. ASSUME NEW T \in SUBSET S, NEW x \in S, T \in Q, x \notin T PROVE T \cup {x} \in Q
  <2>1. PICK U : U = T \cup {x}
    OBVIOUS
  <2>2. U \in SUBSET S /\ IsFiniteSet(U) /\ x \in U /\ U \ {x} = T /\ IsFiniteSet(T)
    <3>1. U \in SUBSET S /\ x \in U /\ U \ {x} = T
      BY <1>2, <2>1
    <3> QED BY <3>1, FS_Subset
  <2>3. NatOn(f, U) /\ NatOn(g, U) /\ NatOn(h, U) /\ NatOn(f, T) /\ NatOn(g, T)
    BY <2>2 DEF NatOn
  <2>4. Sum(f, U) = f[x] + Sum(f, T) /\ Sum(g, U) = g[x] + Sum(g, T) /\ Sum(h, U) = h[x] + Sum(h, T)
    BY <2>2, <2>3, SumWithout
  <2>5. PICK a, b, c, d \in Nat : a = f[x] /\ b = g[x] /\ c = Sum(f, T) /\ d = Sum(g, T)
    <3>1. Sum(f, T) \in Nat /\ Sum(g, T) \in Nat
      BY <2>2, <2>3, SumType
    <3> QED BY <3>1 DEF NatOn
  <2>6. h[x] = a + b /\ Sum(h, T) = c + d
    BY <1>2, <2>5
  <2>7. Sum(h, U) = (a + b) + (c + d) /\ Sum(f, U) = a + c /\ Sum(g, U) = b + d
    BY <2>4, <2>5, <2>6
  <2>8. (a + b) + (c + d) = (a + c) + (b + d)
    OBVIOUS
  <2> QED BY <2>1, <2>2, <2>7, <2>8
<1>3. \A T \in SUBSET S : T \in Q
  <2> HIDE DEF Q
  <2> QED BY <1>1, <1>2, SubsetInd
<1> QED BY <1>3

Ones(f, S) == {x \in S : f[x] = 1}
\* The sum of ones and zeros counts the ones.
LEMMA SumOnes ==
    ASSUME NEW S, IsFiniteSet(S), NEW f, \A x \in S : f[x] \in {0, 1}
    PROVE  SumFunctionOnSet(f, S) = Cardinality(Ones(f, S))
<1> DEFINE Sum(T) == SumFunctionOnSet(f, T)
           Q == {T \in SUBSET S : Sum(T) = Cardinality(Ones(f, T))}
<1>1. {} \in Q
  <2>1. Ones(f, {}) = {}
    BY DEF Ones
  <2> QED BY <2>1, SumEmpty, FS_EmptySet
<1>2. ASSUME NEW T \in SUBSET S, NEW x \in S, T \in Q, x \notin T PROVE T \cup {x} \in Q
  <2>1. PICK U : U = T \cup {x}
    OBVIOUS
  <2>2. U \in SUBSET S /\ IsFiniteSet(U) /\ x \in U /\ U \ {x} = T /\ IsFiniteSet(T)
    <3>1. U \in SUBSET S /\ x \in U /\ U \ {x} = T
      BY <1>2, <2>1
    <3> QED BY <3>1, FS_Subset
  <2>3. NatOn(f, U) /\ f[x] \in {0, 1}
    BY <2>2 DEF NatOn
  <2>4. Sum(U) = f[x] + Sum(T)
    BY <2>2, <2>3, SumWithout
  <2>5. IsFiniteSet(Ones(f, T)) /\ Cardinality(Ones(f, T)) \in Nat /\ x \notin Ones(f, T)
    <3>1. Ones(f, T) \subseteq T
      BY DEF Ones
    <3> QED BY <3>1, <1>2, <2>2, FS_Subset, FS_CardinalityType
  <2>6. Cardinality(Ones(f, U)) = f[x] + Cardinality(Ones(f, T))
    <3>1. CASE f[x] = 0
      <4>1. Ones(f, U) = Ones(f, T)
        BY <3>1, <2>1 DEF Ones
      <4> QED BY <3>1, <4>1, <2>5
    <3>2. CASE f[x] = 1
      <4>1. Ones(f, U) = Ones(f, T) \cup {x}
        BY <3>2, <2>1 DEF Ones
      <4>2. Cardinality(Ones(f, T) \cup {x}) = Cardinality(Ones(f, T)) + 1
        BY <2>5, FS_AddElement
      <4> QED BY <3>2, <4>1, <4>2, <2>5
    <3> QED BY <2>3, <3>1, <3>2
  <2> QED BY <1>2, <2>1, <2>2, <2>4, <2>6
<1>3. \A T \in SUBSET S : T \in Q
  <2> HIDE DEF Q
  <2> QED BY <1>1, <1>2, SubsetInd
<1> QED BY <1>3

\* The places of a sequence's values in order are 0, 1, 2 and so on.
LEMMA Ranked ==
    ASSUME NEW n \in Nat, NEW f \in [1..n -> Nat], NEW left \in Nat, left <= n
    PROVE  Cardinality({i \in 1..n : Cardinality(Ahead(f, i)) < left}) = left
<1>1. IsFiniteSet(1..n) /\ Cardinality(1..n) = n /\ IsFiniteSet(0..(n - 1)) /\ Cardinality(0..(n - 1)) = n
  <2>1. n - 1 \in Int /\ (n - 1) - 0 + 1 = n /\ (0 > n - 1 <=> n = 0)
    OBVIOUS
  <2>2. Cardinality(0..(n - 1)) = IF 0 > n - 1 THEN 0 ELSE (n - 1) - 0 + 1
    BY <2>1, FS_Interval
  <2>3. Cardinality(1..n) = n
    BY FS_Interval
  <2> QED BY <2>1, <2>2, <2>3, FS_Interval
<1>2. ASSUME NEW i \in 1..n
      PROVE  /\ IsFiniteSet(Ahead(f, i)) /\ Cardinality(Ahead(f, i)) \in 0..(n - 1)
             /\ i \notin Ahead(f, i)
  <2>1. Ahead(f, i) \subseteq (1..n) \ {i}
    BY DEF Ahead
  <2>2. Cardinality((1..n) \ {i}) = n - 1 /\ IsFiniteSet((1..n) \ {i})
    BY <1>1, FS_RemoveElement, FS_Subset
  <2>3. /\ IsFiniteSet(Ahead(f, i)) /\ Cardinality(Ahead(f, i)) <= n - 1
        /\ Cardinality(Ahead(f, i)) \in Nat
    BY <2>1, <2>2, FS_Subset, FS_CardinalityType
  <2> QED BY <2>1, <2>3
<1>3. ASSUME NEW i \in 1..n, NEW j \in 1..n, i \in Ahead(f, j)
      PROVE  Cardinality(Ahead(f, i)) # Cardinality(Ahead(f, j))
  <2>1. Ahead(f, i) \subseteq Ahead(f, j) \ {i}
    <3>1. f[i] \in Nat /\ f[j] \in Nat
      OBVIOUS
    <3>2. ASSUME NEW k \in Ahead(f, i) PROVE k \in Ahead(f, j) /\ k # i
      <4>1. k \in 1..n /\ f[k] \in Nat
        BY DEF Ahead
      <4> QED BY <3>1, <4>1, <1>3 DEF Ahead
    <3> QED BY <3>2
  <2>2. Cardinality(Ahead(f, j) \ {i}) = Cardinality(Ahead(f, j)) - 1 /\ IsFiniteSet(Ahead(f, j) \ {i})
    BY <1>2, <1>3, FS_RemoveElement, FS_Subset
  <2>3. Cardinality(Ahead(f, i)) <= Cardinality(Ahead(f, j)) - 1
    BY <2>1, <2>2, FS_Subset
  <2> QED BY <2>3, <1>2
<1>4. ASSUME NEW i \in 1..n, NEW j \in 1..n, i # j
      PROVE  Cardinality(Ahead(f, i)) # Cardinality(Ahead(f, j))
  <2>1. f[i] \in Nat /\ f[j] \in Nat
    OBVIOUS
  <2>2. i \in Ahead(f, j) \/ j \in Ahead(f, i)
    BY <1>4, <2>1 DEF Ahead
  <2> QED BY <2>2, <1>3
<1>5. PICK rank : rank = [i \in 1..n |-> Cardinality(Ahead(f, i))]
  OBVIOUS
<1>6. rank \in Injection(1..n, 0..(n - 1))
  <2>1. rank \in [1..n -> 0..(n - 1)]
    BY <1>2, <1>5
  <2>2. \A i, j \in 1..n : rank[i] = rank[j] => i = j
    BY <1>4, <1>5
  <2> QED BY <2>1, <2>2 DEF Injection, IsInjective
<1>7. rank \in Surjection(1..n, 0..(n - 1))
  BY <1>1, <1>6, FS_Injection
<1>8. PICK E : E = {i \in 1..n : Cardinality(Ahead(f, i)) < left}
  OBVIOUS
<1>9. PICK few : few = [i \in E |-> rank[i]]
  OBVIOUS
<1>10. few \in Bijection(E, 0..(left - 1))
  <2>1. ASSUME NEW i \in E PROVE few[i] \in 0..(left - 1)
    BY <1>2, <1>5, <1>8, <1>9
  <2>2. \A i, j \in E : few[i] = few[j] => i = j
    BY <1>4, <1>5, <1>8, <1>9
  <2>3. ASSUME NEW r \in 0..(left - 1) PROVE \E i \in E : few[i] = r
    <3>1. r \in 0..(n - 1) /\ r < left
      OBVIOUS
    <3>2. PICK i \in 1..n : rank[i] = r
      BY <3>1, <1>7 DEF Surjection
    <3> QED BY <3>1, <3>2, <1>5, <1>8, <1>9
  <2>4. few \in [E -> 0..(left - 1)]
    BY <2>1, <1>9
  <2> QED BY <2>2, <2>3, <2>4 DEF Bijection, Injection, IsInjective, Surjection
<1>11. IsFiniteSet(E) /\ Cardinality(0..(left - 1)) = Cardinality(E)
  <2>1. IsFiniteSet(E)
    BY <1>1, <1>8, FS_Subset
  <2> QED BY <2>1, <1>10, FS_Bijection DEF ExistsBijection
<1>12. Cardinality(0..(left - 1)) = left
  <2>1. left - 1 \in Int /\ (left - 1) - 0 + 1 = left /\ (0 > left - 1 <=> left = 0)
    OBVIOUS
  <2>2. Cardinality(0..(left - 1)) = IF 0 > left - 1 THEN 0 ELSE (left - 1) - 0 + 1
    BY <2>1, FS_Interval
  <2> QED BY <2>1, <2>2
<1> QED BY <1>8, <1>11, <1>12

\* One share more: what the whole shares and the fractions add up to.
UpTo(total, W, a, b, c, m) == total * a = W * b + c /\ c + m <= m * W
Share(total, W, x, y, z) == total * x = W * y + z /\ z < W
\* Whole shares and fractions add up, a share at a time.
LEMMA SharedNext ==
    ASSUME NEW total \in Nat, NEW W \in Nat, NEW a \in Nat, NEW b \in Nat, NEW c \in Nat,
           NEW x \in Nat, NEW y \in Nat, NEW z \in Nat, NEW m \in Nat,
           UpTo(total, W, a, b, c, m), Share(total, W, x, y, z)
    PROVE  UpTo(total, W, a + x, b + y, c + z, m + 1)
<1> USE DEF UpTo, Share
<1>1. total * (a + x) = total * a + total * x
  OBVIOUS
<1>2. W * (b + y) = W * b + W * y
  OBVIOUS
<1>3. (m + 1) * W = m * W + W
  OBVIOUS
<1>4. total * a \in Nat /\ total * x \in Nat /\ W * b \in Nat /\ W * y \in Nat /\ m * W \in Nat
  OBVIOUS
<1>5. ASSUME NEW p \in Nat, NEW q \in Nat, NEW r \in Nat, NEW s \in Nat,
             p = r + c, q = s + z
      PROVE  p + q = (r + s) + (c + z)
  BY <1>5
<1>6. ASSUME NEW p \in Nat, c + m <= p PROVE (c + z) + (m + 1) <= p + W
  BY <1>6
<1>7. total * a + total * x = (W * b + W * y) + (c + z)
  BY <1>4, <1>5
<1>8. (c + z) + (m + 1) <= m * W + W
  BY <1>4, <1>6
<1> QED BY <1>1, <1>2, <1>3, <1>7, <1>8

\* What the whole shares leave is what the fractions make, less than one a
\* share.
LEMMA LeftBounds ==
    ASSUME NEW total \in Nat, NEW W \in Nat, W > 0, NEW b \in Nat, NEW c \in Nat, NEW n \in Nat,
           total * W = W * b + c, c + n <= n * W
    PROVE  total - b \in 0..n
<1>1. ASSUME total < b PROVE FALSE
  <2>1. total + 1 <= b
    BY <1>1
  <2>2. (total + 1) * W <= b * W
    BY <2>1
  <2>3. (total + 1) * W = total * W + W /\ b * W = W * b
    OBVIOUS
  <2>4. total * W \in Nat /\ W * b \in Nat
    OBVIOUS
  <2>5. ASSUME NEW p \in Nat, NEW q \in Nat, p + W <= q, p = q + c PROVE FALSE
    BY <2>5
  <2> QED BY <2>2, <2>3, <2>4, <2>5
<1>2. ASSUME b + n < total PROVE FALSE
  <2>1. (b + n) + 1 <= total
    BY <1>2
  <2>2. ((b + n) + 1) * W <= total * W
    BY <2>1
  <2>3. ((b + n) + 1) * W = (W * b + n * W) + W
    OBVIOUS
  <2>4. n * W \in Nat /\ W * b \in Nat
    OBVIOUS
  <2>5. ASSUME NEW p \in Nat, NEW q \in Nat, (p + q) + W <= p + c, c + n <= q PROVE FALSE
    BY <2>5
  <2> QED BY <2>2, <2>3, <2>4, <2>5
<1> QED BY <1>1, <1>2

\* Whole shares and fractions, summed over the first k.
LEMMA SplitUpTo ==
    ASSUME NEW total \in Nat, NEW w \in Seq(Nat), NEW W \in Nat, W > 0, W = SumFunction(w),
           NEW k \in 0..Len(w)
    PROVE  /\ NatOn(Whole(total, w), 1..k) /\ NatOn(Fraction(total, w), 1..k)
           /\ total * SumFunctionOnSet(w, 1..k)
                = W * SumFunctionOnSet(Whole(total, w), 1..k)
                    + SumFunctionOnSet(Fraction(total, w), 1..k)
           /\ SumFunctionOnSet(Fraction(total, w), 1..k) + k <= k * W
<1> DEFINE n == Len(w)
           whole == Whole(total, w)
           frac == Fraction(total, w)
           Holds(m) == /\ NatOn(whole, 1..m) /\ NatOn(frac, 1..m)
                       /\ total * SumFunctionOnSet(w, 1..m)
                            = W * SumFunctionOnSet(whole, 1..m) + SumFunctionOnSet(frac, 1..m)
                       /\ SumFunctionOnSet(frac, 1..m) + m <= m * W
           I == {m \in Nat : m <= n => Holds(m)}
<1>1. ASSUME NEW i \in 1..n
      PROVE  /\ w[i] \in Nat /\ whole[i] \in Nat /\ frac[i] \in Nat /\ frac[i] < W
             /\ total * w[i] = W * whole[i] + frac[i]
  <2>1. PICK a \in Nat : a = total * w[i] /\ w[i] \in Nat
    OBVIOUS
  <2>2. whole[i] = a \div W /\ frac[i] = a % W
    BY <2>1 DEF Whole, Fraction
  <2>3. a = W * (a \div W) + (a % W) /\ a \div W \in Nat /\ a % W \in Nat /\ a % W < W
    BY Divided
  <2>4. PICK q, r : q = a \div W /\ r = a % W
    OBVIOUS
  <2> HIDE DEF whole, frac
  <2> QED BY <2>1, <2>2, <2>3, <2>4
<1>2. 0 \in I
  <2>1. 1..0 = {}
    OBVIOUS
  <2>2. NatOn(whole, 1..0) /\ NatOn(frac, 1..0)
    BY <2>1 DEF NatOn
  <2>3. \A f : SumFunctionOnSet(f, 1..0) = 0
    BY <2>1, SumEmpty
  <2>4. total * 0 = W * 0 + 0 /\ 0 + 0 <= 0 * W
    OBVIOUS
  <2> QED BY <2>2, <2>3, <2>4
<1>3. ASSUME NEW m \in Nat, m \in I PROVE m + 1 \in I
  <2>1. SUFFICES ASSUME m + 1 <= n PROVE Holds(m + 1)
    OBVIOUS
  <2>2. Holds(m)
    <3>1. n \in Nat
      OBVIOUS
    <3>2. m <= n
      BY <2>1, <3>1
    <3> QED BY <1>3, <3>2
  <2>3. 1..(m + 1) \subseteq 1..n /\ m + 1 \in 1..n
    BY <2>1
  <2>4. NatOn(whole, 1..(m + 1)) /\ NatOn(frac, 1..(m + 1)) /\ NatOn(w, 1..(m + 1))
    BY <2>3, <1>1 DEF NatOn
  <2> HIDE DEF whole, frac, n
  <2>5. PICK a, b, c, x, y, z \in Nat :
           /\ x = w[m + 1] /\ y = whole[m + 1] /\ z = frac[m + 1]
           /\ a = SumFunctionOnSet(w, 1..m) /\ b = SumFunctionOnSet(whole, 1..m)
           /\ c = SumFunctionOnSet(frac, 1..m)
    BY <2>4, SumNext
  <2>6. /\ SumFunctionOnSet(w, 1..(m + 1)) = a + x
        /\ SumFunctionOnSet(whole, 1..(m + 1)) = b + y
        /\ SumFunctionOnSet(frac, 1..(m + 1)) = c + z
    BY <2>4, <2>5, SumNext
  <2>7. UpTo(total, W, a, b, c, m) /\ Share(total, W, x, y, z)
    BY <2>2, <2>3, <2>5, <1>1 DEF UpTo, Share
  <2>8. UpTo(total, W, a + x, b + y, c + z, m + 1)
    BY <2>7, SharedNext
  <2> QED BY <2>4, <2>6, <2>8 DEF UpTo
<1>4. Nat \subseteq I
  <2> HIDE DEF I
  <2> QED BY <1>2, <1>3, SetInd
<1>5. k \in I /\ k <= n
  BY <1>4
<1> QED BY <1>5

\* What is left after the whole shares is less than there are shares.
LEMMA SplitLeft ==
    ASSUME NEW total \in Nat, NEW w \in Seq(Nat), SumFunction(w) > 0
    PROVE  /\ Whole(total, w) \in [1..Len(w) -> Nat] /\ Fraction(total, w) \in [1..Len(w) -> Nat]
           /\ SumFunction(Whole(total, w)) \in Nat
           /\ total - SumFunction(Whole(total, w)) \in 0..Len(w)
<1>1. PICK n \in Nat : n = Len(w)
  OBVIOUS
<1>2. IsFiniteSet(1..n) /\ DOMAIN w = 1..n /\ NatOn(w, 1..n)
  <2>1. IsFiniteSet(1..n)
    BY FS_Interval
  <2> QED BY <2>1, <1>1 DEF NatOn
<1>3. PICK W \in Nat : W = SumFunction(w) /\ W > 0 /\ W = SumFunctionOnSet(w, 1..n)
  BY <1>2, SumType DEF SumFunction
<1>4. n \in 0..Len(w)
  BY <1>1
<1>5. /\ NatOn(Whole(total, w), 1..n) /\ NatOn(Fraction(total, w), 1..n)
      /\ total * SumFunctionOnSet(w, 1..n)
           = W * SumFunctionOnSet(Whole(total, w), 1..n)
               + SumFunctionOnSet(Fraction(total, w), 1..n)
      /\ SumFunctionOnSet(Fraction(total, w), 1..n) + n <= n * W
  BY <1>3, <1>4, SplitUpTo
<1>6. /\ DOMAIN Whole(total, w) = 1..n
      /\ Whole(total, w) = [i \in 1..n |-> Whole(total, w)[i]]
      /\ Fraction(total, w) = [i \in 1..n |-> Fraction(total, w)[i]]
  BY <1>1 DEF Whole, Fraction
<1>7. PICK b, c \in Nat : /\ b = SumFunctionOnSet(Whole(total, w), 1..n)
                          /\ c = SumFunctionOnSet(Fraction(total, w), 1..n)
  BY <1>2, <1>5, SumType
<1>8. total * W = W * b + c /\ c + n <= n * W
  BY <1>3, <1>5, <1>7
<1>9. total - b \in 0..n
  BY <1>3, <1>8, LeftBounds
<1>10. SumFunction(Whole(total, w)) = b
  BY <1>6, <1>7 DEF SumFunction
<1>11. Whole(total, w) \in [1..n -> Nat] /\ Fraction(total, w) \in [1..n -> Nat]
  BY <1>5, <1>6 DEF NatOn
<1> QED BY <1>1, <1>9, <1>10, <1>11

\* The sum of a sequence with one value more.
LEMMA SumAppend ==
    ASSUME NEW s \in Seq(Nat), NEW e \in Nat
    PROVE  /\ Append(s, e) \in Seq(Nat) /\ SumFunction(s) \in Nat
           /\ SumFunction(Append(s, e)) = SumFunction(s) + e
<1>1. PICK n \in Nat : n = Len(s)
  OBVIOUS
<1>2. PICK t : t = Append(s, e)
  OBVIOUS
<1>3. /\ t \in Seq(Nat) /\ DOMAIN s = 1..n /\ DOMAIN t = 1..(n + 1) /\ t[n + 1] = e
      /\ \A i \in 1..n : t[i] = s[i]
  BY <1>1, <1>2
<1>4. NatOn(t, 1..(n + 1)) /\ NatOn(s, 1..n)
  BY <1>1, <1>3 DEF NatOn
<1>5. SumFunctionOnSet(t, 1..(n + 1)) = SumFunctionOnSet(t, 1..n) + e
  BY <1>3, <1>4, SumNext
<1>6. IsFiniteSet(1..n)
  BY FS_Interval
<1>7. SumFunctionOnSet(s, 1..n) = SumFunctionOnSet(t, 1..n) /\ SumFunctionOnSet(s, 1..n) \in Nat
  BY <1>3, <1>4, <1>6, SumSame, SumType
<1> QED BY <1>2, <1>3, <1>5, <1>7 DEF SumFunction

\* The values left once the empty ones are: as the recursive function keeps them.
KeptNext(values, kept, n) ==
    IF values[n] > 0 THEN Append(kept, values[n]) ELSE kept
Keeping(values) ==
    CHOOSE g : g = [n \in 0..Len(values) |->
                       IF n = 0 THEN <<>>
                       ELSE IF values[n] > 0 THEN Append(g[n - 1], values[n]) ELSE g[n - 1]]

\* Positive is its last value.
LEMMA KeepingIs ==
    ASSUME NEW values, Len(values) \in Nat
    PROVE  Keeping(values) =
             [n \in 0..Len(values) |->
                 IF n = 0 THEN <<>> ELSE KeptNext(values, Keeping(values)[n - 1], n)]
<1> DEFINE P(m) == \E g : g = [n \in 0..m |->
                                 IF n = 0 THEN <<>> ELSE KeptNext(values, g[n - 1], n)]
<1>1. P(0)
  <2>1. [n \in 0..0 |-> <<>>] = [n \in 0..0 |->
           IF n = 0 THEN <<>> ELSE KeptNext(values, [i \in 0..0 |-> <<>>][n - 1], n)]
    OBVIOUS
  <2> QED BY <2>1
<1>2. ASSUME NEW m \in Nat, P(m) PROVE P(m + 1)
  <2>1. PICK g : g = [n \in 0..m |-> IF n = 0 THEN <<>> ELSE KeptNext(values, g[n - 1], n)]
    BY <1>2
  <2>2. PICK h : h = [n \in 0..(m + 1) |->
                         IF n = m + 1 THEN KeptNext(values, g[m], n) ELSE g[n]]
    OBVIOUS
  <2>3. ASSUME NEW n \in 0..(m + 1)
        PROVE  h[n] = IF n = 0 THEN <<>> ELSE KeptNext(values, h[n - 1], n)
    <3>1. CASE n = m + 1
      BY <3>1, <2>2
    <3>2. CASE n # m + 1
      <4>1. n \in 0..m /\ h[n] = g[n]
        BY <3>2, <2>2
      <4>2. n # 0 => n - 1 \in 0..(m + 1) /\ n - 1 # m + 1
        BY <4>1
      <4> QED BY <4>1, <4>2, <2>1, <2>2
    <3> QED BY <3>1, <3>2
  <2>4. h = [n \in 0..(m + 1) |-> IF n = 0 THEN <<>> ELSE KeptNext(values, h[n - 1], n)]
    BY <2>2, <2>3
  <2> QED BY <2>4
<1>3. \A m \in Nat : P(m)
  <2>1. PICK S : S = {m \in Nat : P(m)}
    OBVIOUS
  <2> HIDE DEF P
  <2>2. 0 \in S /\ \A n \in Nat : n \in S => n + 1 \in S
    BY <1>1, <1>2, <2>1
  <2>3. Nat \subseteq S
    BY <2>2, SetInd
  <2> QED BY <2>1, <2>3
<1> QED BY <1>3 DEF Keeping, KeptNext

\* What Positive keeps is above zero, and it keeps naturals.
LEMMA PositiveIs ==
    ASSUME NEW values
    PROVE  Positive(values) = Keeping(values)[Len(values)]
BY DEF Positive, Keeping

\* What is kept sums to the same, and is nothing only if that is 0.
AllPositive(s) == \A i \in 1..Len(s) : s[i] > 0
\* Leaving out empty shares leaves the sum.
LEMMA PositiveSums ==
    ASSUME NEW values \in Seq(Nat)
    PROVE  /\ Positive(values) \in Seq(Nat) /\ AllPositive(Positive(values))
           /\ SumFunction(Positive(values)) = SumFunction(values)
           /\ SumFunction(values) \in Nat
<1>1. PICK n \in Nat : n = Len(values) /\ DOMAIN values = 1..n
  OBVIOUS
<1>2. PICK g : g = Keeping(values)
  OBVIOUS
<1>3. \A m \in 0..n : g[m] = IF m = 0 THEN <<>> ELSE KeptNext(values, g[m - 1], m)
  BY <1>1, <1>2, KeepingIs
<1> DEFINE Holds(m) == /\ g[m] \in Seq(Nat) /\ AllPositive(g[m])
                       /\ SumFunction(g[m]) = SumFunctionOnSet(values, 1..m)
           I == {m \in Nat : m <= n => Holds(m)}
<1>4. 0 \in I
  <2>1. g[0] = <<>> /\ 0 \in Nat
    BY <1>1, <1>3
  <2>2. DOMAIN <<>> = {} /\ 1..0 = {} /\ <<>> \in Seq(Nat) /\ Len(<<>>) = 0
    OBVIOUS
  <2>3. SumFunction(<<>>) = 0 /\ SumFunctionOnSet(values, 1..0) = 0
    BY <2>2, SumEmpty DEF SumFunction
  <2>4. AllPositive(<<>>)
    BY <2>2 DEF AllPositive
  <2> QED BY <2>1, <2>2, <2>3, <2>4
<1>5. ASSUME NEW m \in Nat, m \in I PROVE m + 1 \in I
  <2>1. SUFFICES ASSUME m + 1 <= n PROVE Holds(m + 1)
    OBVIOUS
  <2>2. Holds(m)
    <3>1. m <= n
      BY <2>1, <1>1
    <3> QED BY <1>5, <3>1
  <2>3. PICK e \in Nat : e = values[m + 1]
    <3>1. m + 1 \in 1..n
      BY <2>1, <1>1
    <3> QED BY <3>1, <1>1
  <2>4. NatOn(values, 1..(m + 1))
    <3>1. 1..(m + 1) \subseteq 1..n
      BY <2>1, <1>1
    <3> QED BY <3>1, <1>1 DEF NatOn
  <2>5. /\ SumFunctionOnSet(values, 1..(m + 1)) = SumFunctionOnSet(values, 1..m) + e
        /\ SumFunctionOnSet(values, 1..m) \in Nat
    BY <2>3, <2>4, SumNext
  <2>6. g[m + 1] = KeptNext(values, g[m], m + 1)
    <3>1. m + 1 \in 0..n /\ m + 1 # 0 /\ (m + 1) - 1 = m
      BY <2>1, <1>1
    <3> QED BY <3>1, <1>3
  <2>7. PICK s \in Seq(Nat) : s = g[m]
    BY <2>2
  <2>8. CASE e > 0
    <3>1. g[m + 1] = Append(s, e)
      BY <2>3, <2>6, <2>7, <2>8 DEF KeptNext
    <3>2. Append(s, e) \in Seq(Nat) /\ SumFunction(Append(s, e)) = SumFunction(s) + e
      BY SumAppend
    <3>3. AllPositive(Append(s, e))
      <4>1. AllPositive(s)
        BY <2>2, <2>7
      <4>2. ASSUME NEW i \in 1..Len(Append(s, e)) PROVE Append(s, e)[i] > 0
        <5>1. Len(Append(s, e)) = Len(s) + 1 /\ Len(s) \in Nat
          OBVIOUS
        <5>2. CASE i = Len(s) + 1
          BY <5>2, <2>8
        <5>3. CASE i # Len(s) + 1
          <6>1. i \in 1..Len(s)
            BY <5>1, <5>3
          <6>2. Append(s, e)[i] = s[i]
            BY <6>1
          <6> QED BY <6>1, <6>2, <4>1 DEF AllPositive
        <5> QED BY <5>2, <5>3
      <4> QED BY <4>2 DEF AllPositive
    <3> QED BY <2>2, <2>5, <2>7, <3>1, <3>2, <3>3
  <2>9. CASE ~(e > 0)
    <3>1. g[m + 1] = g[m] /\ e = 0
      BY <2>3, <2>6, <2>9 DEF KeptNext
    <3> QED BY <2>2, <2>5, <3>1
  <2> QED BY <2>8, <2>9
<1>6. Nat \subseteq I
  <2> HIDE DEF I
  <2> QED BY <1>4, <1>5, SetInd
<1>7. Holds(n)
  BY <1>1, <1>6
<1>8. SumFunction(values) \in Nat
  <2>1. NatOn(values, 1..n)
    BY <1>1 DEF NatOn
  <2>2. IsFiniteSet(1..n)
    BY FS_Interval
  <2> QED BY <1>1, <2>1, <2>2, SumType DEF SumFunction
<1> QED BY <1>1, <1>2, <1>7, <1>8, PositiveIs DEF SumFunction

\* split_by_weight pays exactly the amount, whatever the weights.
LEMMA SplitSums ==
    ASSUME NEW total \in Nat, NEW w \in Seq(Nat), SumFunction(w) > 0
    PROVE  /\ SplitByWeight(total, w) \in Seq(Nat)
           /\ SumFunction(SplitByWeight(total, w)) = total
           /\ AllPositive(SplitByWeight(total, w))
<1>1. PICK n \in Nat : n = Len(w)
  OBVIOUS
<1>2. PICK whole, frac : whole = Whole(total, w) /\ frac = Fraction(total, w)
  OBVIOUS
<1>3. PICK b : b = SumFunction(whole)
  OBVIOUS
<1>4. whole \in [1..n -> Nat] /\ frac \in [1..n -> Nat] /\ b \in Nat /\ total - b \in 0..n
  BY <1>1, <1>2, <1>3, SplitLeft
<1>5. PICK left \in Nat : left = total - b /\ left <= n
  BY <1>4
<1>6. PICK extra : extra = [i \in 1..n |-> ExtraTo(frac, left, i)]
  OBVIOUS
<1>7. PICK values : values = [i \in 1..n |-> whole[i] + ExtraTo(frac, left, i)]
  OBVIOUS
<1>8. /\ \A i \in 1..n : extra[i] \in {0, 1} /\ values[i] = whole[i] + extra[i] /\ whole[i] \in Nat
      /\ values \in [1..n -> Nat]
  BY <1>4, <1>6, <1>7 DEF ExtraTo
<1>9. IsFiniteSet(1..n) /\ NatOn(whole, 1..n) /\ NatOn(extra, 1..n)
  <2>1. IsFiniteSet(1..n)
    BY FS_Interval
  <2> QED BY <2>1, <1>8 DEF NatOn
<1>10. SumFunctionOnSet(extra, 1..n) = left
  <2>1. Ones(extra, 1..n) = {i \in 1..n : Cardinality(Ahead(frac, i)) < left}
    BY <1>6 DEF Ones, ExtraTo
  <2>2. Cardinality({i \in 1..n : Cardinality(Ahead(frac, i)) < left}) = left
    BY <1>4, <1>5, Ranked
  <2>3. SumFunctionOnSet(extra, 1..n) = Cardinality(Ones(extra, 1..n))
    BY <1>8, <1>9, SumOnes
  <2> QED BY <2>1, <2>2, <2>3
<1>11. SumFunctionOnSet(values, 1..n)
         = SumFunctionOnSet(whole, 1..n) + SumFunctionOnSet(extra, 1..n)
  BY <1>8, <1>9, SumPlus
<1>12. SumFunctionOnSet(whole, 1..n) = b
  <2>1. DOMAIN whole = 1..n
    BY <1>4
  <2> QED BY <1>3, <2>1 DEF SumFunction
<1>13. SumFunction(values) = total
  <2>1. DOMAIN values = 1..n
    BY <1>8
  <2>2. SumFunction(values) = b + left
    BY <1>10, <1>11, <1>12, <2>1 DEF SumFunction
  <2> QED BY <2>2, <1>4, <1>5
<1>14. values \in Seq(Nat)
  BY <1>8
<1>15. SplitByWeight(total, w) = Positive(values)
  BY <1>1, <1>2, <1>3, <1>5, <1>7 DEF SplitByWeight
<1> QED BY <1>13, <1>14, <1>15, PositiveSums

------------------------------------------------------------------------------
\* The earliest time of the next block is a time.
Under(last, m, t) == {i \in 1..m : last[i] < t}
NotOver(last, m, t) == {i \in 1..m : last[i] <= t}
\* A window of times has a median.
LEMMA MedianExists ==
    ASSUME NEW m \in Nat \ {0}, NEW last \in [1..m -> Nat], NEW half \in Nat, half < m
    PROVE  \E t \in {last[i] : i \in 1..m} :
              Cardinality(Under(last, m, t)) <= half /\ half < Cardinality(NotOver(last, m, t))
<1>1. \A t : /\ IsFiniteSet(Under(last, m, t)) /\ Cardinality(Under(last, m, t)) \in Nat
             /\ IsFiniteSet(NotOver(last, m, t)) /\ Cardinality(NotOver(last, m, t)) \in Nat
  <2>1. IsFiniteSet(1..m)
    BY FS_Interval
  <2>2. \A t : Under(last, m, t) \subseteq 1..m /\ NotOver(last, m, t) \subseteq 1..m
    BY DEF Under, NotOver
  <2> QED BY <2>1, <2>2, FS_Subset, FS_CardinalityType
<1>2. PICK values : values = {last[i] : i \in 1..m}
  OBVIOUS
<1>3. values \subseteq Nat /\ values # {}
  <2>1. 1 \in 1..m
    OBVIOUS
  <2> QED BY <2>1, <1>2
<1>4. PICK high : high = {t \in values : half < Cardinality(NotOver(last, m, t))}
  OBVIOUS
<1>5. \E N \in Nat : values \subseteq 0..N
  <2> DEFINE I == {k \in Nat : k <= m => \E N \in Nat : \A i \in 1..k : last[i] <= N}
  <2>1. 0 \in I
    <3>1. \A i \in 1..0 : last[i] <= 0
      OBVIOUS
    <3> QED BY <3>1
  <2>2. ASSUME NEW k \in Nat, k \in I PROVE k + 1 \in I
    <3>1. SUFFICES ASSUME k + 1 <= m PROVE \E N \in Nat : \A i \in 1..(k + 1) : last[i] <= N
      OBVIOUS
    <3>2. PICK N \in Nat : \A i \in 1..k : last[i] <= N
      BY <2>2, <3>1
    <3>3. PICK x \in Nat : x = last[k + 1]
      BY <3>1
    <3>4. PICK M \in Nat : N <= M /\ x <= M
      <4>1. N + x \in Nat /\ N <= N + x /\ x <= N + x
        OBVIOUS
      <4> QED BY <4>1
    <3>5. ASSUME NEW i \in 1..(k + 1) PROVE last[i] <= M
      <4>1. CASE i = k + 1
        BY <4>1, <3>3, <3>4
      <4>2. CASE i # k + 1
        <5>1. i \in 1..k /\ i \in 1..m
          BY <4>2, <3>1
        <5>2. last[i] \in Nat /\ last[i] <= N
          BY <5>1, <3>2
        <5> QED BY <5>2, <3>4
      <4> QED BY <4>1, <4>2
    <3> QED BY <3>5
  <2>3. Nat \subseteq I
    <3> HIDE DEF I
    <3> QED BY <2>1, <2>2, SetInd
  <2>4. PICK N \in Nat : \A i \in 1..m : last[i] <= N
    <3>1. m \in I
      BY <2>3
    <3> QED BY <3>1
  <2>5. values \subseteq 0..N
    BY <2>4, <1>2
  <2> QED BY <2>5
<1>6. high # {}
  <2>1. PICK N \in Nat : values \subseteq 0..N
    BY <1>5
  <2>2. PICK top \in values : \A v \in values : top >= v
    BY <2>1, <1>3, GreatestExists
  <2>3. NotOver(last, m, top) = 1..m
    <3>1. ASSUME NEW i \in 1..m PROVE last[i] <= top
      <4>1. last[i] \in values /\ last[i] \in Nat /\ top \in Nat
        BY <1>2, <1>3
      <4> QED BY <4>1, <2>2
    <3> QED BY <3>1 DEF NotOver
  <2>4. Cardinality(1..m) = m
    BY FS_Interval
  <2> QED BY <2>2, <2>3, <2>4, <1>4
<1>7. PICK t \in high : \A u \in high : t <= u
  BY <1>3, <1>4, <1>6, LeastExists
<1>8. t \in values /\ t \in Nat /\ half < Cardinality(NotOver(last, m, t))
  BY <1>3, <1>4
<1>9. ASSUME Cardinality(Under(last, m, t)) > half PROVE FALSE
  <2>1. PICK less : less = {v \in values : v < t}
    OBVIOUS
  <2>2. less \subseteq 0..t
    <3>1. ASSUME NEW v \in less PROVE v \in 0..t
      <4>1. v \in Nat /\ v < t
        BY <2>1, <1>3
      <4> QED BY <4>1, <1>8
    <3> QED BY <3>1
  <2>3. less # {}
    <3>1. Under(last, m, t) # {}
      <4>1. Cardinality(Under(last, m, t)) # 0
        BY <1>9, <1>1
      <4> QED BY <4>1, FS_EmptySet
    <3>2. PICK i \in Under(last, m, t) : TRUE
      BY <3>1
    <3>3. last[i] \in less
      BY <2>1, <1>2 DEF Under
    <3> QED BY <3>3
  <2>4. PICK u \in less : \A v \in less : u >= v
    BY <2>2, <2>3, <1>8, GreatestExists
  <2>5. NotOver(last, m, u) = Under(last, m, t)
    <3>1. u \in Nat /\ u < t
      BY <2>1, <1>3
    <3>2. ASSUME NEW i \in 1..m PROVE last[i] <= u <=> last[i] < t
      <4>1. last[i] \in Nat /\ last[i] \in values
        BY <1>2
      <4>2. last[i] < t => last[i] <= u
        BY <4>1, <2>1, <2>4, <3>1
      <4> QED BY <4>1, <4>2, <3>1, <1>8
    <3> QED BY <3>2 DEF NotOver, Under
  <2>6. u \in high
    BY <2>1, <2>5, <1>4, <1>9
  <2>7. t <= u /\ u < t /\ u \in Nat
    BY <2>1, <2>6, <1>3, <1>7
  <2> QED BY <2>7, <1>8
<1>10. Cardinality(Under(last, m, t)) <= half
  BY <1>1, <1>9
<1> QED BY <1>2, <1>8, <1>10

\* The floor of a chain of times, and the next earliest time, are times.
LEMMA FloorIsTime ==
    ASSUME MedianWindow \in Nat \ {0}, NEW times \in Seq(Nat), times # <<>>
    PROVE  TimeFloor(times) \in Nat /\ MinNextTime(times) \in Nat
<1>1. PICK n \in Nat : n = Len(times) /\ n > 0
  OBVIOUS
<1>2. CASE n < MedianWindow
  BY <1>1, <1>2 DEF TimeFloor, MinNextTime
<1>3. CASE ~(n < MedianWindow)
  <2>1. PICK m \in Nat \ {0} : m = MedianWindow
    OBVIOUS
  <2>2. PICK half : half = m \div 2
    OBVIOUS
  <2>3. half \in Nat /\ half < m
    BY <2>1, <2>2
  <2>4. PICK last : last = SubSeq(times, n - m + 1, n)
    OBVIOUS
  <2>5. last \in [1..m -> Nat]
    <3>1. n - m + 1 \in 1..(n + 1) /\ n - (n - m + 1) + 1 = m
      BY <1>1, <1>3, <2>1
    <3>2. last \in Seq(Nat) /\ Len(last) = m
      BY <3>1, <2>4, <1>1
    <3> QED BY <3>2
  <2>6. \E t \in {last[i] : i \in 1..m} :
           Cardinality(Under(last, m, t)) <= half /\ half < Cardinality(NotOver(last, m, t))
    BY <2>3, <2>5, MedianExists
  <2>7. TimeFloor(times) =
          CHOOSE t \in {last[i] : i \in 1..m} :
             Cardinality(Under(last, m, t)) <= half /\ half < Cardinality(NotOver(last, m, t))
    BY <1>1, <1>3, <2>1, <2>2, <2>4 DEF TimeFloor, Under, NotOver
  <2>8. TimeFloor(times) \in {last[i] : i \in 1..m}
    BY <2>6, <2>7
  <2>9. TimeFloor(times) \in Nat
    BY <2>5, <2>8
  <2> QED BY <2>9 DEF MinNextTime
<1> QED BY <1>2, <1>3

\* The times of a sound chain.
LEMMA SoundTimes ==
    ASSUME NEW c, SoundChain(c)
    PROVE  TimesOf(c) \in Seq(Nat) /\ TimesOf(c) # <<>>
<1>1. Len(c) \in Nat /\ WellTimed(c)
  BY ChainLen, SoundWellTimed DEF SoundChain
<1>2. PICK d : d = [i \in 1..Len(c) |-> c[i].time]
  OBVIOUS
<1>3. d \in Seq(Nat)
  BY <1>1, <1>2 DEF WellTimed
<1>4. <<0>> \in Seq(Nat) /\ Len(<<0>>) = 1
  OBVIOUS
<1>5. <<0>> \o d \in Seq(Nat) /\ Len(<<0>> \o d) = 1 + Len(d)
  BY <1>3, <1>4, ConcatProperties
<1>6. Len(d) \in Nat /\ 1 + Len(d) # 0
  BY <1>3
<1> QED BY <1>2, <1>5, <1>6 DEF TimesOf

------------------------------------------------------------------------------
\* The least and the greatest of a finite set of numbers.
LEMMA MinIs ==
    ASSUME NEW T, T \subseteq Nat, T # {}
    PROVE  Min(T) \in T
BY LeastExists DEF Min

\* The same for the greatest, of a bounded set.
LEMMA MaxIs ==
    ASSUME NEW N \in Nat, NEW T, T \subseteq 0..N, T # {}
    PROVE  Max(T) \in T
BY GreatestExists DEF Max

\* A feed of headers that build on the ones below them; a run of such headers.
FeedLinks(feed) ==
    \A h \in DOMAIN feed : feed[h].link \in Links /\ LinkPrev[feed[h].link] = feed[h].below
RunLinks(run) == run.links \in Seq(Links) /\ RunVerifies(run)
IsRun(run) == run = [prev |-> run.prev, links |-> run.links] /\ RunLinks(run)

\* A feed of a linked run is linked.
LEMMA FedByRun ==
    ASSUME NEW run, run.start \in Nat, RunLinks(run)
    PROVE  FeedLinks(FeedWith(EmptyFeed, run, TRUE))
<1>1. PICK n, s : n = Len(run.links) /\ s = run.start
  OBVIOUS
<1>2. n \in Nat /\ s \in Nat /\ \A i \in 1..n : run.links[i] \in Links
  BY <1>1 DEF RunLinks
<1>3. PICK new : new = [h \in s..(s + n - 1) |->
            LET i == h - s + 1
            IN  [below |-> IF i = 1 THEN run.prev ELSE run.links[i - 1],
                 link |-> run.links[i]]]
  OBVIOUS
<1>4. PICK feed : feed = FeedWith(EmptyFeed, run, TRUE)
  OBVIOUS
<1>5. feed = [h \in DOMAIN EmptyFeed \cup DOMAIN new |->
                IF h \in DOMAIN new THEN new[h] ELSE EmptyFeed[h]]
  BY <1>1, <1>3, <1>4 DEF FeedWith
<1>6. DOMAIN EmptyFeed = {} /\ DOMAIN new = s..(s + n - 1)
  BY <1>3 DEF EmptyFeed
<1>7. DOMAIN feed = s..(s + n - 1) /\ \A h \in s..(s + n - 1) : feed[h] = new[h]
  BY <1>5, <1>6
<1>8. ASSUME NEW h \in s..(s + n - 1)
      PROVE  feed[h].link \in Links /\ LinkPrev[feed[h].link] = feed[h].below
  <2>1. PICK i : i = h - s + 1
    OBVIOUS
  <2>2. i \in 1..n
    BY <2>1, <1>2
  <2>3. feed[h] = [below |-> IF i = 1 THEN run.prev ELSE run.links[i - 1], link |-> run.links[i]]
    BY <2>1, <1>3, <1>7
  <2>4. LinkPrev[run.links[i]] = IF i = 1 THEN run.prev ELSE run.links[i - 1]
    BY <2>2, <1>1 DEF RunLinks, RunVerifies
  <2> QED BY <2>2, <2>3, <2>4, <1>2
<1> QED BY <1>4, <1>7, <1>8 DEF FeedLinks

\* The run from a height on is linked.
LEMMA RunFromIs ==
    ASSUME NEW feed, FeedLinks(feed), NEW start \in Nat, start \in DOMAIN feed
    PROVE  IsRun(RunFrom(feed, start))
<1> DEFINE goesOn(n) == \A i \in 1..n :
              /\ start + i \in DOMAIN feed
              /\ feed[start + i].below = feed[start + i - 1].link
<1>1. PICK T : T = {n \in 0..(MaxRelay - 1) : goesOn(n)}
  OBVIOUS
<1>2. MaxRelay - 1 \in Nat /\ T \subseteq 0..(MaxRelay - 1) /\ 0 \in T
  <2>1. MaxRelay - 1 \in Nat
    BY RelayAssumption
  <2> QED BY <2>1, <1>1
<1>3. PICK last : last = Max(T)
  OBVIOUS
<1>4. last \in T
  BY <1>2, <1>3, MaxIs
<1>5. last \in Nat /\ goesOn(last)
  BY <1>1, <1>2, <1>4
<1>6. PICK links : links = [i \in 1..(last + 1) |-> feed[start + i - 1].link]
  OBVIOUS
<1>7. PICK run : run = RunFrom(feed, start)
  OBVIOUS
<1>8. run = [prev |-> feed[start].below, links |-> links]
  BY <1>1, <1>3, <1>6, <1>7 DEF RunFrom
<1>9. ASSUME NEW i \in 1..(last + 1) PROVE start + i - 1 \in DOMAIN feed
  <2>1. CASE i = 1
    <3>1. start + i - 1 = start
      BY <2>1
    <3> QED BY <3>1
  <2>2. CASE i # 1
    <3>1. i - 1 \in 1..last /\ start + (i - 1) = start + i - 1
      BY <2>2, <1>5
    <3> QED BY <3>1, <1>5
  <2> QED BY <2>1, <2>2
<1>10. links \in Seq(Links) /\ Len(links) = last + 1
  <2>1. links \in [1..(last + 1) -> Links]
    BY <1>6, <1>9 DEF FeedLinks
  <2> QED BY <2>1, <1>5
<1>11. ASSUME NEW n \in 1..(last + 1)
       PROVE  LinkPrev[links[n]] = IF n = 1 THEN feed[start].below ELSE links[n - 1]
  <2>1. links[n] = feed[start + n - 1].link
    BY <1>6
  <2>2. LinkPrev[links[n]] = feed[start + n - 1].below
    BY <2>1, <1>9 DEF FeedLinks
  <2>3. CASE n = 1
    <3>1. start + n - 1 = start
      BY <2>3
    <3> QED BY <3>1, <2>2, <2>3
  <2>4. CASE n # 1
    <3>1. n - 1 \in 1..last /\ n - 1 \in 1..(last + 1) /\ start + (n - 1) = start + n - 1
      BY <2>4, <1>5
    <3>2. feed[start + (n - 1)].below = feed[start + (n - 1) - 1].link
      BY <3>1, <1>5
    <3>3. links[n - 1] = feed[start + (n - 1) - 1].link
      BY <3>1, <1>6
    <3> QED BY <3>1, <3>2, <3>3, <2>2, <2>4
  <2> QED BY <2>3, <2>4
<1>12. run.links = links /\ run.prev = feed[start].below
  BY <1>8
<1>13. RunVerifies(run)
  BY <1>10, <1>11, <1>12 DEF RunVerifies
<1> QED BY <1>7, <1>8, <1>10, <1>12, <1>13 DEF RunLinks, IsRun

\* What a feed proposes to a relay is linked (next_for).
LEMMA NextForIs ==
    ASSUME NEW feed, FeedLinks(feed), NEW relay, IsRelay(relay), NextFor(feed, relay) # NoRun
    PROVE  IsRun(NextFor(feed, relay))
<1>1. PICK top, low : top = TipEntry(relay).height /\ low = BaseEntry(relay).height
  OBVIOUS
<1>2. top \in Nat /\ low \in Nat
  <2>1. TipEntry(relay) \in relay /\ BaseEntry(relay) \in relay
    BY TopIsTip, BottomIsBase DEF Top, Bottom
  <2> QED BY <2>1, <1>1, EntryType
<1>3. PICK forks : forks = {h \in (low + 1)..top : LeavesAt(feed, relay, h)}
  OBVIOUS
<1>4. CASE top + 1 \in DOMAIN feed /\ feed[top + 1].below = TipEntry(relay).hash
  <2>1. NextFor(feed, relay) = RunFrom(feed, top + 1)
    BY <1>1, <1>4 DEF NextFor
  <2>2. top + 1 \in Nat
    BY <1>2
  <2> QED BY <1>4, <2>1, <2>2, RunFromIs
<1>5. CASE ~(top + 1 \in DOMAIN feed /\ feed[top + 1].below = TipEntry(relay).hash) /\ forks # {}
  <2>1. NextFor(feed, relay) = RunFrom(feed, Max(forks))
    BY <1>1, <1>3, <1>5 DEF NextFor
  <2>2. forks \subseteq 0..top
    BY <1>2, <1>3
  <2>3. PICK h : h = Max(forks)
    OBVIOUS
  <2>4. h \in forks
    BY <1>2, <1>5, <2>2, <2>3, MaxIs
  <2>5. h \in Nat /\ h \in DOMAIN feed
    BY <1>3, <2>2, <2>4 DEF LeavesAt
  <2> QED BY <2>1, <2>3, <2>5, RunFromIs
<1>6. CASE ~(top + 1 \in DOMAIN feed /\ feed[top + 1].below = TipEntry(relay).hash) /\ forks = {}
  <2>1. NextFor(feed, relay) = NoRun
    BY <1>1, <1>3, <1>6 DEF NextFor
  <2> QED BY <2>1
<1> QED BY <1>4, <1>5, <1>6

\* Cut to the room and the clock, a run is still linked.
LEMMA TrimmedIs ==
    ASSUME NEW run, IsRun(run), NEW room \in Nat, NEW t
    PROVE  IsRun(Trimmed(run, room, t))
<1>1. PICK prev, links : prev = run.prev /\ links = run.links
  OBVIOUS
<1>2. links \in Seq(Links) /\ Len(links) \in Nat /\ run = [prev |-> prev, links |-> links]
  BY <1>1 DEF IsRun, RunLinks
<1>3. PICK early : early = {n \in 0..Least(Len(links), room) :
                              \A i \in 1..n : LinkTime[links[i]] <= t + RelayMaxFuture}
  OBVIOUS
<1>4. Least(Len(links), room) \in 0..Len(links)
  BY <1>2 DEF Least
<1>5. early \subseteq 0..Len(links) /\ 0 \in early
  BY <1>2, <1>3, <1>4
<1>6. PICK k : k = Max(early)
  OBVIOUS
<1>7. k \in 0..Len(links)
  BY <1>2, <1>5, <1>6, MaxIs
<1>8. PICK new : new = Trimmed(run, room, t)
  OBVIOUS
<1>9. new = [prev |-> prev, links |-> SubSeq(links, 1, k)]
  <2>1. new = [run EXCEPT !.links = SubSeq(@, 1, k)]
    BY <1>1, <1>3, <1>6, <1>8 DEF Trimmed
  <2> QED BY <2>1, <1>2
<1>10. PICK cut : cut = SubSeq(links, 1, k)
  OBVIOUS
<1>11. cut \in Seq(Links) /\ Len(cut) = k /\ \A i \in 1..k : cut[i] = links[i]
  BY <1>2, <1>7, <1>10
<1>12. new.links = cut /\ new.prev = prev
  BY <1>9, <1>10
<1>13. RunVerifies(new)
  <2>1. ASSUME NEW n \in 1..k
        PROVE  LinkPrev[cut[n]] = IF n = 1 THEN prev ELSE cut[n - 1]
    <3>1. n \in 1..Len(links) /\ cut[n] = links[n]
      BY <1>2, <1>7, <1>11
    <3>2. LinkPrev[links[n]] = IF n = 1 THEN prev ELSE links[n - 1]
      BY <3>1, <1>1 DEF IsRun, RunLinks, RunVerifies
    <3>3. n # 1 => n - 1 \in 1..k /\ cut[n - 1] = links[n - 1]
      BY <1>7, <1>11
    <3> QED BY <3>1, <3>2, <3>3
  <2> QED BY <2>1, <1>11, <1>12 DEF RunVerifies
<1> QED BY <1>8, <1>9, <1>10, <1>11, <1>12, <1>13 DEF IsRun, RunLinks

\* What a template relays is linked, and its relay takes it.
ProducerOk(producer) ==
    /\ IsChain(producer.bonds)
    /\ \A i \in 1..Len(producer.bonds) :
          LET bond == producer.bonds[i]
          IN  /\ Len(bond.regs) \in 0..1
              /\ bond.carries # NoRun => bond.carries.start \in Nat /\ RunLinks(bond.carries)

\* The run a template relays is linked, and the relay takes it (choose_relay).
LEMMA ChosenRun ==
    ASSUME NEW state, IsRelay(state.relay), NEW feed, FeedLinks(feed), NEW producer,
           ProducerOk(producer), NEW room \in Nat, NEW t, NEW run,
           run = ChooseRelay(state, feed, producer, room, t), run # NoRun
    PROVE  IsRun(run) /\ ExtendAllowed(state.relay, run, t)
<1> DEFINE proposed(i) == NextFor(FeedOf(feed, producer, i), state.relay)
           cut(i) == Trimmed(proposed(i), room, t)
<1>1. PICK own : own = {i \in Pending(producer, state.bonds) : producer.bonds[i].carries # NoRun}
  OBVIOUS
<1>2. PICK fits : fits = {i \in {0} \cup own :
                            /\ proposed(i) # NoRun /\ cut(i).links # <<>>
                            /\ ExtendAllowed(state.relay, cut(i), t)}
  OBVIOUS
<1>3. run = IF fits = {} THEN NoRun ELSE cut(Min(fits))
  BY <1>1, <1>2 DEF ChooseRelay
<1>4. own \subseteq 1..Len(producer.bonds) /\ own \subseteq Nat
  BY <1>1, ChainLen DEF Pending, ProducerOk
<1>5. fits \subseteq Nat /\ fits # {}
  <2>1. fits \subseteq {0} \cup own
    BY <1>2
  <2>2. fits # {}
    BY <1>3
  <2> QED BY <2>1, <2>2, <1>4
<1>6. PICK i : i = Min(fits)
  OBVIOUS
<1>7. i \in fits
  BY <1>5, <1>6, MinIs
<1>8. run = cut(i) /\ proposed(i) # NoRun /\ ExtendAllowed(state.relay, cut(i), t)
  BY <1>2, <1>3, <1>5, <1>6, <1>7
<1>9. FeedLinks(FeedOf(feed, producer, i))
  <2>1. CASE i = 0
    BY <2>1 DEF FeedOf
  <2>2. CASE i # 0
    <3>1. i \in own /\ i \in 1..Len(producer.bonds) /\ producer.bonds[i].carries # NoRun
      BY <2>2, <1>1, <1>2, <1>4, <1>7
    <3>2. producer.bonds[i].carries.start \in Nat /\ RunLinks(producer.bonds[i].carries)
      BY <3>1 DEF ProducerOk
    <3> QED BY <2>2, <3>2, FedByRun DEF FeedOf
  <2> QED BY <2>1, <2>2
<1>10. IsRun(proposed(i))
  BY <1>8, <1>9, NextForIs
<1>11. IsRun(cut(i))
  BY <1>10, TrimmedIs
<1> QED BY <1>8, <1>11

------------------------------------------------------------------------------
\* Cross-multiplied fractions are ordered.
LEMMA Cross ==
    ASSUME NEW a \in Nat, NEW b \in Nat, NEW c \in Nat,
           NEW p \in Nat \ {0}, NEW q \in Nat \ {0}, NEW r \in Nat \ {0},
           a * q <= b * p, b * r <= c * q
    PROVE  a * r <= c * p
<1>1. (a * q) * r <= (b * p) * r
  <2>1. ASSUME NEW x \in Nat, NEW y \in Nat, x <= y PROVE x * r <= y * r
    BY <2>1
  <2>2. a * q \in Nat /\ b * p \in Nat
    OBVIOUS
  <2> QED BY <2>1, <2>2
<1>2. (b * r) * p <= (c * q) * p
  <2>1. ASSUME NEW x \in Nat, NEW y \in Nat, x <= y PROVE x * p <= y * p
    BY <2>1
  <2>2. b * r \in Nat /\ c * q \in Nat
    OBVIOUS
  <2> QED BY <2>1, <2>2
<1>3. (b * p) * r = (b * r) * p
  OBVIOUS
<1>4. (a * q) * r = (a * r) * q /\ (c * q) * p = (c * p) * q
  OBVIOUS
<1>5. ASSUME NEW x \in Nat, NEW y \in Nat, x * q <= y * q PROVE x <= y
  <2>1. ASSUME y + 1 <= x PROVE FALSE
    <3>1. (y + 1) * q <= x * q
      BY <2>1
    <3>2. (y + 1) * q = y * q + q
      OBVIOUS
    <3>3. y * q \in Nat /\ x * q \in Nat
      OBVIOUS
    <3> QED BY <3>1, <3>2, <3>3, <1>5
  <2> QED BY <2>1
<1>6. a * r \in Nat /\ c * p \in Nat
  OBVIOUS
<1>7. ASSUME NEW u \in Int, NEW v \in Int, NEW w \in Int, NEW x \in Int, u <= v, w <= x, v = w
      PROVE  u <= x
  BY <1>7
<1>8. (a * q) * r \in Int /\ (b * p) * r \in Int /\ (b * r) * p \in Int /\ (c * q) * p \in Int
  OBVIOUS
<1>9. (a * r) * q <= (c * p) * q
  BY <1>1, <1>2, <1>3, <1>4, <1>7, <1>8
<1> QED BY <1>5, <1>6, <1>9

\* What the mempool and the run offer.
TxOk(tx) == FiniteBody(tx) /\ tx.fee \in Nat
TxsOk(txs) == IsFiniteSet(txs) /\ \A tx \in txs : TxOk(tx)
WeightsOk ==
    /\ MaxBlockWeight \in Nat /\ InputWeight \in Nat /\ OutputWeight \in Nat
    /\ KernelWeight \in Nat /\ RegistrationWeight \in Nat /\ HeaderWeight \in Nat \ {0}

\* A body's weight is a natural.
LEMMA BodyWeightIs ==
    ASSUME WeightsOk, NEW b, FiniteBody(b)
    PROVE  BodyWeight(b) \in Nat
<1>1. PICK x, y, z : x = Cardinality(b.spends) /\ y = Cardinality(OutputsOf(b)) /\ z = Cardinality(b.kernels)
  OBVIOUS
<1>2. x \in Nat /\ y \in Nat /\ z \in Nat
  BY <1>1, FS_CardinalityType DEF FiniteBody
<1>3. InputWeight * x \in Nat /\ OutputWeight * y \in Nat /\ KernelWeight * z \in Nat
  BY <1>2 DEF WeightsOk
<1>4. ASSUME NEW k \in Nat, NEW l \in Nat, NEW m \in Nat PROVE k + l + m \in Nat
  OBVIOUS
<1> QED BY <1>1, <1>3, <1>4 DEF BodyWeight

\* Of finitely many transactions one pays least for its weight.
LEMMA WorstExists ==
    ASSUME WeightsOk, NEW S, TxsOk(S)
    PROVE  \A T \in SUBSET S : T # {} => PaysLeast(T) \in T
<1> DEFINE Worst(T) == \E tx \in T : \A other \in T : NoBetter(tx, other)
           Q == {T \in SUBSET S : T # {} => Worst(T)}
           heavy(tx) == Most(BodyWeight(tx), 1)
<1>1. \A tx \in S : tx.fee \in Nat /\ heavy(tx) \in Nat \ {0}
  <2>1. ASSUME NEW tx \in S PROVE tx.fee \in Nat /\ BodyWeight(tx) \in Nat
    BY BodyWeightIs DEF TxsOk, TxOk
  <2> QED BY <2>1 DEF Most
<1>2. {} \in Q
  OBVIOUS
<1>3. ASSUME NEW T \in SUBSET S, NEW x \in S, T \in Q, x \notin T PROVE T \cup {x} \in Q
  <2>1. PICK U : U = T \cup {x}
    OBVIOUS
  <2>2. PICK a \in Nat, p \in Nat \ {0} : a = x.fee /\ p = heavy(x)
    BY <1>1
  <2>3. NoBetter(x, x)
    <3>1. a * p <= a * p
      OBVIOUS
    <3> QED BY <2>2, <3>1 DEF NoBetter
  <2>4. CASE T = {}
    BY <2>1, <2>3, <2>4
  <2>5. CASE T # {}
    <3>1. PICK m \in T : \A other \in T : NoBetter(m, other)
      BY <2>5, <1>3
    <3>2. PICK b \in Nat, q \in Nat \ {0} : b = m.fee /\ q = heavy(m)
      BY <1>1
    <3>3. CASE b * p <= a * q
      <4>1. NoBetter(m, x)
        BY <3>2, <3>3, <2>2 DEF NoBetter
      <4> QED BY <2>1, <3>1, <4>1
    <3>4. CASE ~(b * p <= a * q)
      <4>1. a * q <= b * p
        <5>1. a * q \in Int /\ b * p \in Int
          OBVIOUS
        <5>2. ASSUME NEW k \in Int, NEW l \in Int, ~(k <= l) PROVE l <= k
          BY <5>2
        <5> QED BY <3>4, <5>1, <5>2
      <4>2. ASSUME NEW y \in T PROVE NoBetter(x, y)
        <5>1. PICK c \in Nat, r \in Nat \ {0} : c = y.fee /\ r = heavy(y)
          BY <1>1
        <5>2. b * r <= c * q
          BY <3>1, <3>2, <5>1 DEF NoBetter
        <5>3. a * r <= c * p
          BY <4>1, <5>2, Cross
        <5> QED BY <2>2, <5>1, <5>3 DEF NoBetter
      <4> QED BY <2>1, <2>3, <4>2
    <3> QED BY <3>3, <3>4
  <2> QED BY <2>1, <2>4, <2>5
<1>4. \A T \in SUBSET S : T \in Q
  <2> HIDE DEF Q
  <2>1. IsFiniteSet(S)
    BY DEF TxsOk
  <2> QED BY <2>1, <1>2, <1>3, SubsetInd
<1>5. ASSUME NEW T \in SUBSET S, T # {} PROVE PaysLeast(T) \in T
  <2>1. Worst(T)
    BY <1>4, <1>5
  <2> QED BY <2>1 DEF PaysLeast
<1> QED BY <1>5

\* What is selected is among what was offered.
SelectNext(chosen, tx, height, budget) ==
    IF FitsWith(chosen, tx, height, budget) THEN chosen \cup {tx} ELSE chosen
Selecting(S, height, budget) ==
    CHOOSE g : g = [s \in SUBSET S |->
                      IF s = {} THEN {}
                      ELSE SelectNext(g[s \ {PaysLeast(s)}], PaysLeast(s), height, budget)]
\* Selecting, as a fold an element at a time.
LEMMA SelectIs ==
    ASSUME NEW S, NEW height, NEW budget
    PROVE  SelectTransactions(S, height, budget) = Selecting(S, height, budget)[S]
BY DEF SelectTransactions, MapThenFoldSet, Selecting, SelectNext

\* The transactions selected are among those offered.
LEMMA SelectedFrom ==
    ASSUME WeightsOk, NEW S, TxsOk(S), NEW height, NEW budget
    PROVE  /\ SelectTransactions(S, height, budget) \subseteq S
           /\ TxsOk(SelectTransactions(S, height, budget))
<1> DEFINE Eq(g) == g = [s \in SUBSET S |->
                      IF s = {} THEN {}
                      ELSE SelectNext(g[s \ {PaysLeast(s)}], PaysLeast(s), height, budget)]
<1>1. \A T \in SUBSET S : T # {} => PaysLeast(T) \in T
  BY WorstExists
<1>2. IsFiniteSet(S)
  BY DEF TxsOk
<1>3. PICK first, step : /\ first = [s \in SUBSET S |-> PaysLeast(s)]
                         /\ step = [p \in S \X SUBSET S |-> SelectNext(p[2], p[1], height, budget)]
  OBVIOUS
<1>4. ASSUME NEW x \in S, NEW v \in SUBSET S
      PROVE  step[<<x, v>>] = SelectNext(v, x, height, budget) /\ step[<<x, v>>] \in SUBSET S
  <2>1. step[<<x, v>>] = SelectNext(v, x, height, budget)
    BY <1>3
  <2>2. SelectNext(v, x, height, budget) \subseteq S
    BY DEF SelectNext
  <2> QED BY <2>1, <2>2
<1>5. PICK g \in [SUBSET S -> SUBSET S] : FoldedBy(g, S, {}, first, step)
  <2>1. \A s \in SUBSET S : s # {} => first[s] \in s
    BY <1>1, <1>3
  <2>2. \A x \in S : \A v \in SUBSET S : step[<<x, v>>] \in SUBSET S
    BY <1>4
  <2>3. {} \in SUBSET S
    OBVIOUS
  <2> QED BY <2>1, <2>2, <2>3, <1>2, FoldExists
<1>6. Eq(g)
  <2>1. ASSUME NEW s \in SUBSET S
        PROVE  g[s] = IF s = {} THEN {}
                      ELSE SelectNext(g[s \ {PaysLeast(s)}], PaysLeast(s), height, budget)
    <3>1. CASE s = {}
      BY <3>1, <1>5 DEF FoldedBy
    <3>2. CASE s # {}
      <4>1. PICK x : x = PaysLeast(s)
        OBVIOUS
      <4>2. x = first[s] /\ x \in S /\ s \ {x} \in SUBSET S
        BY <3>2, <4>1, <1>1, <1>3
      <4>3. g[s] = step[<<x, g[s \ {x}]>>]
        BY <3>2, <4>2, <1>5 DEF FoldedBy
      <4>4. g[s \ {x}] \in SUBSET S
        BY <4>2
      <4>5. step[<<x, g[s \ {x}]>>] = SelectNext(g[s \ {x}], x, height, budget)
        BY <4>2, <4>4, <1>4
      <4> QED BY <3>2, <4>1, <4>3, <4>5
    <3> QED BY <3>1, <3>2
  <2> QED BY <2>1
<1>7. PICK h : h = Selecting(S, height, budget)
  OBVIOUS
<1>8. Eq(h)
  BY <1>6, <1>7 DEF Selecting
<1>9. \A s \in SUBSET S : h[s] \subseteq S
  <2> DEFINE N == {n \in Nat : \A s \in SUBSET S : Cardinality(s) = n => h[s] \subseteq S}
  <2>1. \A s \in SUBSET S : IsFiniteSet(s) /\ Cardinality(s) \in Nat
    BY <1>2, FS_Subset, FS_CardinalityType
  <2>2. 0 \in N
    <3>1. ASSUME NEW s \in SUBSET S, Cardinality(s) = 0 PROVE h[s] \subseteq S
      <4>1. s = {}
        BY <3>1, <2>1, FS_EmptySet
      <4> QED BY <4>1, <1>8
    <3> QED BY <3>1
  <2>3. ASSUME NEW n \in Nat, n \in N PROVE n + 1 \in N
    <3>1. ASSUME NEW s \in SUBSET S, Cardinality(s) = n + 1 PROVE h[s] \subseteq S
      <4>1. s # {}
        <5>1. n + 1 # 0
          OBVIOUS
        <5> QED BY <5>1, <3>1, FS_EmptySet
      <4>2. PICK x : x = PaysLeast(s)
        OBVIOUS
      <4>3. x \in s /\ x \in S /\ s \ {x} \in SUBSET S
        BY <4>1, <4>2, <1>1
      <4>4. Cardinality(s \ {x}) = n
        <5>1. Cardinality(s \ {x}) = Cardinality(s) - 1
          BY <4>3, <2>1, FS_RemoveElement
        <5> QED BY <5>1, <3>1
      <4>5. h[s \ {x}] \subseteq S
        BY <4>3, <4>4, <2>3
      <4>6. h[s] = SelectNext(h[s \ {x}], x, height, budget)
        BY <4>1, <4>2, <1>8
      <4> QED BY <4>3, <4>5, <4>6 DEF SelectNext
    <3> QED BY <3>1
  <2>4. Nat \subseteq N
    <3> HIDE DEF N
    <3> QED BY <2>2, <2>3, SetInd
  <2> QED BY <2>1, <2>4
<1>10. SelectTransactions(S, height, budget) \subseteq S
  <2>1. S \in SUBSET S
    OBVIOUS
  <2>2. h[S] \subseteq S
    BY <2>1, <1>9
  <2> QED BY <2>2, <1>7, SelectIs
<1> QED BY <1>10, <1>2, FS_Subset DEF TxsOk

------------------------------------------------------------------------------
\* Finitely many finite sets.
LEMMA UnionFinite ==
    ASSUME NEW S, IsFiniteSet(S), NEW f, \A x \in S : IsFiniteSet(f[x])
    PROVE  IsFiniteSet(UNION {f[x] : x \in S})
<1> DEFINE Q == {T \in SUBSET S : IsFiniteSet(UNION {f[x] : x \in T})}
<1>1. {} \in Q
  <2>1. UNION {f[x] : x \in {}} = {}
    OBVIOUS
  <2> QED BY <2>1, FS_EmptySet
<1>2. ASSUME NEW T \in SUBSET S, NEW y \in S, T \in Q, y \notin T
      PROVE  T \cup {y} \in Q
  <2>1. UNION {f[x] : x \in T \cup {y}} = (UNION {f[x] : x \in T}) \cup f[y]
    OBVIOUS
  <2>2. IsFiniteSet(UNION {f[x] : x \in T}) /\ IsFiniteSet(f[y])
    BY <1>2
  <2>3. IsFiniteSet((UNION {f[x] : x \in T}) \cup f[y])
    BY <2>2, FS_Union
  <2> QED BY <2>1, <2>3
<1>3. \A T \in SUBSET S : \A x \in S : T \in Q /\ x \notin T => T \cup {x} \in Q
  BY <1>2
<1> HIDE DEF Q
<1>4. \A T \in SUBSET S : T \in Q
  BY <1>1, <1>3, SubsetInd
<1>5. S \in Q
  BY <1>4
<1> QED BY <1>5 DEF Q

\* What is aggregated is a body.
LEMMA AggregateIs ==
    ASSUME NEW txs, TxsOk(txs)
    PROVE  Aggregate(txs).fees \in Nat /\ FiniteBody(Aggregate(txs))
<1> DEFINE fee == [tx \in txs |-> tx.fee]
           spends == [tx \in txs |-> tx.spends]
           kernels == [tx \in txs |-> tx.kernels]
           outputs == [tx \in txs |-> OutputsOf(tx)]
<1>1. IsFiniteSet(txs) /\ \A tx \in txs : FiniteBody(tx) /\ tx.fee \in Nat
  BY DEF TxsOk, TxOk
<1>2. NatOn(fee, txs)
  BY <1>1 DEF NatOn
<1>3. SumFunction(fee) \in Nat
  <2>1. SumFunctionOnSet(fee, txs) \in Nat
    BY <1>1, <1>2, SumType
  <2>2. SumFunction(fee) = SumFunctionOnSet(fee, txs)
    BY DEF SumFunction
  <2> QED BY <2>1, <2>2
<1>4. Aggregate(txs).fees = SumFunction(fee)
  BY DEF Aggregate
<1>5. /\ \A tx \in txs : IsFiniteSet(spends[tx])
      /\ \A tx \in txs : IsFiniteSet(kernels[tx])
      /\ \A tx \in txs : IsFiniteSet(outputs[tx])
  BY <1>1 DEF FiniteBody
<1>6. /\ IsFiniteSet(UNION {spends[tx] : tx \in txs})
      /\ IsFiniteSet(UNION {kernels[tx] : tx \in txs})
      /\ IsFiniteSet(UNION {outputs[tx] : tx \in txs})
  <2> HIDE DEF spends, kernels, outputs
  <2> QED BY <1>1, <1>5, UnionFinite
<1>7. Aggregate(txs).spends = UNION {spends[tx] : tx \in txs}
  BY DEF Aggregate
<1>8. Aggregate(txs).kernels = UNION {kernels[tx] : tx \in txs}
  BY DEF Aggregate
<1>9. OutputsOf(Aggregate(txs)) = UNION {outputs[tx] : tx \in txs}
  <2>1. Aggregate(txs).groups = UNION {tx.groups : tx \in txs}
    BY DEF Aggregate
  <2>2. ASSUME NEW o \in UNION (UNION {tx.groups : tx \in txs})
        PROVE  o \in UNION {outputs[tx] : tx \in txs}
    BY DEF OutputsOf
  <2>3. ASSUME NEW o \in UNION {outputs[tx] : tx \in txs}
        PROVE  o \in UNION (UNION {tx.groups : tx \in txs})
    BY DEF OutputsOf
  <2>4. OutputsOf(Aggregate(txs)) = UNION (UNION {tx.groups : tx \in txs})
    BY <2>1 DEF OutputsOf
  <2> QED BY <2>2, <2>3, <2>4
<1> HIDE DEF fee, spends, kernels, outputs
<1> QED BY <1>3, <1>4, <1>6, <1>7, <1>8, <1>9 DEF FiniteBody

\* Whose bond a producer signs with.
CountsNat(counts) == \A s : CountOf(counts, s) \in Nat
CanSign(ids, key, bonds, t) ==
    {i \in 1..Len(ids) : \E b \in bonds : b.id = ids[i] /\ b.key = key /\ EligibleAt(b, t)}
SignsLeast(ids, counts, can, i) ==
    \A j \in can : \/ CountOf(counts, ids[i]) < CountOf(counts, ids[j])
                   \/ CountOf(counts, ids[i]) = CountOf(counts, ids[j]) /\ i <= j
\* Of the bonds that can sign, a first one has signed least.
LEMMA LeastSigner ==
    ASSUME NEW ids, NEW counts, CountsNat(counts), NEW can, can \subseteq Nat, can # {}
    PROVE  \E i \in can : SignsLeast(ids, counts, can, i)
<1> DEFINE N == {CountOf(counts, ids[i]) : i \in can}
<1>1. N \subseteq Nat /\ N # {}
  BY DEF CountsNat
<1>2. PICK n \in N : \A m \in N : n <= m
  <2> HIDE DEF N
  <2> QED BY <1>1, LeastExists
<1> DEFINE few == {i \in can : CountOf(counts, ids[i]) = n}
<1>3. few \subseteq Nat /\ few # {}
  BY <1>2
<1>4. PICK i \in few : \A j \in few : i <= j
  <2> HIDE DEF few
  <2> QED BY <1>3, LeastExists
<1>5. i \in can /\ CountOf(counts, ids[i]) = n /\ n \in Nat
  BY <1>1, <1>2, <1>4
<1>6. ASSUME NEW j \in can
      PROVE  \/ CountOf(counts, ids[i]) < CountOf(counts, ids[j])
             \/ CountOf(counts, ids[i]) = CountOf(counts, ids[j]) /\ i <= j
  <2>1. PICK m : m = CountOf(counts, ids[j])
    OBVIOUS
  <2>2. m \in N /\ m \in Nat /\ n <= m
    BY <1>1, <1>2, <2>1
  <2>3. CASE m = n
    <3>1. j \in few
      BY <2>1, <2>3
    <3> QED BY <1>4, <1>5, <2>1, <2>3, <3>1
  <2>4. CASE m # n
    <3>1. n < m
      BY <1>5, <2>2, <2>4
    <3> QED BY <1>5, <2>1, <3>1
  <2> QED BY <2>3, <2>4
<1> QED BY <1>5, <1>6 DEF SignsLeast

\* The signer a producer picks is one of the bonds that may sign (signer_for).
LEMMA SignerIs ==
    ASSUME NEW ids, Len(ids) \in Nat, NEW key, NEW bonds, NEW counts, CountsNat(counts), NEW t,
           NEW signer, signer = SignerFor(ids, key, bonds, counts, t)
    PROVE  \/ signer = NoSigner
           \/ \E b \in bonds : b.id = signer /\ EligibleAt(b, t)
<1> DEFINE can == CanSign(ids, key, bonds, t)
<1>1. can \subseteq Nat
  BY DEF CanSign
<1>2. CASE can = {}
  BY <1>2 DEF SignerFor, CanSign
<1>3. CASE can # {}
  <2>1. signer = ids[CHOOSE i \in can : SignsLeast(ids, counts, can, i)]
    BY <1>3 DEF SignerFor, CanSign, SignsLeast
  <2>2. \E i \in can : SignsLeast(ids, counts, can, i)
    <3> HIDE DEF can
    <3> QED BY <1>1, <1>3, LeastSigner
  <2>3. PICK i \in can : signer = ids[i]
    <3> HIDE DEF can
    <3> QED BY <2>1, <2>2
  <2>4. PICK b \in bonds : b.id = ids[i] /\ EligibleAt(b, t)
    BY <2>3 DEF CanSign
  <2> QED BY <2>3, <2>4
<1> QED BY <1>2, <1>3

\* The registration a template carries is one the chain would take.
LEMMA CarriedAreTaken ==
    ASSUME NEW producer, ProducerOk(producer), NEW after, NEW work, NEW t, NEW regs,
           regs = CarriedRegs(producer, after, work, t)
    PROVE  /\ Len(regs) \in 0..1
           /\ \A i \in 1..Len(regs) : TakenBy(after, regs[i], work, t)
<1>1. PICK N \in Nat : N = Len(producer.bonds)
  BY ChainLen DEF ProducerOk
<1>2. \A i \in 1..N : Len(producer.bonds[i].regs) \in 0..1
  BY <1>1 DEF ProducerOk
<1>3. producer.bonds # <<>> => 1 \in 1..N
  BY <1>1 DEF ProducerOk, IsChain
<1>4. CASE regs = <<>>
  BY <1>4
<1>5. ASSUME NEW i \in 1..N, regs = producer.bonds[i].regs, NEW j \in 1..Len(regs),
             TakenBy(after, regs[j], work, t)
      PROVE  /\ Len(regs) \in 0..1
             /\ \A k \in 1..Len(regs) : TakenBy(after, regs[k], work, t)
  <2>1. Len(regs) \in 0..1
    BY <1>2, <1>5
  <2>2. \A k \in 1..Len(regs) : k = 1
    BY <2>1
  <2> QED BY <2>1, <2>2, <1>5
<1>6. CASE ~NotReady(producer, after, work, t) /\ OwnWaits(producer, after, work, t)
  <2>1. 1 \in 1..N /\ regs = producer.bonds[1].regs
    BY <1>3, <1>6 DEF OwnWaits, CarriedRegs
  <2>2. PICK j \in 1..Len(regs) : TakenBy(after, regs[j], work, t)
    BY <1>6, <2>1 DEF NotReady
  <2> QED BY <2>1, <2>2, <1>5
<1>7. CASE ~NotReady(producer, after, work, t) /\ ~OwnWaits(producer, after, work, t)
  <2> DEFINE ready == {i \in 2..Len(producer.bonds) :
                /\ ~Registered(after.bonds, producer.bonds[i].id)
                /\ producer.bonds[i].regs # <<>>
                /\ TakenBy(after, producer.bonds[i].regs[1], work, t)}
  <2>1. regs = IF ready = {} THEN <<>> ELSE producer.bonds[Min(ready)].regs
    BY <1>7 DEF CarriedRegs
  <2>2. CASE ready # {}
    <3>1. ready \subseteq 1..N /\ ready \subseteq Nat
      BY <1>1
    <3>2. PICK i \in ready : i = Min(ready)
      <4> HIDE DEF ready
      <4> QED BY <2>2, <3>1, MinIs
    <3>3. regs = producer.bonds[i].regs
      <4> HIDE DEF ready
      <4> QED BY <2>1, <2>2, <3>2
    <3>7. i \in 1..N
      <4> HIDE DEF ready
      <4> QED BY <3>1, <3>2
    <3>4. TakenBy(after, regs[1], work, t)
      <4>1. i \in ready
        <5> HIDE DEF ready
        <5> QED BY <3>2
      <4> QED BY <4>1, <3>3
    <3>5. PICK n \in 0..1 : n = Len(regs)
      BY <1>2, <3>3, <3>7
    <3>6. \A k \in 1..n : k = 1
      BY <3>5
    <3> QED BY <3>4, <3>5, <3>6
  <2> QED BY <1>4, <2>1, <2>2
<1>8. CASE NotReady(producer, after, work, t)
  BY <1>8, <1>4 DEF CarriedRegs
<1> QED BY <1>6, <1>7, <1>8

------------------------------------------------------------------------------
\* What building a template goes through.
PrunedState(s, times) == [s EXCEPT !.bonds = @ \ Expired(@, MinNextTime(times))]
RoomFor(s, txs, payouts) ==
    LET body == Aggregate(txs)
        shares == Shares(RewardAt(s.height) + body.fees, payouts)
    IN  Less(MaxBlockWeight, BodyWeight(body) + RegistrationWeight
             + (IF shares = <<>> THEN 0 ELSE OutputWeight * Len(shares) + KernelWeight))
          \div HeaderWeight
SignedWeight(s, bonds, signer, t) ==
    WeighedIn(s, bonds, [signer |-> signer, time |-> t], WorkOf(s),
              Recorded([recent |-> s.recent, counts |-> s.counts], signer))
Entered(regs) == {EntryOf(regs[i]) : i \in 1..Len(regs)}
BuiltBy(s, txs, payouts, t, producer, template, run, regs, signer, bonds, after, weighed,
        subsidy) ==
    /\ regs = CarriedRegs(producer, after, WorkOf(s), t)
    /\ bonds = after.bonds \cup Entered(regs)
    /\ signer = SignerOf(producer, bonds, s.counts, t)
    /\ ~Refuses(producer, signer, bonds, s.height, t)
    /\ weighed = SignedWeight(s, bonds, signer, t)
    /\ subsidy = Pay(s, signer, weighed, bonds, t)
    /\ template.shares = Shares(subsidy + Aggregate(txs).fees, payouts)
    /\ template.blk = Block(s, Aggregate(txs), run, regs, signer, template.shares, weighed, t)
    /\ BodyApplies(after, template.blk, subsidy) /\ SelfChecked(template.blk, subsidy)

\* A template that is there went through every step.
LEMMA Built ==
    ASSUME NEW s, NEW times, NEW txs, NEW payouts, NEW t, NEW producer, NEW feed,
           NEW template, template = BuildTemplate(s, times, txs, payouts, t, producer, feed),
           template.ok
    PROVE  \E run, after :
              /\ run = ChooseRelay(PrunedState(s, times), feed, producer,
                                   RoomFor(s, txs, payouts), t)
              /\ after = AfterRelay(PrunedState(s, times), run)
              /\ \E regs, signer, bonds, weighed, subsidy :
                    BuiltBy(s, txs, payouts, t, producer, template, run, regs, signer, bonds,
                            after, weighed, subsidy)
<1>1. PICK body : body = Aggregate(txs)
  OBVIOUS
<1>2. PICK run : run = ChooseRelay(PrunedState(s, times), feed, producer,
                                   RoomFor(s, txs, payouts), t)
  OBVIOUS
<1>3. PICK after : after = AfterRelay(PrunedState(s, times), run)
  OBVIOUS
<1>4. template = Registering(s, after, body, run, producer, payouts, t)
  BY <1>1, <1>2, <1>3 DEF BuildTemplate, PrunedState, RoomFor
<1>5. PICK regs : regs = CarriedRegs(producer, after, WorkOf(s), t)
  OBVIOUS
<1>6. PICK bonds : bonds = after.bonds \cup Entered(regs)
  OBVIOUS
<1>7. PICK signer : signer = SignerOf(producer, bonds, s.counts, t)
  OBVIOUS
<1>8. template = IF Refuses(producer, signer, bonds, s.height, t) THEN NoTemplate("refused")
                 ELSE Signed(s, after, body, run, regs, bonds, signer, payouts, t)
  BY <1>4, <1>5, <1>6, <1>7 DEF Registering, Entered
<1>9. /\ ~Refuses(producer, signer, bonds, s.height, t)
      /\ template = Signed(s, after, body, run, regs, bonds, signer, payouts, t)
  <2>1. NoTemplate("refused").ok = FALSE
    BY DEF NoTemplate
  <2> QED BY <1>8, <2>1
<1>10. PICK weighed : weighed = SignedWeight(s, bonds, signer, t)
  OBVIOUS
<1>11. PICK subsidy : subsidy = Pay(s, signer, weighed, bonds, t)
  OBVIOUS
<1>12. PICK shares : shares = Shares(subsidy + body.fees, payouts)
  OBVIOUS
<1>13. PICK blk : blk = Block(s, body, run, regs, signer, shares, weighed, t)
  OBVIOUS
<1>14. template = Finished(after, blk, shares, subsidy)
  BY <1>9, <1>10, <1>11, <1>12, <1>13 DEF Signed, SignedWeight
<1>15. /\ BodyApplies(after, blk, subsidy) /\ SelfChecked(blk, subsidy)
       /\ template = [ok |-> TRUE, blk |-> blk, shares |-> shares]
  <2>1. NoTemplate("fails").ok = FALSE
    BY DEF NoTemplate
  <2> QED BY <1>14, <2>1 DEF Finished
<1>16. template.blk = blk /\ template.shares = shares
  BY <1>15
<1>17. BuiltBy(s, txs, payouts, t, producer, template, run, regs, signer, bonds, after,
               weighed, subsidy)
  BY <1>1, <1>5, <1>6, <1>7, <1>9, <1>10, <1>11, <1>12, <1>13, <1>15, <1>16 DEF BuiltBy
<1> QED BY <1>2, <1>3, <1>17

\* What is left of the state when the expired bonds are gone and a run is in.
LEMMA PrunedIs ==
    ASSUME NEW s, IsState(s), NEW times, NEW p, p = PrunedState(s, times)
    PROVE  /\ IsState(p) /\ p.relay = s.relay /\ p.height = s.height /\ p.supply = s.supply
           /\ p.utxos = s.utxos /\ p.kernels = s.kernels
           /\ p.bonds = s.bonds \ Expired(s.bonds, MinNextTime(times))
<1>1. PICK h, tm, d, c, m, u, k, b, y, x, n, l :
         s = StateFrom(h, tm, d, c, m, u, k, b, y, x, n, l)
  BY DEF IsState
<1>2. PICK gone : gone = Expired(s.bonds, MinNextTime(times))
  OBVIOUS
<1>3. p = [s EXCEPT !.bonds = @ \ gone]
  BY <1>2 DEF PrunedState
<1>4. s.bonds = b
  BY <1>1, FieldsOf
<1>5. p = StateFrom(h, tm, d, c, m, u, k, b \ gone, y, x, n, l)
  BY <1>1, <1>3 DEF StateFrom
<1>6. IsState(p)
  BY <1>5 DEF IsState
<1>7. /\ p.relay = y /\ p.height = h /\ p.supply = m /\ p.utxos = u /\ p.kernels = k
      /\ p.bonds = b \ gone
  BY <1>5, FieldsOf
<1>8. s.relay = y /\ s.height = h /\ s.supply = m /\ s.utxos = u /\ s.kernels = k
  BY <1>1, FieldsOf
<1> QED BY <1>2, <1>4, <1>6, <1>7, <1>8

RunChange(p, run) == RelayChange(p, [relay |-> run])
\* And of the state with the run in.
LEMMA AfterRelayIs ==
    ASSUME NEW p, IsState(p), NEW run, NEW after, after = AfterRelay(p, run),
           NEW change, change = RunChange(p, run)
    PROVE  /\ after.relay = Without(p.relay, change.removed) \cup change.added
           /\ after.bonds = p.bonds \ RevokedBy(p.bonds, change)
           /\ after.height = p.height /\ after.supply = p.supply
           /\ after.utxos = p.utxos /\ after.kernels = p.kernels
<1>1. PICK h, tm, d, c, m, u, k, b, y, x, n, l :
         p = StateFrom(h, tm, d, c, m, u, k, b, y, x, n, l)
  BY DEF IsState
<1>2. p.relay = y /\ p.height = h /\ p.supply = m /\ p.utxos = u /\ p.kernels = k /\ p.bonds = b
  BY <1>1, FieldsOf
<1>3. after = [p EXCEPT !.relay = Without(@, change.removed) \cup change.added,
                        !.bonds = @ \ RevokedBy(@, change)]
  BY DEF AfterRelay, RunChange
<1>4. PICK z, a : z = Without(y, change.removed) \cup change.added /\ a = b \ RevokedBy(b, change)
  OBVIOUS
<1>5. after = [p EXCEPT !.relay = z, !.bonds = a]
  BY <1>2, <1>3, <1>4
<1>6. DOMAIN p = StateFields
  BY <1>1 DEF StateFrom, StateFields
<1>7. after.relay = z /\ after.bonds = a
  BY <1>5, <1>6 DEF StateFields
<1>8. /\ after.height = p.height /\ after.supply = p.supply
      /\ after.utxos = p.utxos /\ after.kernels = p.kernels
  BY <1>5, <1>6 DEF StateFields
<1> QED BY <1>2, <1>4, <1>7, <1>8

------------------------------------------------------------------------------
\* Shares are naturals that add up to what is shared.
PayoutsOk(payouts) == payouts \in Seq(Nat) /\ SumFunction(payouts) > 0
\* What is shared is all paid out.
LEMMA SharesAre ==
    ASSUME NEW amount \in Nat, NEW payouts, PayoutsOk(payouts)
    PROVE  /\ Shares(amount, payouts) \in Seq(Nat)
           /\ Total(Shares(amount, payouts)) = amount
<1>1. CASE amount = 0
  <2>1. Shares(amount, payouts) = <<>>
    BY <1>1 DEF Shares
  <2>2. DOMAIN <<>> = {}
    OBVIOUS
  <2>3. SumFunction(<<>>) = SumFunctionOnSet(<<>>, {})
    BY <2>2 DEF SumFunction
  <2>4. SumFunctionOnSet(<<>>, {}) = 0
    BY SumEmpty
  <2>5. <<>> \in Seq(Nat)
    OBVIOUS
  <2>6. Total(<<>>) = 0
    BY <2>3, <2>4 DEF Total
  <2> QED BY <1>1, <2>1, <2>5, <2>6
<1>2. CASE amount # 0
  <2>1. Shares(amount, payouts) = SplitByWeight(amount, payouts)
    BY <1>2 DEF Shares
  <2>2. /\ SplitByWeight(amount, payouts) \in Seq(Nat)
        /\ SumFunction(SplitByWeight(amount, payouts)) = amount
    BY SplitSums DEF PayoutsOk
  <2> QED BY <2>1, <2>2 DEF Total
<1> QED BY <1>1, <1>2

\* The room a run has.
LEMMA RoomIs ==
    ASSUME StateAssumption, WeightsOk, NEW s, s.height \in Nat, NEW txs, TxsOk(txs),
           NEW payouts, PayoutsOk(payouts)
    PROVE  RoomFor(s, txs, payouts) \in Nat
<1>1. PICK body : body = Aggregate(txs)
  OBVIOUS
<1>2. body.fees \in Nat /\ FiniteBody(body)
  BY <1>1, AggregateIs
<1>3. PICK w \in Nat : w = BodyWeight(body)
  BY <1>2, BodyWeightIs
<1>4. RewardAt(s.height) + body.fees \in Nat
  <2>1. RewardAt(s.height) \in Nat
    BY DEF StateAssumption
  <2> QED BY <1>2, <2>1
<1>5. PICK shares : shares = Shares(RewardAt(s.height) + body.fees, payouts)
  OBVIOUS
<1>6. shares \in Seq(Nat)
  BY <1>4, <1>5, SharesAre
<1>7. PICK x \in Nat : x = IF shares = <<>> THEN 0 ELSE OutputWeight * Len(shares) + KernelWeight
  <2>1. Len(shares) \in Nat
    BY <1>6
  <2>2. OutputWeight \in Nat /\ KernelWeight \in Nat
    BY DEF WeightsOk
  <2>3. OutputWeight * Len(shares) \in Nat
    BY <2>1, <2>2
  <2> QED BY <2>2, <2>3
<1>8. PICK left : left = Less(MaxBlockWeight, w + RegistrationWeight + x)
  OBVIOUS
<1>9. left \in Nat
  BY <1>8 DEF Less, Most, WeightsOk
<1>10. RoomFor(s, txs, payouts) = left \div HeaderWeight
  BY <1>1, <1>3, <1>5, <1>7, <1>8 DEF RoomFor
<1>11. HeaderWeight \in Nat \ {0}
  BY DEF WeightsOk
<1> QED BY <1>9, <1>10, <1>11, DivLemma

\* Every count of a chain's signer window is a natural.
LEMMA CountsAreNat ==
    ASSUME StateAssumption, NEW c, SoundChain(c)
    PROVE  CountsNat(StateOf(c).counts)
<1>1. PICK s : s = StateOf(c)
  OBVIOUS
<1>2. PICK n \in Nat : n = Len(c)
  BY ChainLen DEF SoundChain
<1>3. SignersOk(s, c)
  BY <1>1, SoundIsOk DEF StateOk
<1>4. PICK sg, lo : sg = SignersOf(c) /\ lo = LowSigner(n + 1)
  OBVIOUS
<1>5. lo \in Int /\ n + 1 \in Int
  BY <1>4 DEF LowSigner, Less, Most, StateAssumption
<1>6. s.counts = CountsOf(sg, lo, n + 1)
  BY <1>2, <1>3, <1>4 DEF SignersOk, WindowOf
<1>7. ASSUME NEW x
      PROVE  CountOf(s.counts, x) \in Nat
  <2>1. Cardinality(Places(sg, lo, n + 1, x)) \in Nat
    BY <1>5, PlacesFinite
  <2>2. x \in DOMAIN s.counts => s.counts[x] = Cardinality(Places(sg, lo, n + 1, x))
    BY <1>6 DEF CountsOf
  <2> QED BY <2>1, <2>2 DEF CountOf
<1> QED BY <1>1, <1>7 DEF CountsNat

------------------------------------------------------------------------------
\* The block of a template, field by field.
LEMMA BlockIs ==
    ASSUME NEW s, NEW body, NEW run, NEW regs, NEW signer, NEW shares, NEW weighed, NEW t,
           NEW b, b = Block(s, body, run, regs, signer, shares, weighed, t)
    PROVE  /\ b.time = t /\ b.signer = signer /\ b.relay = run /\ b.regs = regs
           /\ b.spends = body.spends /\ b.groups = body.groups /\ b.kernels = body.kernels
           /\ b.fees = body.fees /\ b.weight = Claim(s, weighed)
BY DEF Block

\* What the template works out is what apply_batch will.
LEMMA SameBook ==
    ASSUME NEW s, IsState(s), NEW times, NEW run, NEW after,
           after = AfterRelay(PrunedState(s, times), run),
           NEW b, b.relay = run, NEW bonds,
           bonds = after.bonds \cup Entered(b.regs)
    PROVE  /\ after.relay = RelayWith(s, Effects(s, b, times))
           /\ after.bonds = s.bonds \ Effects(s, b, times).bondsRemoved
           /\ bonds = BondsAt(s, b, times)
           /\ after.height = s.height /\ after.supply = s.supply
           /\ after.utxos = s.utxos /\ after.kernels = s.kernels
<1>1. PICK p : p = PrunedState(s, times)
  OBVIOUS
<1>2. /\ IsState(p) /\ p.relay = s.relay /\ p.height = s.height /\ p.supply = s.supply
      /\ p.utxos = s.utxos /\ p.kernels = s.kernels
      /\ p.bonds = s.bonds \ Expired(s.bonds, MinNextTime(times))
  BY <1>1, PrunedIs
<1>3. PICK change : change = RunChange(p, run)
  OBVIOUS
<1>4. /\ after.relay = Without(p.relay, change.removed) \cup change.added
      /\ after.bonds = p.bonds \ RevokedBy(p.bonds, change)
      /\ after.height = p.height /\ after.supply = p.supply
      /\ after.utxos = p.utxos /\ after.kernels = p.kernels
  <2>1. IsState(p) /\ after = AfterRelay(p, run) /\ change = RunChange(p, run)
    BY <1>1, <1>2, <1>3
  <2> QED BY ONLY <2>1, AfterRelayIs
<1>5. change = RelayChange(s, b)
  BY <1>2, <1>3 DEF RunChange, RelayChange
<1>6. PICK gone : gone = Expired(s.bonds, MinNextTime(times))
  OBVIOUS
<1>7. PICK e : e = Effects(s, b, times)
  OBVIOUS
<1>8. e = EffectsOf(s, b, gone, change)
  BY <1>5, <1>6, <1>7 DEF Effects
<1>9. /\ e.bondsRemoved = gone \cup RevokedBy(s.bonds \ gone, change)
      /\ e.bondsAdded = Entered(b.regs)
      /\ e.relayAdded = change.added /\ e.relayRemoved = change.removed
  BY <1>8 DEF EffectsOf, Entered
<1>10. after.relay = RelayWith(s, e)
  BY <1>2, <1>4, <1>9 DEF RelayWith
<1>11. after.bonds = s.bonds \ e.bondsRemoved
  BY <1>2, <1>4, <1>6, <1>9
<1>12. bonds = BondsWith(s, e)
  BY <1>9, <1>11 DEF BondsWith
<1> QED BY <1>2, <1>4, <1>7, <1>10, <1>11, <1>12 DEF BondsAt

\* The weight it claims and the subsidy it pays are those of apply_batch.
LEMMA SameWeight ==
    ASSUME NEW s, NEW times, NEW b, NEW bonds, bonds = BondsAt(s, b, times),
           NEW weighed, weighed = SignedWeight(s, bonds, b.signer, b.time),
           NEW subsidy, subsidy = Pay(s, b.signer, weighed, bonds, b.time)
    PROVE  weighed = WeighedAt(s, b, times) /\ subsidy = SubsidyAt(s, b, times)
           /\ weighed.work = WorkOf(s)
<1>1. weighed = WeighedAt(s, b, times)
  BY DEF SignedWeight, WeighedAt, Weighed, WeighedIn
<1>2. weighed.work = WorkOf(s)
  BY DEF SignedWeight, WeighedIn
<1> QED BY <1>1, <1>2 DEF Pay, SubsidyAt

------------------------------------------------------------------------------
\* Coins a body makes are new, and its coinbase's are nobody else's.
CoinsFree(coins, b) ==
    /\ (CoinsOf(OutputsOf(b)) \cup CoinsOf(b.reward)) \cap (coins \ SpentCoins(b)) = {}
    /\ CoinsOf(b.reward) \cap (CoinsOf(OutputsOf(b)) \cup SpentCoins(b)) = {}
\* A block's body applies to any state of the same height, coins, kernels and
\* supply.
LEMMA SameBody ==
    ASSUME NEW r, NEW s, r.height = s.height, r.supply = s.supply, r.utxos = s.utxos,
           r.kernels = s.kernels, NEW b, NEW subsidy, BodyApplies(r, b, subsidy)
    PROVE  /\ KernelsOk(s, b) /\ SpendsOk(s, b) /\ OutputsOk(s, b)
           /\ s.supply + subsidy <= IssuedBefore(s.height + 1)
<1>1. /\ KernelsOk(r, b) /\ SpendsOk(r, b) /\ OutputsOk(r, b)
      /\ r.supply + subsidy <= IssuedBefore(r.height + 1)
  BY DEF BodyApplies
<1>2. KernelsOk(s, b)
  BY <1>1 DEF KernelsOk
<1>3. SpendsOk(s, b)
  BY <1>1 DEF SpendsOk
<1>4. CoinsFree(Coins(r.utxos), b)
  BY <1>1 DEF OutputsOk, CoinsFree, Coins
<1>5. CoinsFree(Coins(s.utxos), b)
  BY <1>4
<1>6. OutputsOk(s, b)
  BY <1>5 DEF OutputsOk, CoinsFree, Coins
<1> QED BY <1>1, <1>2, <1>3, <1>6

\* What a template checks of its block is what apply_batch checks.
LEMMA BuiltApplies ==
    ASSUME StateAssumption, NEW s, IsState(s), CountsNat(s.counts), NEW times, NEW txs,
           NEW payouts, NEW t, t >= MinNextTime(times), NEW producer, ProducerOk(producer),
           NEW template, NEW run, NEW after, after = AfterRelay(PrunedState(s, times), run),
           run # NoRun => RunVerifies(run) /\ ExtendAllowed(s.relay, run, t),
           NEW regs, NEW signer, NEW bonds, NEW weighed, NEW subsidy,
           BuiltBy(s, txs, payouts, t, producer, template, run, regs, signer, bonds, after,
                   weighed, subsidy)
    PROVE  /\ Allowed(s, template.blk, times)
           /\ subsidy = SubsidyAt(s, template.blk, times)
<1>1. PICK b : b = template.blk
  OBVIOUS
<1>2. /\ regs = CarriedRegs(producer, after, WorkOf(s), t)
      /\ bonds = after.bonds \cup Entered(regs)
      /\ signer = SignerOf(producer, bonds, s.counts, t)
      /\ ~Refuses(producer, signer, bonds, s.height, t)
      /\ weighed = SignedWeight(s, bonds, signer, t)
      /\ subsidy = Pay(s, signer, weighed, bonds, t)
      /\ b = Block(s, Aggregate(txs), run, regs, signer, template.shares, weighed, t)
      /\ BodyApplies(after, b, subsidy) /\ SelfChecked(b, subsidy)
  BY <1>1 DEF BuiltBy
<1>3. /\ b.time = t /\ b.signer = signer /\ b.relay = run /\ b.regs = regs
      /\ b.weight = Claim(s, weighed)
  BY <1>2, BlockIs
<1>4. PICK e : e = Effects(s, b, times)
  OBVIOUS
<1>5. /\ after.relay = RelayWith(s, e) /\ after.bonds = s.bonds \ e.bondsRemoved
      /\ bonds = BondsAt(s, b, times)
      /\ after.height = s.height /\ after.supply = s.supply
      /\ after.utxos = s.utxos /\ after.kernels = s.kernels
  <2>1. bonds = after.bonds \cup Entered(b.regs)
    BY <1>2, <1>3
  <2> QED BY <1>3, <1>4, <2>1, SameBook
<1>6. /\ weighed = WeighedAt(s, b, times) /\ subsidy = SubsidyAt(s, b, times)
      /\ weighed.work = WorkOf(s)
  <2>1. /\ weighed = SignedWeight(s, bonds, b.signer, b.time)
        /\ subsidy = Pay(s, b.signer, weighed, bonds, b.time)
    BY <1>2, <1>3
  <2> QED BY <1>5, <2>1, SameWeight
<1>7. b.time >= MinNextTime(times)
  BY <1>3
<1>8. b.relay # NoRun => ExtendAllowed(s.relay, b.relay, b.time)
  BY <1>3
<1>9. \A i \in 1..Len(b.regs) :
          /\ PrecheckRegistration(s.bonds \ e.bondsRemoved, b.regs[i], weighed.work, b.time)
          /\ RegistrationVerifies(RelayWith(s, e), b.regs[i], weighed.work)
  <2>1. \A i \in 1..Len(regs) : TakenBy(after, regs[i], WorkOf(s), t)
    BY <1>2, CarriedAreTaken
  <2> QED BY <1>3, <1>5, <1>6, <2>1 DEF TakenBy
<1>10. Authorized(bonds, b, s.height)
  <2> DEFINE ids == [i \in 1..Len(producer.bonds) |-> producer.bonds[i].id]
  <2>1. signer = SignerFor(ids, producer.key, bonds, s.counts, t)
    BY <1>2 DEF SignerOf
  <2>2. Len(ids) \in Nat
    <3>1. PICK n \in Nat : n = Len(producer.bonds)
      BY ChainLen DEF ProducerOk
    <3>2. ids = [i \in 1..n |-> producer.bonds[i].id]
      BY <3>1
    <3>3. DOMAIN ids = 1..n
      BY <3>2
    <3>4. \E D : ids \in Seq(D)
      <4>1. ids \in Seq({producer.bonds[i].id : i \in 1..n})
        BY <3>2
      <4> QED BY <4>1
    <3> QED BY <3>4
  <2>3. \/ signer = NoSigner
        \/ \E x \in bonds : x.id = signer /\ EligibleAt(x, t)
    <3> HIDE DEF ids
    <3> QED BY <2>1, <2>2, SignerIs
  <2>4. signer = NoSigner /\ s.height >= BondedFrom => ~AnyCanSign(bonds, t)
    BY <1>2 DEF Refuses
  <2> QED BY <1>3, <2>3, <2>4 DEF Authorized
<1>11. ContentsOk(b, subsidy)
  BY <1>2, <1>3 DEF ContentsOk, SelfChecked
<1>12. /\ KernelsOk(s, b) /\ SpendsOk(s, b) /\ OutputsOk(s, b)
       /\ s.supply + subsidy <= IssuedBefore(s.height + 1)
  <2>1. BodyApplies(after, b, subsidy)
    BY <1>2
  <2> QED BY <1>5, <2>1, SameBody
<1>13. b.weight = Claim(s, weighed)
  BY <1>3
<1>14. Accepts(s, b, times, e, bonds, weighed, subsidy)
  BY <1>7, <1>8, <1>9, <1>10, <1>11, <1>12, <1>13 DEF Accepts
<1> QED BY <1>1, <1>4, <1>5, <1>6, <1>14 DEF Allowed

\* A block built on a sound chain applies to it, and pays what it mints and
\* what its transactions leave.
LEMMA TemplateApplies ==
    ASSUME StateAssumption, WeightsOk, MedianWindow \in Nat \ {0},
           NEW c, SoundChain(c), NEW txs, TxsOk(txs), NEW payouts, PayoutsOk(payouts),
           NEW t \in Nat, t >= MinNextTime(TimesOf(c)),
           NEW producer, ProducerOk(producer), NEW feed, FeedLinks(feed), NEW template,
           template = BuildTemplate(StateOf(c), TimesOf(c), txs, payouts, t, producer, feed),
           template.ok
    PROVE  Applies(c, template.blk) /\ Valid(StateOf(c), TimesOf(c), template)
<1>1. PICK s, times : s = StateOf(c) /\ times = TimesOf(c)
  OBVIOUS
<1>2. StateOk(s, c)
  BY <1>1, SoundIsOk
<1>3. IsState(s) /\ IsRelay(s.relay)
  BY <1>2, ShapeIs DEF StateOk
<1>4. s.height \in Nat /\ s.supply \in Nat
  <2>1. PICK n \in Nat : n = Len(c)
    BY ChainLen DEF SoundChain
  <2>2. s.height = n + 1 /\ s.supply \in Nat
    BY <1>2, <2>1 DEF StateOk, ShapeOk
  <2> QED BY <2>2
<1>5. CountsNat(s.counts)
  BY <1>1, CountsAreNat
<1>6. PICK run, after :
        /\ run = ChooseRelay(PrunedState(s, times), feed, producer, RoomFor(s, txs, payouts), t)
        /\ after = AfterRelay(PrunedState(s, times), run)
        /\ \E regs, signer, bonds, weighed, subsidy :
              BuiltBy(s, txs, payouts, t, producer, template, run, regs, signer, bonds, after,
                      weighed, subsidy)
  BY <1>1, Built
<1>7. PICK regs, signer, bonds, weighed, subsidy :
              BuiltBy(s, txs, payouts, t, producer, template, run, regs, signer, bonds, after,
                      weighed, subsidy)
  BY <1>6
<1>8. run # NoRun => IsRun(run) /\ ExtendAllowed(s.relay, run, t)
  <2>1. PICK p : p = PrunedState(s, times)
    OBVIOUS
  <2>2. p.relay = s.relay
    BY <1>3, <2>1, PrunedIs
  <2>3. PICK room \in Nat : room = RoomFor(s, txs, payouts)
    BY <1>4, RoomIs
  <2>4. run = ChooseRelay(p, feed, producer, room, t) /\ IsRelay(p.relay)
    BY <1>3, <1>6, <2>1, <2>2, <2>3
  <2> QED BY <2>2, <2>4, ChosenRun
<1>9. /\ Allowed(s, template.blk, times)
      /\ subsidy = SubsidyAt(s, template.blk, times)
  <2>1. run # NoRun => RunVerifies(run) /\ ExtendAllowed(s.relay, run, t)
    BY <1>8 DEF IsRun, RunLinks
  <2>2. t >= MinNextTime(times)
    BY <1>1
  <2> QED BY <1>3, <1>5, <1>6, <1>7, <2>1, <2>2, BuiltApplies
<1>10. PICK b, body : b = template.blk /\ body = Aggregate(txs)
  OBVIOUS
<1>11. /\ regs = CarriedRegs(producer, after, WorkOf(s), t)
       /\ template.shares = Shares(subsidy + body.fees, payouts)
       /\ b = Block(s, body, run, regs, signer, template.shares, weighed, t)
  BY <1>7, <1>10 DEF BuiltBy
<1>12. /\ b.time = t /\ b.relay = run /\ b.regs = regs /\ b.fees = body.fees
       /\ b.spends = body.spends /\ b.groups = body.groups /\ b.kernels = body.kernels
  BY <1>11, BlockIs
<1>13. body.fees \in Nat /\ FiniteBody(body)
  BY <1>10, AggregateIs
<1>14. WellFormed(b)
  <2>1. FiniteBody(b)
    BY <1>12, <1>13 DEF FiniteBody, OutputsOf
  <2>2. Len(b.regs) \in Nat
    <3>1. Len(regs) \in 0..1
      BY <1>11, CarriedAreTaken
    <3> QED BY <1>12, <3>1
  <2>3. b.relay # NoRun => b.relay.links \in Seq(Links)
    BY <1>8, <1>12 DEF IsRun, RunLinks
  <2> QED BY <1>12, <1>13, <2>1, <2>2, <2>3 DEF WellFormed
<1>15. Allowed(s, b, times) /\ subsidy = SubsidyAt(s, b, times)
  BY <1>9, <1>10
<1>16. subsidy \in Nat
  <2>1. IsChain(c) /\ WellTimed(c)
    BY SoundWellTimed DEF SoundChain
  <2> QED BY <1>2, <1>14, <1>15, <2>1, StateStep
<1>17. Total(template.shares) = subsidy + b.fees
  <2>1. subsidy + body.fees \in Nat
    BY <1>13, <1>16
  <2> QED BY <1>11, <1>12, <2>1, SharesAre
<1>18. PICK applied : applied = ApplyBatch(s, b, times)
  OBVIOUS
<1>19. applied.ok /\ applied.state.supply = s.supply + subsidy
  <2>1. applied.ok = Allowed(s, b, times) /\ applied.state = NextState(s, b, times)
    BY <1>18, ApplyIs
  <2>2. NextState(s, b, times).supply = s.supply + subsidy
    BY <1>15 DEF NextState, After
  <2> QED BY <1>15, <2>1, <2>2
<1>20. (applied.state.supply - s.supply) + b.fees = subsidy + b.fees
  BY <1>4, <1>16, <1>19
<1>21. Stands(s, times, template, applied)
  BY <1>10, <1>17, <1>19, <1>20 DEF Stands
<1>22. Applies(c, b)
  BY <1>1, <1>14, <1>15 DEF Applies
<1> QED BY <1>1, <1>10, <1>18, <1>21, <1>22 DEF Valid

------------------------------------------------------------------------------
\* What producers are given: finitely many transactions, shares that are not
\* all empty, and headers that build on the ones below them, as the node
\* verifies them before a producer has them (relay.rs:557).
ProducerAssumption ==
    /\ StoreAssumption /\ WeightsOk /\ MedianWindow \in Nat \ {0}
    /\ OrphanDepth \in Nat /\ Delays \subseteq Nat /\ TxsOk(PoolTxs)
    /\ \A payouts \in Payouts : PayoutsOk(payouts)
    /\ \A producer \in Producers : ProducerOk(producer)
    /\ \A feed \in Feeds : FeedLinks(feed)

\* A part of what is offered is as good.
LEMMA PartOk ==
    ASSUME NEW S, TxsOk(S), NEW T, T \subseteq S
    PROVE  TxsOk(T)
BY FS_Subset DEF TxsOk

\* The earliest time after a sound chain.
LEMMA NextTimeIs ==
    ASSUME MedianWindow \in Nat \ {0}, NEW c, SoundChain(c)
    PROVE  MinNextTime(TimesOf(c)) \in Nat
BY SoundTimes, FloorIsTime

\* In every state the invariant allows, templates apply.
LEMMA TemplatesFit ==
    ASSUME ProducerAssumption, StoreInv
    PROVE  TemplatesApply
<1>1. StateAssumption /\ StoreAssumption /\ WeightsOk /\ MedianWindow \in Nat \ {0}
  BY DEF ProducerAssumption, StoreAssumption
<1>2. PICK c : c = tables.blocks
  OBVIOUS
<1>3. SoundChain(c) /\ tip = StateOf(c) /\ Times = TimesOf(c)
  BY <1>2 DEF StoreInv, Times
<1>4. TxsOk(Offered(tip))
  <2>1. Offered(tip) \subseteq PoolTxs /\ TxsOk(PoolTxs)
    BY DEF Offered, ProducerAssumption
  <2> QED BY <2>1, PartOk
<1>5. ASSUME NEW producer \in Producers, NEW feed \in Feeds, NEW payouts \in Payouts,
             NEW delay \in Delays, NEW template,
             template = OnTip(Chosen(tip, Offered(tip), payouts, producer, feed),
                              payouts, delay, producer, feed),
             template.ok
      PROVE  Valid(tip, Times, template)
  <2>1. PICK txs : txs = Chosen(tip, Offered(tip), payouts, producer, feed)
    OBVIOUS
  <2>2. TxsOk(txs)
    BY <1>1, <1>4, <2>1, SelectedFrom DEF Chosen
  <2>3. PICK low \in Nat : low = MinNextTime(TimesOf(c))
    BY <1>1, <1>3, NextTimeIs
  <2>4. delay \in Nat
    BY DEF ProducerAssumption
  <2>5. PICK t \in Nat : t = low + delay /\ t >= low
    BY <2>3, <2>4
  <2>6. template = BuildTemplate(StateOf(c), TimesOf(c), txs, payouts, t, producer, feed)
    BY <1>3, <1>5, <2>1, <2>3, <2>5 DEF OnTip
  <2>7. PayoutsOk(payouts) /\ ProducerOk(producer) /\ FeedLinks(feed)
    BY DEF ProducerAssumption
  <2>8. t >= MinNextTime(TimesOf(c))
    BY <2>3, <2>5
  <2> QED BY <1>1, <1>3, <1>5, <2>2, <2>6, <2>7, <2>8, TemplateApplies
<1> QED BY <1>5 DEF TemplatesApply

\* A template is a block the chain accepts: its relay run, its registration,
\* its signer, its claim and its payouts are what apply_batch works out again
\* (template.rs:404-655).
THEOREM TemplatesStand ==
    ASSUME ProducerAssumption
    PROVE  Spec => []TemplatesApply
<1>1. StoreAssumption
  BY DEF ProducerAssumption
<1>2. Spec => []StoreInv
  BY <1>1, StoreKept
<1>3. StoreInv => TemplatesApply
  BY TemplatesFit
<1> QED BY <1>2, <1>3, PTL

------------------------------------------------------------------------------
\* No block's full count is what an over-cap block of its work counts for: work
\* did not rise a thousandfold within the window (orphan.rs:60-65).
AllowedFor(h) ==
    Least(WorkOfHeader(tables.blocks, h), LowestBefore(h) + LowestBefore(h) \div Headroom)
SteadyWork ==
    \A h \in 1..(tip.height - 1) :
        FullWeight(AllowedFor(h), WorkOfHeader(tables.blocks, h))

\* The run a producer may build past: light blocks of others, at the tip.
LEMMA RunOfIs ==
    ASSUME OrphanDepth \in Nat, NEW top \in Nat, tip.height = top + 1, NEW producer
    PROVE  /\ RunOf(producer) \in 0..top
           /\ \A h \in (top - RunOf(producer) + 1)..top :
                 ~CountedInFull(h) /\ ~Own(producer, tables.blocks[h].signer)
<1> DEFINE light(h) == ~CountedInFull(h) /\ ~Own(producer, tables.blocks[h].signer)
           runs == {n \in 0..Least(OrphanDepth, top) :
                      \A h \in (top - n + 1)..top : light(h)}
<1>1. tip.height - 1 = top
  OBVIOUS
<1>2. RunOf(producer) = Max(runs)
  BY <1>1 DEF RunOf
<1>3. PICK most \in Nat : most = Least(OrphanDepth, top) /\ most <= top
  BY DEF Least
<1>4. runs \subseteq 0..most
  BY <1>3
<1>5. 0 \in runs
  <2>1. \A h \in (top - 0 + 1)..top : FALSE
    OBVIOUS
  <2>2. 0 \in 0..Least(OrphanDepth, top)
    BY <1>3
  <2> QED BY <2>1, <2>2
<1>6. PICK n \in runs : n = RunOf(producer)
  <2> HIDE DEF runs
  <2> QED BY <1>2, <1>4, <1>5, MaxIs
<1>7. n \in 0..top /\ \A h \in (top - n + 1)..top : light(h)
  BY <1>3, <1>6
<1> QED BY <1>6, <1>7

\* Of a steady chain's blocks only those nobody signed, or whose signer was over
\* its cap, count for less than in full.
LEMMA LightIsOverCap ==
    ASSUME StateAssumption, StoreInv, SteadyWork, NEW h \in 1..Len(tables.blocks),
           ~CountedInFull(h)
    PROVE  OverCap(h)
<1>1. PICK work, allowed : work = WorkOfHeader(tables.blocks, h) /\ allowed = AllowedFor(h)
  OBVIOUS
<1>2. FullWeight(allowed, work)
  BY <1>1, TipShape DEF SteadyWork
<1>3. PICK w \in Nat, k \in Nat : /\ w = WeightAfter(h - 1) /\ k = CountsFor(h)
                                  /\ WeightAfter(h) = w + k
  BY BlockCounts
<1>4. Added(h) = k
  BY <1>3 DEF Added
<1>5. ~FullWeight(CountsFor(h), work)
  BY <1>1, <1>3, <1>4 DEF CountedInFull
<1>6. CountsFor(h) # allowed
  BY <1>2, <1>5
<1>7. PICK blk : blk = tables.blocks[h]
  OBVIOUS
<1>8. PICK bonds : bonds = Replay(Drop(tables.blocks, h)).state.bonds
  OBVIOUS
<1>9. ASSUME blk.signer # NoSigner, ~(SignedBy(h, blk.signer) > SignerCap(bonds, blk.time))
      PROVE  FALSE
  <2>1. CountsFor(h) = allowed
    BY <1>1, <1>7, <1>8, <1>9 DEF CountsFor, AllowedFor
  <2> QED BY <1>6, <2>1
<1> QED BY <1>7, <1>8, <1>9 DEF OverCap

------------------------------------------------------------------------------
\* What the run's blocks and the mempool offer is a set of transactions.
LEMMA CandidatesOk ==
    ASSUME ProducerAssumption, StoreInv, NEW base \in 1..(Len(tables.blocks) + 1), NEW state
    PROVE  TxsOk(Candidates(base, state))
<1> DEFINE carry(h) == [spends |-> tables.blocks[h].spends, groups |-> tables.blocks[h].groups,
                        kernels |-> tables.blocks[h].kernels, fee |-> 0]
           one == [h \in base..(tip.height - 1) |-> {carry(h)}]
           H == base..(tip.height - 1)
<1>1. PICK c : c = tables.blocks
  OBVIOUS
<1>2. SoundChain(c) /\ StateAssumption
  BY <1>1 DEF StoreInv, ProducerAssumption, StoreAssumption
<1>3. PICK n \in Nat : n = Len(c) /\ tip.height = n + 1
  BY <1>1, <1>2, TipShape
<1>4. H = base..n
  BY <1>3
<1>5. Carried(base) = UNION {one[h] : h \in H}
  <2>1. ASSUME NEW tx \in Carried(base) PROVE tx \in UNION {one[h] : h \in H}
    BY DEF Carried
  <2>2. ASSUME NEW tx \in UNION {one[h] : h \in H} PROVE tx \in Carried(base)
    BY DEF Carried
  <2> QED BY <2>1, <2>2
<1>6. IsFiniteSet(Carried(base))
  <2>1. IsFiniteSet(H)
    BY <1>3, <1>4, FS_Interval
  <2>2. \A h \in H : IsFiniteSet(one[h])
    BY FS_Singleton
  <2> HIDE DEF H, one
  <2> QED BY <1>5, <2>1, <2>2, UnionFinite
<1>7. ASSUME NEW tx \in Carried(base)
      PROVE  TxOk(tx)
  <2>1. PICK h \in H : tx = carry(h)
    BY DEF Carried
  <2>2. h \in 1..n
    BY <1>1, <1>3, <1>4
  <2>3. FiniteBody(c[h])
    BY <1>2, <1>3, <2>2 DEF SoundChain, WellFormed
  <2>4. tx.spends = c[h].spends /\ tx.groups = c[h].groups /\ tx.kernels = c[h].kernels /\ tx.fee = 0
    BY <1>1, <2>1
  <2> QED BY <2>3, <2>4 DEF FiniteBody, OutputsOf, TxOk
<1>8. TxsOk(Carried(base))
  BY <1>6, <1>7 DEF TxsOk
<1>9. TxsOk(Offered(tip))
  <2>1. Offered(tip) \subseteq PoolTxs /\ TxsOk(PoolTxs)
    BY DEF Offered, ProducerAssumption
  <2> QED BY <2>1, PartOk
<1>10. TxsOk(Carried(base) \cup Offered(tip))
  BY <1>8, <1>9, FS_Union DEF TxsOk
<1>11. Candidates(base, state) \subseteq Carried(base) \cup Offered(tip)
  BY DEF Candidates
<1> QED BY <1>10, <1>11, PartOk

\* What a producer builds past a run makes a heavier chain.
LEMMA OrphanIs ==
    ASSUME ProducerAssumption, StoreInv, NEW base \in 1..Len(tables.blocks),
           Derivable(base), NEW producer \in Producers, NEW feed \in Feeds,
           NEW payouts \in Payouts, NEW template,
           template = Past(base, StateAt(base), TimesOf(Below(base)), payouts, producer, feed),
           template.ok
    PROVE  Replaces(ApplyBatch(StateAt(base), template.blk, TimesOf(Below(base))))
<1>1. StateAssumption /\ WeightsOk /\ MedianWindow \in Nat \ {0}
  BY DEF ProducerAssumption, StoreAssumption
<1>2. PICK n \in Nat : n = Len(tables.blocks)
  BY <1>1, TipShape
<1>3. PICK c : c = Firsts(tables.blocks, base - 1)
  OBVIOUS
<1>4. SoundChain(c)
  <2>1. SoundChain(tables.blocks) /\ base - 1 \in 0..Len(tables.blocks)
    BY <1>2 DEF StoreInv
  <2> QED BY <1>3, <2>1, SoundFront
<1>5. StateAt(base) = StateOf(c)
  <2>1. base \in 1..(Len(tables.blocks) + 1)
    BY <1>2
  <2> QED BY <1>1, <1>3, <2>1, StateAtIs
<1>6. Below(base) = c
  BY <1>3 DEF Below, Drop, Firsts
<1>7. PICK state, times : state = StateOf(c) /\ times = TimesOf(c)
  OBVIOUS
<1>8. PICK t \in Nat : t = MinNextTime(times)
  BY <1>1, <1>4, <1>7, NextTimeIs
<1>9. PICK cands, chosen : /\ cands = Candidates(base, state)
                           /\ chosen = Chosen(state, cands, payouts, producer, feed)
  OBVIOUS
<1>10. TxsOk(chosen)
  <2>1. base \in 1..(Len(tables.blocks) + 1)
    BY <1>2
  <2>2. TxsOk(cands)
    BY <1>9, <2>1, CandidatesOk
  <2> QED BY <1>1, <1>9, <2>2, SelectedFrom DEF Chosen
<1>11. TxsOk({})
  BY FS_EmptySet DEF TxsOk
<1>12. PICK some, none :
          /\ some = BuildTemplate(state, times, chosen, payouts, t, producer, feed)
          /\ none = BuildTemplate(state, times, {}, payouts, t, producer, feed)
  OBVIOUS
<1>13. template = IfPays(OrElse(some, none), state)
  BY <1>5, <1>6, <1>7, <1>8, <1>9, <1>12 DEF Past
<1>14. template \in {some, none} /\ Pays(template.blk, state)
  <2>1. NoTemplate("declined").ok = FALSE
    BY DEF NoTemplate
  <2>2. template = OrElse(some, none) /\ Pays(template.blk, state)
    BY <1>13, <2>1 DEF IfPays
  <2> QED BY <2>2 DEF OrElse
<1>15. PICK txs : TxsOk(txs)
                  /\ template = BuildTemplate(state, times, txs, payouts, t, producer, feed)
  BY <1>10, <1>11, <1>12, <1>14
<1>16. PayoutsOk(payouts) /\ ProducerOk(producer) /\ FeedLinks(feed)
  BY DEF ProducerAssumption
<1>17. Applies(c, template.blk)
  <2>1. template = BuildTemplate(StateOf(c), TimesOf(c), txs, payouts, t, producer, feed)
    BY <1>7, <1>15
  <2>2. t >= MinNextTime(TimesOf(c))
    BY <1>7, <1>8
  <2> QED BY <1>1, <1>4, <1>15, <1>16, <2>1, <2>2, TemplateApplies
<1>18. PICK b : b = template.blk
  OBVIOUS
<1>19. PICK applied : applied = ApplyBatch(state, b, times)
  OBVIOUS
<1>20. applied.ok /\ applied.state = StateOf(Append(c, b))
  <2>1. applied.ok = Allowed(state, b, times) /\ applied.state = NextState(state, b, times)
    BY <1>19, ApplyIs
  <2>2. Allowed(state, b, times)
    BY <1>7, <1>17, <1>18 DEF Applies
  <2>3. StateOf(Append(c, b)) = NextState(state, b, times)
    BY <1>4, <1>7, StateMore DEF SoundChain
  <2> QED BY <2>1, <2>2, <2>3
<1>21. b.weight = WeightOf(StateOf(Append(c, b)))
  BY <1>1, <1>4, <1>17, <1>18, ClaimIs
<1>22. b.weight > WeightOf(tip)
  BY <1>14, <1>18 DEF Pays
<1>23. Replaces(applied)
  BY <1>20, <1>21, <1>22 DEF Replaces
<1> QED BY <1>5, <1>6, <1>7, <1>18, <1>19, <1>23

\* A block built past a run of others' blocks applies there, makes a chain the
\* node would adopt and throws away only blocks that nobody signed or whose
\* signer was over its cap, as long as work is steady (orphan.rs:1-30, 60-65).
THEOREM OrphansAreSlivers ==
    ASSUME ProducerAssumption
    PROVE  Spec => [](SteadyWork => OrphansOnlySlivers)
<1>1. StateAssumption /\ StoreAssumption
  BY DEF ProducerAssumption, StoreAssumption
<1>2. ASSUME StoreInv, SteadyWork
      PROVE  OrphansOnlySlivers
  <2>1. PICK top \in Nat : top = Len(tables.blocks) /\ tip.height = top + 1
    BY <1>1, <1>2, TipShape
  <2>2. ASSUME NEW producer \in Producers, NEW feed \in Feeds, NEW payouts \in Payouts,
               NEW template, template = Orphaning(payouts, producer, feed), template.ok,
               NEW base, base = tip.height - RunOf(producer)
        PROVE  /\ \A h \in base..(tip.height - 1) :
                     /\ OverCap(h)
                     /\ \A i \in 1..Len(producer.bonds) :
                           tables.blocks[h].signer # producer.bonds[i].id
               /\ Replaces(ApplyBatch(StateAt(base), template.blk, TimesOf(Below(base))))
    <3>1. PICK run \in 0..top : run = RunOf(producer)
      BY <2>1, RunOfIs DEF ProducerAssumption
    <3>2. \A h \in (top - run + 1)..top :
             ~CountedInFull(h) /\ ~Own(producer, tables.blocks[h].signer)
      BY <2>1, <3>1, RunOfIs DEF ProducerAssumption
    <3>3. base = top - run + 1 /\ tip.height - 1 = top
      BY <2>1, <2>2, <3>1
    <3>4. NoTemplate("no run").ok = FALSE
      BY DEF NoTemplate
    <3>5. /\ base # tip.height /\ Derivable(base)
          /\ template = Past(base, StateAt(base), TimesOf(Below(base)), payouts, producer, feed)
      BY <2>2, <3>4 DEF Orphaning
    <3>6. base \in 1..Len(tables.blocks)
      BY <2>1, <3>1, <3>3, <3>5
    <3>7. Replaces(ApplyBatch(StateAt(base), template.blk, TimesOf(Below(base))))
      BY <1>2, <2>2, <3>5, <3>6, OrphanIs
    <3>8. ASSUME NEW h \in base..(tip.height - 1)
          PROVE  /\ OverCap(h)
                 /\ \A i \in 1..Len(producer.bonds) :
                       tables.blocks[h].signer # producer.bonds[i].id
      <4>1. h \in (top - run + 1)..top /\ h \in 1..Len(tables.blocks)
        BY <2>1, <3>1, <3>3, <3>6
      <4>2. ~CountedInFull(h) /\ ~Own(producer, tables.blocks[h].signer)
        BY <3>2, <4>1
      <4>3. OverCap(h)
        BY <1>1, <1>2, <4>1, <4>2, LightIsOverCap
      <4> QED BY <4>2, <4>3 DEF Own
    <3> QED BY <3>7, <3>8
  <2>3. ASSUME NEW producer \in Producers, NEW feed \in Feeds, NEW payouts \in Payouts
        PROVE  OnlySlivers(Orphaning(payouts, producer, feed),
                           tip.height - RunOf(producer), producer)
    <3>1. PICK template, base : /\ template = Orphaning(payouts, producer, feed)
                                /\ base = tip.height - RunOf(producer)
      OBVIOUS
    <3>2. OnlySlivers(template, base, producer)
      BY <2>2, <3>1 DEF OnlySlivers
    <3> QED BY <3>1, <3>2
  <2> QED BY <2>3 DEF OrphansOnlySlivers
<1>3. StoreInv => (SteadyWork => OrphansOnlySlivers)
  BY <1>2
<1> QED BY <1>1, <1>3, StoreKept, PTL
=============================================================================
