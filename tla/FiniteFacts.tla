---------------------------- MODULE FiniteFacts -----------------------------
(***************************************************************************)
(* Facts the proofs about recursive functions rest on: a set of naturals   *)
(* with 0 and closed under + 1 holds every natural, because a natural it   *)
(* missed would have a least one.                                          *)
(***************************************************************************)
EXTENDS Integers, TLAPS, FiniteSetTheorems

\* A set of naturals has a least element.
LEMMA LeastExists ==
   ASSUME NEW T, T \subseteq Nat, T # {}
   PROVE \E x \in T : \A y \in T : x <= y
<1> DEFINE runs == {0..n : n \in T}
<1>1. IsWellFoundedOn(StrictSubsetOrdering(Nat), FiniteSubsetsOf(Nat))
  BY FS_StrictSubsetOrderingWellFounded
<1>2. runs \subseteq FiniteSubsetsOf(Nat) /\ runs # {}
  <2>1. ASSUME NEW n \in T PROVE 0..n \in FiniteSubsetsOf(Nat)
     <3>1. n \in Nat /\ 0..n \subseteq Nat
       OBVIOUS
     <3> QED BY <3>1, FS_Interval DEF FiniteSubsetsOf
  <2> QED BY <2>1
<1>3. PICK r \in runs : \A s \in runs : ~(<<s, r>> \in StrictSubsetOrdering(Nat))
  <2> HIDE DEF runs
  <2> QED BY <1>1, <1>2, WFMin
<1>4. PICK n \in T : r = 0..n
  BY <1>3
<1>5. ASSUME NEW m \in T, m < n PROVE FALSE
  <2>1. 0..m \in SUBSET Nat /\ 0..n \in SUBSET Nat /\ 0..m \subseteq 0..n
    BY <1>5
  <2>2. 0..m # 0..n
    BY <1>5
  <2>3. <<0..m, 0..n>> \in StrictSubsetOrdering(Nat)
    BY <2>1, <2>2, SMT DEF StrictSubsetOrdering
  <2> QED BY <1>3, <1>4, <2>3
<1> QED BY <1>5

\* Induction, as a fact about a set of naturals.
LEMMA SetInd ==
   ASSUME NEW S, 0 \in S, \A n \in Nat : n \in S => n + 1 \in S
   PROVE Nat \subseteq S
<1>1. SUFFICES ASSUME Nat \ S # {} PROVE FALSE
  OBVIOUS
<1>2. PICK x \in Nat \ S : \A y \in Nat \ S : x <= y
  BY <1>1, LeastExists
<1>3. x # 0 /\ x - 1 \in Nat /\ x - 1 \in S
  BY <1>2
<1> QED BY <1>2, <1>3

Agree(f, g, N) == \A n \in 0..N : f[n] = g[n]
AgreeOn(f, g, N) ==
   f[0] = g[0] /\ \A n \in Nat : n + 1 <= N /\ f[n] = g[n] => f[n + 1] = g[n + 1]

\* Two functions that start and step alike are the same up to N: what a
\* recursive function of the model gives is told by its steps.
LEMMA SameFunction ==
   ASSUME NEW N \in Nat, NEW f, NEW g, AgreeOn(f, g, N)
   PROVE  Agree(f, g, N)
<1> DEFINE S == {n \in Nat : n <= N => f[n] = g[n]}
<1>1. 0 \in S
  BY DEF AgreeOn
<1>2. ASSUME NEW n \in Nat, n \in S PROVE n + 1 \in S
  <2>1. n + 1 <= N => n <= N
    OBVIOUS
  <2> QED BY <1>2, <2>1 DEF AgreeOn
<1>3. Nat \subseteq S
  <2> HIDE DEF S
  <2> QED BY <1>1, <1>2, SetInd
<1> QED BY <1>3 DEF Agree

\* A naturals' set with a bound has a greatest element.
LEMMA GreatestExists ==
   ASSUME NEW N \in Nat, NEW T, T \subseteq 0..N, T # {}
   PROVE  \E x \in T : \A y \in T : x >= y
<1> DEFINE U == {N - x : x \in T}
<1>1. U \subseteq Nat /\ U # {}
  <2>1. ASSUME NEW x \in T PROVE N - x \in Nat
    OBVIOUS
  <2>2. PICK x \in T : TRUE
    OBVIOUS
  <2> QED BY <2>1, <2>2
<1>2. PICK u \in U : \A v \in U : u <= v
  <2> HIDE DEF U
  <2> QED BY <1>1, LeastExists
<1>3. PICK x \in T : u = N - x
  BY <1>2
<1>4. ASSUME NEW y \in T PROVE x >= y
  <2>1. N - y \in U
    OBVIOUS
  <2>2. N - x <= N - y
    BY <2>1, <1>2, <1>3
  <2>3. x \in Int /\ y \in Int
    OBVIOUS
  <2> QED BY <2>2, <2>3
<1> QED BY <1>4

\* Induction over the subsets of a finite set, as a fact about a set of sets.
LEMMA SubsetInd ==
   ASSUME NEW S, IsFiniteSet(S), NEW Q, {} \in Q,
          \A T \in SUBSET S : \A x \in S : T \in Q /\ x \notin T => T \cup {x} \in Q
   PROVE  \A T \in SUBSET S : T \in Q
<1> DEFINE I == {n \in Nat : \A T \in SUBSET S : Cardinality(T) = n => T \in Q}
<1>1. 0 \in I
  <2>1. ASSUME NEW T \in SUBSET S, Cardinality(T) = 0 PROVE T \in Q
    BY <2>1, FS_Subset, FS_EmptySet
  <2> QED BY <2>1
<1>2. ASSUME NEW n \in Nat, n \in I PROVE n + 1 \in I
  <2>1. ASSUME NEW T \in SUBSET S, Cardinality(T) = n + 1 PROVE T \in Q
    <3>1. IsFiniteSet(T)
      BY FS_Subset
    <3>2. T # {}
      <4>1. n + 1 # 0
        OBVIOUS
      <4> QED BY <4>1, <2>1, FS_EmptySet
    <3>3. PICK x \in T : TRUE
      BY <3>2
    <3>4. T \ {x} \in SUBSET S /\ Cardinality(T \ {x}) = n
      <4>1. Cardinality(T \ {x}) = Cardinality(T) - 1
        BY <3>1, <3>3, FS_RemoveElement
      <4>2. Cardinality(T \ {x}) = n
        BY <4>1, <2>1
      <4> QED BY <4>2
    <3>5. T \ {x} \in Q
      BY <3>4, <1>2
    <3>6. (T \ {x}) \cup {x} \in Q
      BY <3>4, <3>5
    <3>7. (T \ {x}) \cup {x} = T
      OBVIOUS
    <3> QED BY <3>6, <3>7
  <2> QED BY <2>1
<1>3. Nat \subseteq I
  <2> HIDE DEF I
  <2> QED BY <1>1, <1>2, SetInd
<1>4. ASSUME NEW T \in SUBSET S PROVE T \in Q
  <2>1. Cardinality(T) \in Nat
    BY FS_Subset, FS_CardinalityType
  <2> QED BY <2>1, <1>3
<1> QED BY <1>4

\* A fold's values, an element at a time.
FoldedBy(g, S, base, first, step) ==
   \A s \in SUBSET S :
      g[s] = IF s = {} THEN base ELSE step[<<first[s], g[s \ {first[s]}]>>]

\* A fold over a finite set, an element at a time: the recursive function that
\* works it out is there, and its values are those of the fold.
LEMMA FoldExists ==
   ASSUME NEW S, IsFiniteSet(S), NEW R, NEW base \in R, NEW first, NEW step,
          \A s \in SUBSET S : s # {} => first[s] \in s,
          \A x \in S : \A v \in R : step[<<x, v>>] \in R
   PROVE  \E g \in [SUBSET S -> R] : FoldedBy(g, S, base, first, step)
<1> DEFINE Up(n) == {s \in SUBSET S : Cardinality(s) <= n}
           Value(g, s) == IF s = {} THEN base ELSE step[<<first[s], g[s \ {first[s]}]>>]
           I == {n \in Nat : \E g \in [Up(n) -> R] : \A s \in Up(n) : g[s] = Value(g, s)}
<1>1. \A s \in SUBSET S : IsFiniteSet(s) /\ Cardinality(s) \in Nat
  BY FS_Subset, FS_CardinalityType
<1>2. 0 \in I
  <2>1. PICK g : g = [s \in Up(0) |-> base]
    OBVIOUS
  <2>2. ASSUME NEW s \in Up(0) PROVE s = {}
    BY <1>1, FS_EmptySet
  <2>3. g \in [Up(0) -> R] /\ \A s \in Up(0) : g[s] = Value(g, s)
    BY <2>1, <2>2
  <2> QED BY <2>3
<1>3. ASSUME NEW n \in Nat, n \in I PROVE n + 1 \in I
  <2>1. PICK g \in [Up(n) -> R] : \A s \in Up(n) : g[s] = Value(g, s)
    BY <1>3
  <2>2. PICK h : h = [s \in Up(n + 1) |-> Value(g, s)]
    OBVIOUS
  <2>3. ASSUME NEW s \in Up(n + 1), s # {}
        PROVE  first[s] \in S /\ s \ {first[s]} \in Up(n) /\ s \ {first[s]} \in Up(n + 1)
    <3>1. s \in SUBSET S /\ Cardinality(s) <= n + 1 /\ first[s] \in s
      BY <2>3
    <3>2. Cardinality(s \ {first[s]}) = Cardinality(s) - 1
      BY <3>1, <1>1, FS_RemoveElement
    <3>3. Cardinality(s) - 1 <= n /\ Cardinality(s) - 1 <= n + 1
      BY <3>1, <1>1
    <3>4. s \ {first[s]} \in SUBSET S /\ first[s] \in S
      BY <3>1
    <3> QED BY <3>2, <3>3, <3>4
  <2>4. ASSUME NEW s \in Up(n) PROVE s \in Up(n + 1) /\ h[s] = g[s]
    <3>1. s \in Up(n + 1)
      BY <1>1
    <3> QED BY <3>1, <2>1, <2>2
  <2>5. ASSUME NEW s \in Up(n + 1) PROVE h[s] \in R /\ h[s] = Value(h, s)
    <3>1. CASE s = {}
      BY <3>1, <2>2
    <3>2. CASE s # {}
      <4>1. PICK x, r : x = first[s] /\ r = s \ {first[s]}
        OBVIOUS
      <4>2. x \in S /\ r \in Up(n) /\ r \in Up(n + 1)
        BY <3>2, <4>1, <2>3
      <4>3. g[r] \in R /\ h[r] = g[r]
        BY <4>2, <2>1, <2>4
      <4>4. h[s] = step[<<x, g[r]>>]
        BY <3>2, <4>1, <2>2
      <4>5. Value(h, s) = step[<<x, h[r]>>]
        BY <3>2, <4>1
      <4> QED BY <4>2, <4>3, <4>4, <4>5
    <3> QED BY <3>1, <3>2
  <2>6. h \in [Up(n + 1) -> R]
    BY <2>2, <2>5
  <2>7. n + 1 \in Nat
    OBVIOUS
  <2> HIDE DEF Up, Value
  <2> QED BY <2>5, <2>6, <2>7
<1>4. Nat \subseteq I
  <2> HIDE DEF I
  <2> QED BY <1>2, <1>3, SetInd
<1>5. PICK N : N = Cardinality(S)
  OBVIOUS
<1>6. N \in Nat /\ Up(N) = SUBSET S
  BY <1>1, <1>5, FS_Subset
<1>7. PICK g \in [SUBSET S -> R] : \A s \in SUBSET S : g[s] = Value(g, s)
  <2>1. N \in I
    BY <1>4, <1>6
  <2> QED BY <2>1, <1>6
<1>8. FoldedBy(g, S, base, first, step)
  BY <1>7 DEF FoldedBy
<1> QED BY <1>8
=============================================================================
