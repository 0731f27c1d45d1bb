----------------------------- MODULE SyncProofs -----------------------------
(***************************************************************************)
(* A sync session, phase by phase: the block phase (BlockSync), then the   *)
(* headers before it (HeaderSync).                                         *)
(*                                                                         *)
(* Three invariants carry the block phase:                                 *)
(*   TypeInv   everything in motion is of verified headers;                *)
(*   WholeInv  while helpers serve valid blocks, the ranges being applied, *)
(*             buffered, on their way and queued cover cursor..nextRequest *)
(*             exactly once, and buffered_bytes is the sum of the buffer;  *)
(*   Roomy     a request in flight has room kept for its answer.           *)
(* The bytes of a buffer are a fold of the library; that they may be summed*)
(* in any order is proved first, by induction on the size of a set.        *)
(*                                                                         *)
(* One invariant carries the headers, HeaderInv: what a session fetched,   *)
(* queued, is verifying and stored is one chain, each part following the   *)
(* one before, and leaves our chain at the fork, whoever answered.         *)
(***************************************************************************)
EXTENDS BlockSync, HeaderSync, FiniteFacts, SequenceTheorems

\* The element the library's sum takes first, and what its recursion adds up.
Chosen(s) == CHOOSE x \in s : TRUE

Sums(g, buf, S) ==
    g = [s \in SUBSET S |-> IF s = {} THEN 0 ELSE buf[Chosen(s)].count + g[s \ {Chosen(s)}]]

\* Chunks with a count.
Counted(buf, S) == \A k \in S : buf[k].count \in Nat

\* Bytes is the library's recursive function, at the set.
LEMMA BytesChosen ==
  ASSUME NEW buf, NEW S
  PROVE  Bytes(buf, S) = (CHOOSE g : Sums(g, buf, S))[S]
BY DEF Bytes, MapThenSumSet, MapThenFoldSet, Sums, Chosen

\* A set without one of its elements.
LEMMA OneLess ==
  ASSUME NEW s, IsFiniteSet(s), NEW k \in s
  PROVE  /\ IsFiniteSet(s \ {k}) /\ Cardinality(s \ {k}) \in Nat
         /\ Cardinality(s) = Cardinality(s \ {k}) + 1
<1>1. IsFiniteSet(s \ {k}) /\ Cardinality(s \ {k}) = Cardinality(s) - 1
  BY FS_RemoveElement
<1>2. Cardinality(s) \in Nat /\ Cardinality(s \ {k}) \in Nat
  BY <1>1, FS_CardinalityType
<1> QED BY <1>1, <1>2

\* The element taken first is one.
LEMMA Picked ==
  ASSUME NEW s, s # {}
  PROVE  Chosen(s) \in s
BY DEF Chosen

\* Chunks of the same counts.
SameCounts(bufA, bufB, S) == \A k \in S : bufA[k].count = bufB[k].count

\* Up to n elements.
SumsTo(g, buf, S, n) ==
    g = [s \in SUBSET S |-> IF s = {} \/ Cardinality(s) > n THEN 0
                            ELSE buf[Chosen(s)].count + g[s \ {Chosen(s)}]]

\* The recursion of the sum has a solution on a finite set's subsets, by induction
\* on their size.
LEMMA SumsExist ==
  ASSUME NEW buf, NEW S, IsFiniteSet(S)
  PROVE  \E g : Sums(g, buf, S)
<1> DEFINE N == {n \in Nat : \E g : SumsTo(g, buf, S, n)}
<1>0. ASSUME NEW s \in SUBSET S
      PROVE IsFiniteSet(s) /\ Cardinality(s) \in Nat /\ Cardinality(s) <= Cardinality(S)
  BY FS_Subset, FS_CardinalityType
<1>1. 0 \in N
  <2> DEFINE g == [s \in SUBSET S |-> 0]
  <2>1. ASSUME NEW s \in SUBSET S, s # {} PROVE Cardinality(s) > 0
    BY <1>0, <2>1, FS_EmptySet
  <2>2. SumsTo(g, buf, S, 0)
    BY <2>1 DEF SumsTo
  <2> QED BY <2>2
<1>2. ASSUME NEW n \in Nat, n \in N PROVE n + 1 \in N
  <2>1. PICK f : SumsTo(f, buf, S, n)
    BY <1>2
  <2> DEFINE g == [s \in SUBSET S |-> IF s = {} \/ Cardinality(s) > n + 1 THEN 0
                                      ELSE buf[Chosen(s)].count + f[s \ {Chosen(s)}]]
  <2>2. ASSUME NEW s \in SUBSET S, Cardinality(s) <= n PROVE g[s] = f[s]
    <3>1. Cardinality(s) \in Nat /\ ~(Cardinality(s) > n) /\ ~(Cardinality(s) > n + 1)
      BY <1>0, <2>2
    <3> QED BY <3>1, <2>1 DEF SumsTo
  <2>3. ASSUME NEW s \in SUBSET S, s # {}, ~(Cardinality(s) > n + 1)
        PROVE f[s \ {Chosen(s)}] = g[s \ {Chosen(s)}]
    <3>1. Chosen(s) \in s
      BY <2>3, Picked
    <3>2. Cardinality(s \ {Chosen(s)}) <= n
      BY <3>1, <1>0, <2>3, OneLess
    <3>3. s \ {Chosen(s)} \in SUBSET S
      OBVIOUS
    <3> QED BY <2>2, <3>2, <3>3
  <2>4. SumsTo(g, buf, S, n + 1)
    <3> DEFINE h == [s \in SUBSET S |-> IF s = {} \/ Cardinality(s) > n + 1 THEN 0
                                        ELSE buf[Chosen(s)].count + g[s \ {Chosen(s)}]]
    <3>1. ASSUME NEW s \in SUBSET S PROVE g[s] = h[s]
      <4> HIDE DEF g
      <4>1. g[s] = IF s = {} \/ Cardinality(s) > n + 1 THEN 0
                   ELSE buf[Chosen(s)].count + f[s \ {Chosen(s)}]
        BY DEF g
      <4> QED BY <4>1, <2>3
    <3>2. g = h
      BY <3>1
    <3> QED BY <3>2 DEF SumsTo
  <2> QED BY <2>4
<1>3. Nat \subseteq N
  <2> HIDE DEF N
  <2> QED BY <1>1, <1>2, SetInd
<1>4. PICK g : SumsTo(g, buf, S, Cardinality(S))
  <2>1. Cardinality(S) \in N
    BY <1>3, FS_CardinalityType
  <2> QED BY <2>1
<1>5. ASSUME NEW s \in SUBSET S PROVE ~(Cardinality(s) > Cardinality(S))
  BY <1>0, FS_CardinalityType
<1>6. Sums(g, buf, S)
  BY <1>4, <1>5 DEF SumsTo, Sums
<1> QED BY <1>6

\* Its solutions agree wherever the counts do.
LEMMA SumsAgree ==
  ASSUME NEW bufA, NEW bufB, NEW S, NEW T, NEW g, NEW h, NEW U,
         Sums(g, bufA, S), Sums(h, bufB, T), U \subseteq S, U \subseteq T, IsFiniteSet(U),
         SameCounts(bufA, bufB, U)
  PROVE  g[U] = h[U]
<1> DEFINE N == {n \in Nat : \A u \in SUBSET U : Cardinality(u) = n => g[u] = h[u]}
<1>0. ASSUME NEW u \in SUBSET U PROVE IsFiniteSet(u) /\ Cardinality(u) \in Nat
  BY FS_Subset, FS_CardinalityType
<1>g. ASSUME NEW u \in SUBSET U
      PROVE g[u] = IF u = {} THEN 0 ELSE bufA[Chosen(u)].count + g[u \ {Chosen(u)}]
  BY DEF Sums
<1>h. ASSUME NEW u \in SUBSET U
      PROVE h[u] = IF u = {} THEN 0 ELSE bufB[Chosen(u)].count + h[u \ {Chosen(u)}]
  BY DEF Sums
<1>1. 0 \in N
  <2>1. ASSUME NEW u \in SUBSET U, Cardinality(u) = 0 PROVE u = {}
    BY <1>0, <2>1, FS_EmptySet
  <2> QED BY <2>1, <1>g, <1>h
<1>2. ASSUME NEW n \in Nat, n \in N PROVE n + 1 \in N
  <2>1. ASSUME NEW u \in SUBSET U, Cardinality(u) = n + 1 PROVE g[u] = h[u]
    <3>1. u # {}
      BY <2>1, FS_EmptySet
    <3>2. Chosen(u) \in u /\ Chosen(u) \in U
      BY <3>1, Picked
    <3>3. Cardinality(u \ {Chosen(u)}) = n /\ u \ {Chosen(u)} \in SUBSET U
      BY <3>2, <1>0, <2>1, OneLess
    <3>4. g[u \ {Chosen(u)}] = h[u \ {Chosen(u)}]
      BY <3>3, <1>2
    <3>5. bufA[Chosen(u)].count = bufB[Chosen(u)].count
      BY <3>2 DEF SameCounts
    <3> QED BY <3>1, <3>4, <3>5, <1>g, <1>h
  <2> QED BY <2>1
<1>3. Nat \subseteq N
  <2> HIDE DEF N
  <2> QED BY <1>1, <1>2, SetInd
<1> QED BY <1>3, <1>0

\* What is summed is told by the counts.
LEMMA SameBytes ==
  ASSUME NEW bufA, NEW bufB, NEW S, IsFiniteSet(S), SameCounts(bufA, bufB, S)
  PROVE  Bytes(bufA, S) = Bytes(bufB, S)
<1> DEFINE g == CHOOSE g : Sums(g, bufA, S)
<1> DEFINE h == CHOOSE h : Sums(h, bufB, S)
<1>1. Sums(g, bufA, S)
  BY SumsExist
<1>2. Sums(h, bufB, S)
  BY SumsExist
<1>3. Bytes(bufA, S) = g[S] /\ Bytes(bufB, S) = h[S]
  BY BytesChosen
<1> HIDE DEF g, h
<1>4. S \subseteq S
  OBVIOUS
<1>5. g[S] = h[S]
  BY <1>1, <1>2, <1>4, SumsAgree
<1> QED BY <1>3, <1>5

\* No chunks, no bytes.
LEMMA NoBytes == ASSUME NEW buf PROVE Bytes(buf, {}) = 0
<1> DEFINE g == CHOOSE g : Sums(g, buf, {})
<1>1. Sums(g, buf, {})
  BY SumsExist, FS_EmptySet
<1>2. Bytes(buf, {}) = g[{}]
  BY BytesChosen
<1> HIDE DEF g
<1> QED BY <1>1, <1>2 DEF Sums

\* The sum's own step: the element it takes, and the rest.
LEMMA PickedBytes ==
  ASSUME NEW buf, NEW S, IsFiniteSet(S), S # {}
  PROVE  Bytes(buf, S) = buf[Chosen(S)].count + Bytes(buf, S \ {Chosen(S)})
<1> DEFINE R == S \ {Chosen(S)}
<1> DEFINE g == CHOOSE g : Sums(g, buf, S)
<1> DEFINE h == CHOOSE h : Sums(h, buf, R)
<1>0. IsFiniteSet(R) /\ R \subseteq S /\ R \subseteq R
  BY FS_Subset
<1>1. Sums(g, buf, S)
  BY SumsExist
<1>2. Sums(h, buf, R)
  <2> HIDE DEF R
  <2> QED BY <1>0, SumsExist
<1>3. Bytes(buf, S) = g[S] /\ Bytes(buf, R) = h[R]
  BY BytesChosen
<1> HIDE DEF g, h
<1>4. g[R] = h[R]
  <2> HIDE DEF R
  <2>1. SameCounts(buf, buf, R)
    BY DEF SameCounts
  <2> QED BY <2>1, <1>0, <1>1, <1>2, SumsAgree
<1>5. g[S] = buf[Chosen(S)].count + g[R]
  BY <1>1 DEF Sums
<1> QED BY <1>3, <1>4, <1>5

\* One chunk more.
LEMMA BytesStep ==
  ASSUME NEW buf, NEW S, IsFiniteSet(S), Counted(buf, S), NEW k \in S
  PROVE  /\ Bytes(buf, S) \in Nat /\ Bytes(buf, S \ {k}) \in Nat
         /\ Bytes(buf, S) = Bytes(buf, S \ {k}) + buf[k].count
<1> DEFINE N == {n \in Nat : \A s \in SUBSET S : Cardinality(s) <= n =>
                    /\ Bytes(buf, s) \in Nat
                    /\ \A j \in s : Bytes(buf, s) = Bytes(buf, s \ {j}) + buf[j].count}
<1>0. ASSUME NEW s \in SUBSET S PROVE IsFiniteSet(s) /\ Cardinality(s) \in Nat
  BY FS_Subset, FS_CardinalityType
<1>1. 0 \in N
  <2>1. ASSUME NEW u \in SUBSET S, Cardinality(u) <= 0 PROVE u = {}
    BY <1>0, <2>1, FS_EmptySet
  <2>2. Bytes(buf, {}) = 0
    BY NoBytes
  <2>3. ASSUME NEW u \in SUBSET S, Cardinality(u) <= 0
        PROVE /\ Bytes(buf, u) \in Nat
              /\ \A j \in u : Bytes(buf, u) = Bytes(buf, u \ {j}) + buf[j].count
    <3>1. u = {}
      BY <2>1, <2>3
    <3>2. Bytes(buf, u) = 0
      BY <3>1, <2>2, Zenon
    <3> QED BY <3>1, <3>2
  <2> QED BY <2>3
<1>2. ASSUME NEW n \in Nat, n \in N PROVE n + 1 \in N
  <2>1. ASSUME NEW s \in SUBSET S, Cardinality(s) <= n + 1, s # {}
        PROVE  /\ Bytes(buf, s) \in Nat
               /\ \A j \in s : Bytes(buf, s) = Bytes(buf, s \ {j}) + buf[j].count
    <3>1. s # {} /\ IsFiniteSet(s)
      BY <2>1, <1>0
    <3>2. PICK c : c = Chosen(s)
      OBVIOUS
    <3>3. c \in s /\ buf[c].count \in Nat
      BY <3>1, <3>2, Picked DEF Counted
    <3>4. s \ {c} \in SUBSET S /\ Cardinality(s \ {c}) <= n
      BY <3>1, <3>3, <2>1, <1>0, OneLess
    <3>5. Bytes(buf, s) = buf[c].count + Bytes(buf, s \ {c})
      BY <3>1, <3>2, PickedBytes
    <3>6. Bytes(buf, s \ {c}) \in Nat
      BY <3>4, <1>2
    <3>7. ASSUME NEW j \in s, j # c PROVE Bytes(buf, s) = Bytes(buf, s \ {j}) + buf[j].count
      <4>1. buf[j].count \in Nat
        BY DEF Counted
      <4>2. s \ {j} \in SUBSET S /\ IsFiniteSet(s \ {j}) /\ Cardinality(s \ {j}) <= n
        BY <3>1, <3>7, <2>1, <1>0, OneLess
      <4>3. Bytes(buf, s \ {c}) = Bytes(buf, (s \ {c}) \ {j}) + buf[j].count
        BY <3>4, <3>7, <1>2
      <4>4. Bytes(buf, s \ {j}) = Bytes(buf, (s \ {j}) \ {c}) + buf[c].count
        BY <4>2, <3>3, <3>7, <1>2
      <4>5. (s \ {c}) \ {j} = (s \ {j}) \ {c}
        OBVIOUS
      <4>6. (s \ {j}) \ {c} \in SUBSET S /\ Cardinality((s \ {j}) \ {c}) <= n
        BY <4>2, <3>3, <3>7, <1>0, OneLess
      <4>7. Bytes(buf, (s \ {j}) \ {c}) \in Nat
        BY <4>6, <1>2
      <4>8. PICK x, y, z, a, b :
               /\ x = Bytes(buf, s \ {c}) /\ y = Bytes(buf, s \ {j})
               /\ z = Bytes(buf, (s \ {j}) \ {c}) /\ a = buf[c].count /\ b = buf[j].count
        OBVIOUS
      <4>9. z = Bytes(buf, (s \ {c}) \ {j})
        BY <4>5, <4>8, Zenon
      <4>10. x = z + b /\ y = z + a /\ z \in Nat /\ a \in Nat /\ b \in Nat
        BY <4>3, <4>4, <4>7, <4>8, <4>9, <3>3, <4>1, Zenon
      <4>11. a + x = y + b
        BY <4>10
      <4> QED BY <3>5, <4>8, <4>11, Zenon
    <3>8. PICK p, x, a : p = Bytes(buf, s) /\ x = Bytes(buf, s \ {c}) /\ a = buf[c].count
      OBVIOUS
    <3>9. p = a + x /\ a \in Nat /\ x \in Nat
      BY <3>3, <3>5, <3>6, <3>8, Zenon
    <3>10. p = x + a /\ p \in Nat
      BY <3>9
    <3> QED BY <3>7, <3>8, <3>10, Zenon
  <2>2. Bytes(buf, {}) = 0
    BY NoBytes
  <2> QED BY <2>1, <2>2
<1>3. Nat \subseteq N
  <2> HIDE DEF N
  <2> QED BY <1>1, <1>2, SetInd
<1>4. Cardinality(S) \in Nat /\ S \in SUBSET S
  BY FS_CardinalityType
<1>5. S \ {k} \in SUBSET S /\ Cardinality(S \ {k}) \in Nat
  BY <1>0
<1> QED BY <1>3, <1>4, <1>5

------------------------------------------------------------------------------
\* Bytes are a number.
LEMMA BytesNat ==
  ASSUME NEW buf, NEW S, IsFiniteSet(S), Counted(buf, S)
  PROVE  Bytes(buf, S) \in Nat
<1>1. CASE S = {}
  BY <1>1, NoBytes
<1>2. CASE S # {}
  <2>1. PICK k \in S : TRUE
    BY <1>2
  <2> QED BY <2>1, BytesStep
<1> QED BY <1>1, <1>2

\* Sets of heights are finite.
LEMMA FiniteDomain ==
  ASSUME BlockSyncAssumption, NEW D, D \subseteq 0..End
  PROVE  IsFiniteSet(D) /\ Cardinality(D) \in Nat
<1>1. IsFiniteSet(0..End)
  BY FS_Interval DEF BlockSyncAssumption
<1> QED BY <1>1, FS_Subset, FS_CardinalityType

\* The least height of a set.
LEMMA MinOf ==
  ASSUME NEW T, T \subseteq Nat, T # {}
  PROVE  Min(T) \in T /\ Min(T) \in Nat /\ \A y \in T : Min(T) <= y
BY LeastExists DEF Min

\* What the buffer and the tasks hold.
Chunk == [source : Peers, count : Nat \ {0}, bad : Nat]
Tasks == [to : Nat, stop : Nat, source : Peers]

\* Chunks of verified blocks, none longer than a request.
ChunksOk(buf, top) ==
    /\ DOMAIN buf \subseteq 0..End
    /\ \A k \in DOMAIN buf : /\ buf[k] \in Chunk
                             /\ k + buf[k].count <= top /\ buf[k].count <= ChunkLimit

\* Requests for verified blocks, none too long.
RequestsOk(requests, top) ==
    /\ DOMAIN requests \subseteq 0..End
    /\ \A k \in DOMAIN requests :
          /\ requests[k] \in [peer : Peers, count : Nat \ {0}]
          /\ k + requests[k].count <= top /\ requests[k].count <= ChunkLimit

\* Ranges of verified blocks, none too long.
SpanOk(span, top) == span \in Spans /\ span.start + span.count <= top /\ span.count <= ChunkLimit
SpansOk(spans, top) ==
    /\ spans \in Seq(Spans)
    /\ \A i \in DOMAIN spans : SpanOk(spans[i], top)

\* A task's blocks are verified, and it stops among them.
TaskOk(task, top) == task # NoChunk => task \in Tasks /\ task.to <= top /\ task.stop <= task.to

\* The assumption on the constants, as arithmetic needs it.
Constants ==
    /\ End \in Nat /\ VerifiedAtStart \in Nat /\ VerifiedAtStart <= End /\ OutweighsAt \in Nat
    /\ ChunkLimit \in Nat /\ ChunkLimit > 0 /\ InFlightLimit \in Nat /\ InFlightLimit > 0
    /\ Lookahead \in Nat /\ BufferLimit \in Nat /\ BufferLimit > 0
    /\ NoChunk \notin Tasks

\* It follows.
LEMMA ConstantTypes == ASSUME BlockSyncAssumption PROVE Constants
BY DEF BlockSyncAssumption, Constants, Tasks, Peers

\* Dropping chunks keeps the rest as they were.
LEMMA FewerChunks ==
  ASSUME NEW buf, NEW top, ChunksOk(buf, top), NEW K
  PROVE  ChunksOk(Without(buf, K), top)
BY DEF ChunksOk, Without

\* Dropping chunks never raises the count of bytes.
LEMMA LessBytes ==
  ASSUME BlockSyncAssumption, NEW buf, NEW top, ChunksOk(buf, top), NEW K, K \subseteq DOMAIN buf,
         NEW bytes \in Int
  PROVE  Unbuffered(buf, bytes, K) \in Int /\ Unbuffered(buf, bytes, K) <= bytes
<1>1. IsFiniteSet(K) /\ Counted(buf, K)
  BY FiniteDomain DEF ChunksOk, Chunk, Counted
<1>2. Bytes(buf, K) \in Nat
  BY <1>1, BytesNat
<1>3. PICK b : b = Bytes(buf, K)
  OBVIOUS
<1>4. bytes - b \in Int /\ bytes - b <= bytes
  BY <1>2, <1>3
<1> QED BY <1>3, <1>4, Zenon DEF Unbuffered

\* What a task is, and where it stops.
LEMMA TaskTypes ==
  ASSUME NEW chunk \in Chunk, NEW first \in Nat, NEW at \in Nat
  PROVE  /\ Task(chunk, first, at) \in Tasks
         /\ Task(chunk, first, at).to = first + chunk.count
         /\ Task(chunk, first, at).stop <= first + chunk.count
         /\ chunk.bad \notin at..(first + chunk.count - 1) => Task(chunk, first, at).stop = first + chunk.count
<1>1. CASE chunk.bad \in at..(first + chunk.count - 1)
  BY <1>1 DEF Task, Tasks, Chunk
<1>2. CASE chunk.bad \notin at..(first + chunk.count - 1)
  BY <1>2 DEF Task, Tasks, Chunk
<1> QED BY <1>1, <1>2

\* try_apply_next: the buffer it leaves, and no more bytes than before.
LEMMA TryApplyTypes ==
  ASSUME BlockSyncAssumption, NEW buf, NEW bytes \in Int, NEW at \in Nat, NEW top \in 0..End,
         ChunksOk(buf, top), TryApply(buf, bytes, at)
  PROVE  /\ ChunksOk(buffer', top) /\ buffered' \in Int /\ buffered' <= bytes
         /\ TaskOk(applying', top) /\ (applying' = NoChunk \/ applying' \in Tasks)
<1> DEFINE live == Without(buf, Passed(buf, at))
           left == Unbuffered(buf, bytes, Passed(buf, at))
           first == Min(DOMAIN live)
<1>1. ChunksOk(live, top) /\ left \in Int /\ left <= bytes
  <2>1. Passed(buf, at) \subseteq DOMAIN buf
    BY DEF Passed
  <2> QED BY <2>1, FewerChunks, LessBytes
<1>2. IF DOMAIN live # {} /\ first <= at
      THEN /\ applying' = Task(live[first], first, at)
           /\ buffer' = Without(live, {first})
           /\ buffered' = Unbuffered(live, left, {first})
      ELSE applying' = NoChunk /\ buffer' = live /\ buffered' = left
  BY DEF TryApply
<1> HIDE DEF live, left
<1>3. CASE DOMAIN live # {} /\ first <= at
  <2>1. DOMAIN live \subseteq Nat
    BY <1>1 DEF ChunksOk
  <2>2. first \in DOMAIN live /\ first \in Nat
    BY <2>1, <1>3, MinOf
  <2> HIDE DEF first
  <2>3. {first} \subseteq DOMAIN live
    BY <2>2
  <2>4. Unbuffered(live, left, {first}) \in Int /\ Unbuffered(live, left, {first}) <= left
    BY <2>3, <1>1, LessBytes
  <2>5. live[first] \in Chunk /\ first + live[first].count <= top
    BY <2>2, <1>1 DEF ChunksOk
  <2>6. PICK task : task = Task(live[first], first, at)
    OBVIOUS
  <2>7. task \in Tasks /\ task.to = first + live[first].count
        /\ task.stop <= first + live[first].count
    BY <2>2, <2>5, <2>6, TaskTypes
  <2>8. TaskOk(task, top)
    BY <2>5, <2>7 DEF TaskOk
  <2>9. ChunksOk(Without(live, {first}), top)
    BY <1>1, FewerChunks
  <2>10. applying' = task /\ buffer' = Without(live, {first})
        /\ buffered' = Unbuffered(live, left, {first})
    BY <1>2, <1>3, <2>6
  <2>11. buffered' \in Int /\ buffered' <= bytes
    <3>1. PICK u : u = Unbuffered(live, left, {first})
      OBVIOUS
    <3> QED BY <3>1, <2>4, <2>10, <1>1
  <2> QED BY <2>7, <2>8, <2>9, <2>10, <2>11
<1>4. CASE ~(DOMAIN live # {} /\ first <= at)
  BY <1>1, <1>2, <1>4 DEF TaskOk
<1> QED BY <1>3, <1>4

\* The types, and that everything in motion is of verified headers.
TypeInv ==
    /\ verifiedTo \in VerifiedAtStart..End /\ kept \in 0..End
    /\ cursor \in 0..verifiedTo /\ nextRequest \in 0..verifiedTo
    /\ rebuilding \in BOOLEAN /\ committed \in BOOLEAN
    /\ applying = NoChunk \/ applying \in Tasks
    /\ TaskOk(applying, verifiedTo)
    /\ ChunksOk(buffer, verifiedTo) /\ RequestsOk(inFlight, verifiedTo)
    /\ buffered \in Int
    /\ SpansOk(retry, verifiedTo) /\ excluded \subseteq Peers
    /\ loop \in {"off", "serve", "finish"}
    /\ outcome \in {"on", "done", "lighter", "banned", "paused"}

\* TypeOK is the part of it the runs check.
LEMMA TypesFollow == TypeInv => TypeOK
BY DEF TypeInv, TypeOK, ChunksOk, RequestsOk, SpansOk, Chunk, Tasks

\* It holds as a session starts.
LEMMA TypeInit == ASSUME BlockSyncAssumption, Init PROVE TypeInv
<1>1. Constants
  BY ConstantTypes
<1>2. TaskOk(applying, verifiedTo) /\ ChunksOk(buffer, verifiedTo)
      /\ RequestsOk(inFlight, verifiedTo) /\ SpansOk(retry, verifiedTo)
  BY DEF Init, TaskOk, ChunksOk, RequestsOk, SpansOk
<1>3. /\ verifiedTo \in VerifiedAtStart..End /\ kept \in 0..End
      /\ cursor \in 0..verifiedTo /\ nextRequest \in 0..verifiedTo
      /\ buffered \in Int /\ excluded \subseteq Peers
  BY <1>1 DEF Init, Constants
<1>4. rebuilding \in BOOLEAN /\ committed \in BOOLEAN
  BY DEF Init
<1> QED BY <1>2, <1>3, <1>4 DEF Init, TypeInv

------------------------------------------------------------------------------
\* What the actions do to requests: fewer of them are still requests.
LEMMA FewerRequests ==
  ASSUME NEW requests, NEW top, RequestsOk(requests, top), NEW K
  PROVE  RequestsOk(Without(requests, K), top)
BY DEF RequestsOk, Without

\* A request as a range.
LEMMA RequestSpan ==
  ASSUME NEW requests, NEW top, RequestsOk(requests, top), NEW k \in DOMAIN requests
  PROVE  /\ SpanOk(Span(k, requests[k].count), top) /\ k \in Nat /\ k \in 0..End
         /\ requests[k].count \in Nat \ {0} /\ requests[k].peer \in Peers
BY DEF RequestsOk, SpanOk, Spans, Span

\* Ranges joined to ranges.
LEMMA MoreSpans ==
  ASSUME NEW spans, NEW more, NEW top, SpansOk(spans, top), SpansOk(more, top)
  PROVE  SpansOk(spans \o more, top)
<1>1. spans \in Seq(Spans) /\ more \in Seq(Spans)
  BY DEF SpansOk
<1>2. spans \o more \in Seq(Spans)
  BY <1>1
<1>3. ASSUME NEW i \in DOMAIN (spans \o more) PROVE SpanOk((spans \o more)[i], top)
  <2>1. Len(spans \o more) = Len(spans) + Len(more) /\ i \in 1..Len(spans) + Len(more)
    BY <1>1
  <2>2. CASE i <= Len(spans)
    <3>1. i \in DOMAIN spans /\ (spans \o more)[i] = spans[i]
      BY <1>1, <2>1, <2>2
    <3> QED BY <3>1 DEF SpansOk
  <2>3. CASE i > Len(spans)
    <3>1. i - Len(spans) \in DOMAIN more /\ (spans \o more)[i] = more[i - Len(spans)]
      BY <1>1, <2>1, <2>3
    <3> QED BY <3>1 DEF SpansOk
  <2> QED BY <2>1, <2>2, <2>3
<1> QED BY <1>2, <1>3 DEF SpansOk

\* One range.
LEMMA OneSpan ==
  ASSUME NEW span, NEW top, SpanOk(span, top)
  PROVE  SpansOk(<<span>>, top)
BY DEF SpansOk, SpanOk

\* A range put last.
LEMMA SpanAppended ==
  ASSUME NEW spans, NEW span, NEW top, SpansOk(spans, top), SpanOk(span, top)
  PROVE  SpansOk(Append(spans, span), top)
<1>1. spans \in Seq(Spans) /\ span \in Spans
  BY DEF SpansOk, SpanOk
<1>2. Append(spans, span) \in Seq(Spans)
  BY <1>1
<1>3. ASSUME NEW i \in DOMAIN Append(spans, span) PROVE SpanOk(Append(spans, span)[i], top)
  <2>1. i \in 1..Len(spans) + 1
    BY <1>1
  <2>2. CASE i <= Len(spans)
    <3>1. i \in DOMAIN spans /\ Append(spans, span)[i] = spans[i]
      BY <1>1, <2>1, <2>2
    <3> QED BY <3>1 DEF SpansOk
  <2>3. CASE i > Len(spans)
    <3>1. Append(spans, span)[i] = span
      BY <1>1, <2>1, <2>3
    <3> QED BY <3>1
  <2> QED BY <2>1, <2>2, <2>3
<1> QED BY <1>2, <1>3 DEF SpansOk

\* More verified headers leave everything of verified headers.
LEMMA HigherTop ==
  ASSUME NEW top \in Nat, NEW higher \in Nat, top <= higher
  PROVE  /\ \A buf : ChunksOk(buf, top) => ChunksOk(buf, higher)
         /\ \A requests : RequestsOk(requests, top) => RequestsOk(requests, higher)
         /\ \A spans : SpansOk(spans, top) => SpansOk(spans, higher)
         /\ \A task : TaskOk(task, top) => TaskOk(task, higher)
<1>1. ASSUME NEW buf, ChunksOk(buf, top) PROVE ChunksOk(buf, higher)
  BY <1>1 DEF ChunksOk, Chunk
<1>2. ASSUME NEW requests, RequestsOk(requests, top) PROVE RequestsOk(requests, higher)
  BY <1>2 DEF RequestsOk
<1>3. ASSUME NEW spans, SpansOk(spans, top) PROVE SpansOk(spans, higher)
  BY <1>3 DEF SpansOk, SpanOk, Spans
<1>4. ASSUME NEW task, TaskOk(task, top) PROVE TaskOk(task, higher)
  BY <1>4 DEF TaskOk, Tasks
<1> QED BY <1>1, <1>2, <1>3, <1>4

\* The range asked for next is of verified headers.
LEMMA NextSpanOk ==
  ASSUME BlockSyncAssumption, TypeInv, NEW span \in NextSpan
  PROVE  /\ SpanOk(span, verifiedTo)
         /\ retry = <<>> => /\ span.start = nextRequest
                            /\ nextRequest + span.count \in 0..verifiedTo
         /\ retry # <<>> => span = Head(retry) /\ SpansOk(Tail(retry), verifiedTo)
<1>0. Constants
  BY ConstantTypes
<1>1. CASE retry = <<>>
  <2>1. span \in Fresh
    BY <1>1 DEF NextSpan
  <2> DEFINE n == Min({verifiedTo - nextRequest, ChunkLimit})
  <2>2. nextRequest < verifiedTo /\ span = Span(nextRequest, n)
    BY <2>1 DEF Fresh
  <2>3. verifiedTo - nextRequest \in Nat /\ verifiedTo - nextRequest > 0 /\ nextRequest \in Nat
        /\ verifiedTo \in Nat
    BY <2>2, <1>0 DEF TypeInv, Constants
  <2>4. {verifiedTo - nextRequest, ChunkLimit} \subseteq Nat
    BY <2>3, <1>0 DEF Constants
  <2>5. n \in {verifiedTo - nextRequest, ChunkLimit} /\ n \in Nat
        /\ n <= verifiedTo - nextRequest /\ n <= ChunkLimit
    BY <2>4, MinOf
  <2> HIDE DEF n
  <2>6. n > 0 /\ nextRequest + n <= verifiedTo
    BY <2>3, <2>5, <1>0 DEF Constants
  <2> QED BY <1>1, <2>2, <2>3, <2>5, <2>6 DEF SpanOk, Spans, Span
<1>2. CASE retry # <<>>
  <2>1. span = Head(retry) /\ retry \in Seq(Spans)
    BY <1>2 DEF NextSpan, TypeInv, SpansOk
  <2>2. 1 \in DOMAIN retry /\ Head(retry) = retry[1] /\ Tail(retry) \in Seq(Spans)
    BY <1>2, <2>1
  <2>3. ASSUME NEW i \in DOMAIN Tail(retry) PROVE SpanOk(Tail(retry)[i], verifiedTo)
    <3>1. i + 1 \in DOMAIN retry /\ Tail(retry)[i] = retry[i + 1]
      BY <1>2, <2>1
    <3> QED BY <3>1 DEF TypeInv, SpansOk
  <2>4. SpanOk(retry[1], verifiedTo)
    BY <2>2 DEF TypeInv, SpansOk
  <2> QED BY <1>2, <2>1, <2>2, <2>3, <2>4 DEF SpansOk
<1> QED BY <1>1, <1>2

\* schedule_batch_requests keeps the types.
LEMMA AskTypes ==
  ASSUME BlockSyncAssumption, TypeInv, Ask
  PROVE  TypeInv'
<1>1. PICK span \in NextSpan, p \in Peers :
         /\ inFlight' = With(inFlight, span.start, [peer |-> p, count |-> span.count])
         /\ IF retry # <<>>
            THEN retry' = Tail(retry) /\ UNCHANGED nextRequest
            ELSE nextRequest' = nextRequest + span.count /\ UNCHANGED retry
  BY DEF Ask
<1>2. SpanOk(span, verifiedTo) /\ verifiedTo \in Nat /\ verifiedTo <= End /\ End \in Nat
  BY NextSpanOk, ConstantTypes DEF TypeInv, Constants
<1>3. span.start \in 0..End /\ span.count \in Nat \ {0} /\ span.start + span.count <= verifiedTo
      /\ span.count <= ChunkLimit
  BY <1>2 DEF SpanOk, Spans
<1>4. RequestsOk(inFlight', verifiedTo)
  BY <1>1, <1>3 DEF TypeInv, RequestsOk, With
<1>5. nextRequest' \in 0..verifiedTo /\ SpansOk(retry', verifiedTo)
  <2>1. CASE retry = <<>>
    BY <1>1, <2>1, NextSpanOk DEF TypeInv
  <2>2. CASE retry # <<>>
    BY <1>1, <2>2, NextSpanOk DEF TypeInv
  <2> QED BY <2>1, <2>2
<1> QED BY <1>4, <1>5 DEF Ask, TypeInv

\* So does what follows an answer.
LEMMA MaybeApplyTypes ==
  ASSUME BlockSyncAssumption, TypeInv, NEW buf, NEW bytes \in Int, ChunksOk(buf, verifiedTo),
         MaybeApply(buf, bytes)
  PROVE  /\ ChunksOk(buffer', verifiedTo) /\ buffered' \in Int /\ buffered' <= bytes
         /\ TaskOk(applying', verifiedTo) /\ (applying' = NoChunk \/ applying' \in Tasks)
<1>1. CASE applying # NoChunk \/ rebuilding
  BY <1>1 DEF MaybeApply, TypeInv
<1>2. CASE ~(applying # NoChunk \/ rebuilding)
  <2>1. TryApply(buf, bytes, cursor)
    BY <1>2 DEF MaybeApply
  <2>2. cursor \in Nat /\ verifiedTo \in 0..End
    BY ConstantTypes DEF TypeInv, Constants
  <2> QED BY <2>1, <2>2, TryApplyTypes
<1> QED BY <1>1, <1>2

\* on_batches with blocks: the types, and at most a request's worth of bytes more.
LEMMA AnswerGoodTypes ==
  ASSUME BlockSyncAssumption, TypeInv, NEW k \in DOMAIN inFlight, AnswerGood(k)
  PROVE  TypeInv' /\ buffered' <= buffered + ChunkLimit
<1>1. PICK n \in 1..inFlight[k].count, bad \in k..(k + inFlight[k].count) :
         /\ retry' = RetryRest(k, n)
         /\ MaybeApply(With(buffer, k, [source |-> inFlight[k].peer, count |-> n,
                                        bad |-> IF bad < k + n THEN bad ELSE End]),
                       buffered + n)
  BY DEF AnswerGood
<1> DEFINE chunk == [source |-> inFlight[k].peer, count |-> n,
                     bad |-> IF bad < k + n THEN bad ELSE End]
<1>0. End \in Nat /\ verifiedTo \in Nat /\ verifiedTo <= End
  BY ConstantTypes DEF TypeInv, Constants
<1>2. PICK count \in Nat \ {0} : count = inFlight[k].count
  BY RequestSpan DEF TypeInv
<1>3. SpanOk(Span(k, count), verifiedTo) /\ k \in 0..End /\ inFlight[k].peer \in Peers
  BY <1>2, RequestSpan DEF TypeInv
<1>4. k + count <= verifiedTo /\ count <= ChunkLimit
  BY <1>3 DEF SpanOk, Span
<1>5. n \in Nat \ {0} /\ n <= count /\ bad \in Nat
  BY <1>1, <1>2, <1>3
<1>6. chunk \in Chunk /\ chunk.count = n
  BY <1>0, <1>3, <1>5 DEF Chunk
<1>7. k + n <= verifiedTo /\ n <= ChunkLimit
  BY <1>3, <1>4, <1>5, <1>0, ConstantTypes DEF Constants
<1> HIDE DEF chunk
<1>8. ChunksOk(With(buffer, k, chunk), verifiedTo)
  BY <1>3, <1>6, <1>7 DEF TypeInv, ChunksOk, With
<1>9. buffered + n \in Int
  BY <1>5 DEF TypeInv
<1>10. MaybeApply(With(buffer, k, chunk), buffered + n)
  BY <1>1 DEF chunk
<1>11. /\ ChunksOk(buffer', verifiedTo) /\ buffered' \in Int /\ buffered' <= buffered + n
       /\ TaskOk(applying', verifiedTo) /\ (applying' = NoChunk \/ applying' \in Tasks)
  BY <1>8, <1>9, <1>10, MaybeApplyTypes
<1>12. SpansOk(retry', verifiedTo)
  <2>1. CASE n < count
    <3>1. retry' = <<Span(k + n, count - n)>> \o retry
      BY <1>1, <1>2, <2>1 DEF RetryRest
    <3>2. SpanOk(Span(k + n, count - n), verifiedTo)
      BY <1>0, <1>3, <1>4, <1>5, <2>1, ConstantTypes DEF SpanOk, Span, Spans, Constants
    <3>3. SpansOk(<<Span(k + n, count - n)>>, verifiedTo)
      BY <3>2, OneSpan
    <3>4. SpansOk(retry, verifiedTo)
      BY DEF TypeInv
    <3> QED BY <3>1, <3>3, <3>4, MoreSpans
  <2>2. CASE ~(n < count)
    BY <1>1, <1>2, <2>2 DEF RetryRest, TypeInv
  <2> QED BY <2>1, <2>2
<1>13. RequestsOk(inFlight', verifiedTo)
  BY FewerRequests DEF AnswerGood, Answered, TypeInv
<1>14. /\ verifiedTo' = verifiedTo /\ kept' = kept /\ cursor' = cursor /\ nextRequest' = nextRequest
       /\ rebuilding' = rebuilding /\ committed' = committed /\ excluded' = excluded
       /\ loop' = "serve" /\ outcome' = outcome
  BY DEF AnswerGood
<1>15. TypeInv'
  BY <1>11, <1>12, <1>13, <1>14 DEF TypeInv
<1>16. buffered' <= buffered + ChunkLimit
  BY <1>5, <1>7, <1>11, ConstantTypes DEF TypeInv, Constants
<1> QED BY <1>15, <1>16

\* A request given back whole.
LEMMA WholeAgain ==
  ASSUME TypeInv, NEW k \in DOMAIN inFlight
  PROVE  SpansOk(RetryWhole(k), verifiedTo) /\ inFlight[k].peer \in Peers
<1>1. SpanOk(Span(k, inFlight[k].count), verifiedTo) /\ inFlight[k].peer \in Peers
  BY RequestSpan DEF TypeInv
<1>2. SpansOk(retry, verifiedTo)
  BY DEF TypeInv
<1> QED BY <1>1, <1>2, SpanAppended DEF RetryWhole

\* on_batches with nothing of use.
LEMMA AnswerUselessTypes ==
  ASSUME BlockSyncAssumption, TypeInv, NEW k \in DOMAIN inFlight, AnswerUseless(k)
  PROVE  TypeInv' /\ buffered' <= buffered
<1>1. SpansOk(retry', verifiedTo) /\ excluded' \subseteq Peers
  BY WholeAgain DEF AnswerUseless, TypeInv
<1>2. ChunksOk(buffer, verifiedTo) /\ buffered \in Int
  BY DEF TypeInv
<1>3. MaybeApply(buffer, buffered)
  BY DEF AnswerUseless
<1>4. /\ ChunksOk(buffer', verifiedTo) /\ buffered' \in Int /\ buffered' <= buffered
      /\ TaskOk(applying', verifiedTo) /\ (applying' = NoChunk \/ applying' \in Tasks)
  BY <1>2, <1>3, MaybeApplyTypes
<1>5. RequestsOk(inFlight', verifiedTo)
  BY FewerRequests DEF AnswerUseless, Answered, TypeInv
<1>6. /\ verifiedTo' = verifiedTo /\ kept' = kept /\ cursor' = cursor /\ nextRequest' = nextRequest
      /\ rebuilding' = rebuilding /\ committed' = committed
      /\ loop' = "serve" /\ outcome' = outcome
  BY DEF AnswerUseless
<1>7. TypeInv'
  BY <1>1, <1>4, <1>5, <1>6 DEF TypeInv
<1> QED BY <1>4, <1>7

\* A request that expires.
LEMMA ExpireTypes ==
  ASSUME BlockSyncAssumption, TypeInv, NEW k \in DOMAIN inFlight, Expire(k)
  PROVE  TypeInv'
<1>1. SpansOk(retry', verifiedTo) /\ excluded' \subseteq Peers
  BY WholeAgain DEF Expire, TypeInv
<1>2. RequestsOk(inFlight', verifiedTo)
  BY FewerRequests DEF Expire, Answered, TypeInv
<1> QED BY <1>1, <1>2 DEF Expire, TypeInv

\* A peer that leaves.
LEMMA LeaveTypes ==
  ASSUME BlockSyncAssumption, TypeInv, NEW p \in Helpers, Leave(p)
  PROVE  TypeInv'
<1> DEFINE lost == {k \in DOMAIN inFlight : inFlight[k].peer = p}
<1>1. PICK order \in SetToSeqs(lost) :
         retry' = retry \o [i \in DOMAIN order |-> Span(order[i], inFlight[order[i]].count)]
  BY DEF Leave
<1>2. lost \subseteq 0..End
  BY DEF TypeInv, RequestsOk
<1>3. Cardinality(lost) \in Nat
  <2> HIDE DEF lost
  <2> QED BY <1>2, FiniteDomain
<1>4. order \in [1..Cardinality(lost) -> lost]
  <2> HIDE DEF lost
  <2> QED BY DEF SetToSeqs
<1> DEFINE again == [i \in DOMAIN order |-> Span(order[i], inFlight[order[i]].count)]
<1>5. DOMAIN again = 1..Cardinality(lost)
  BY <1>4
<1>6. ASSUME NEW i \in DOMAIN again PROVE SpanOk(again[i], verifiedTo)
  <2>1. order[i] \in DOMAIN inFlight
    BY <1>4, <1>5
  <2>2. SpanOk(Span(order[i], inFlight[order[i]].count), verifiedTo)
    BY <2>1, RequestSpan DEF TypeInv
  <2> QED BY <2>2
<1>7. SpansOk(again, verifiedTo)
  <2> HIDE DEF lost
  <2>1. again = [i \in 1..Cardinality(lost) |-> again[i]]
    BY <1>5
  <2> HIDE DEF again
  <2>2. \A i \in 1..Cardinality(lost) : again[i] \in Spans
    BY <1>5, <1>6 DEF SpanOk
  <2>3. again \in Seq(Spans)
    BY <1>3, <2>1, <2>2
  <2> QED BY <2>3, <1>6 DEF SpansOk
<1>8. SpansOk(retry', verifiedTo)
  <2>1. SpansOk(retry, verifiedTo) /\ retry' = retry \o again
    BY <1>1 DEF TypeInv
  <2> HIDE DEF again
  <2> QED BY <2>1, <1>7, MoreSpans
<1>9. RequestsOk(inFlight', verifiedTo)
  BY FewerRequests DEF Leave, TypeInv
<1>10. excluded' \subseteq Peers
  BY DEF Leave, TypeInv, Peers
<1> QED BY <1>8, <1>9, <1>10 DEF Leave, TypeInv

\* on_batches_applied.
LEMMA AppliedTypes ==
  ASSUME BlockSyncAssumption, TypeInv, Applied
  PROVE  TypeInv' /\ buffered' <= buffered
<1>0. End \in Nat /\ verifiedTo \in Nat /\ verifiedTo <= End /\ NoChunk \notin Tasks
      /\ OutweighsAt \in Nat
  BY ConstantTypes DEF TypeInv, Constants
<1>1. applying.to \in Nat /\ applying.to <= verifiedTo
  BY DEF Applied, TypeInv, TaskOk, Tasks
<1>2. ChunksOk(buffer, verifiedTo) /\ buffered \in Int /\ verifiedTo \in 0..End
  BY <1>0 DEF TypeInv
<1>3. /\ ChunksOk(buffer', verifiedTo) /\ buffered' \in Int /\ buffered' <= buffered
      /\ TaskOk(applying', verifiedTo) /\ (applying' = NoChunk \/ applying' \in Tasks)
  BY <1>1, <1>2, TryApplyTypes DEF Applied
<1>4. cursor' \in 0..verifiedTo /\ kept' \in 0..End /\ committed' \in BOOLEAN
  BY <1>0, <1>1 DEF Applied, HeadersDropped, CommitsTo, TypeInv
<1>5. TypeInv'
  BY <1>3, <1>4 DEF Applied, TypeInv
<1> QED BY <1>3, <1>5

\* What the cursor waits for after an invalid block.
LEMMA GapOk ==
  ASSUME BlockSyncAssumption, TypeInv, NEW at \in Nat, NEW rest, ChunksOk(rest, verifiedTo)
  PROVE  SpansOk(Gap(at, rest), verifiedTo)
<1>0. Constants
  BY ConstantTypes
<1> DEFINE ends == {verifiedTo, at + ChunkLimit} \cup DOMAIN rest
           upTo == Min(ends)
<1>1. ends \subseteq Nat /\ ends # {}
  BY <1>0 DEF ChunksOk, Constants, TypeInv
<1>2. upTo \in Nat /\ upTo <= verifiedTo /\ upTo <= at + ChunkLimit
  <2>1. verifiedTo \in ends /\ at + ChunkLimit \in ends
    OBVIOUS
  <2> HIDE DEF ends
  <2> QED BY <1>1, <2>1, MinOf
<1> HIDE DEF upTo
<1>3. CASE upTo > at
  <2>1. SpanOk(Span(at, upTo - at), verifiedTo)
    BY <1>0, <1>2, <1>3 DEF SpanOk, Span, Spans, Constants, TypeInv
  <2>2. SpansOk(<<Span(at, upTo - at)>>, verifiedTo)
    BY <2>1, OneSpan
  <2> QED BY <1>3, <2>2 DEF Gap, upTo
<1>4. CASE ~(upTo > at)
  <2>1. SpansOk(<<>>, verifiedTo)
    BY DEF SpansOk
  <2> QED BY <1>4, <2>1 DEF Gap, upTo
<1> QED BY <1>3, <1>4

\* on_batches_applied after an invalid block.
LEMMA AppliedInPartTypes ==
  ASSUME BlockSyncAssumption, TypeInv, AppliedInPart
  PROVE  TypeInv' /\ buffered' <= buffered
<1>0. End \in Nat /\ verifiedTo \in Nat /\ verifiedTo <= End /\ NoChunk \notin Tasks
      /\ OutweighsAt \in Nat
  BY ConstantTypes DEF TypeInv, Constants
<1>1. /\ applying \in Tasks /\ applying.to <= verifiedTo /\ applying.stop \in Nat
      /\ applying.stop <= applying.to /\ applying.source \in Peers
  BY DEF AppliedInPart, TypeInv, TaskOk, Tasks
<1>2. applying.stop <= verifiedTo
  BY <1>0, <1>1 DEF Tasks
<1> DEFINE rest == Without(buffer, Theirs)
<1>3. ChunksOk(buffer, verifiedTo) /\ buffered \in Int /\ verifiedTo \in 0..End
  BY <1>0 DEF TypeInv
<1>4. Theirs \subseteq DOMAIN buffer /\ Theirs \subseteq 0..End
  BY <1>3 DEF Theirs, ChunksOk
<1>5. ChunksOk(rest, verifiedTo)
  BY <1>3, FewerChunks
<1>6. PICK left : left = Unbuffered(buffer, buffered, Theirs)
  OBVIOUS
<1>7. left \in Int /\ left <= buffered
  BY <1>3, <1>4, <1>6, LessBytes
<1>8. TryApply(rest, left, applying.stop)
  BY <1>6 DEF AppliedInPart
<1> HIDE DEF rest
<1>9. /\ ChunksOk(buffer', verifiedTo) /\ buffered' \in Int /\ buffered' <= left
      /\ TaskOk(applying', verifiedTo) /\ (applying' = NoChunk \/ applying' \in Tasks)
  BY <1>1, <1>3, <1>5, <1>7, <1>8, TryApplyTypes
<1>10. PICK order \in SetToSeqs(Theirs) :
          retry' = Gap(applying.stop, rest) \o retry
                     \o [i \in DOMAIN order |-> Span(order[i], buffer[order[i]].count)]
  BY DEF AppliedInPart, rest
<1>11. Cardinality(Theirs) \in Nat
  BY <1>4, FiniteDomain
<1>12. order \in [1..Cardinality(Theirs) -> Theirs]
  BY DEF SetToSeqs
<1> DEFINE again == [i \in DOMAIN order |-> Span(order[i], buffer[order[i]].count)]
<1>13. DOMAIN again = 1..Cardinality(Theirs)
  BY <1>12
<1>14. ASSUME NEW i \in DOMAIN again PROVE SpanOk(again[i], verifiedTo)
  <2>1. order[i] \in DOMAIN buffer
    BY <1>4, <1>12, <1>13
  <2>2. SpanOk(Span(order[i], buffer[order[i]].count), verifiedTo)
    BY <2>1, <1>3 DEF ChunksOk, Chunk, SpanOk, Span, Spans
  <2> QED BY <2>2
<1>15. SpansOk(again, verifiedTo)
  <2>1. again = [i \in 1..Cardinality(Theirs) |-> again[i]]
    BY <1>13
  <2> HIDE DEF again
  <2>2. \A i \in 1..Cardinality(Theirs) : again[i] \in Spans
    BY <1>13, <1>14 DEF SpanOk
  <2>3. again \in Seq(Spans)
    BY <1>11, <2>1, <2>2
  <2> QED BY <2>3, <1>14 DEF SpansOk
<1>16. SpansOk(retry', verifiedTo)
  <2>1. SpansOk(Gap(applying.stop, rest), verifiedTo) /\ SpansOk(retry, verifiedTo)
    BY <1>1, <1>5, GapOk DEF TypeInv
  <2>2. SpansOk(Gap(applying.stop, rest) \o retry, verifiedTo)
    BY <2>1, MoreSpans
  <2> HIDE DEF again
  <2>3. retry' = (Gap(applying.stop, rest) \o retry) \o again
    BY <1>10 DEF again
  <2> QED BY <2>2, <2>3, <1>15, MoreSpans
<1>17. cursor' \in 0..verifiedTo /\ kept' \in 0..End /\ committed' \in BOOLEAN
       /\ excluded' \subseteq Peers
  BY <1>0, <1>1, <1>2 DEF AppliedInPart, HeadersDropped, CommitsTo, TypeInv
<1>18. TypeInv'
  BY <1>9, <1>16, <1>17 DEF AppliedInPart, TypeInv
<1>19. buffered' <= buffered
  BY <1>3, <1>7, <1>9
<1> QED BY <1>18, <1>19

\* on_fork_state.
LEMMA ForkStateTypes ==
  ASSUME BlockSyncAssumption, TypeInv, ForkState
  PROVE  TypeInv' /\ buffered' <= buffered
<1>1. ChunksOk(buffer, verifiedTo) /\ buffered \in Int /\ verifiedTo \in 0..End /\ cursor \in Nat
  BY ConstantTypes DEF TypeInv, Constants
<1>2. /\ ChunksOk(buffer', verifiedTo) /\ buffered' \in Int /\ buffered' <= buffered
      /\ TaskOk(applying', verifiedTo) /\ (applying' = NoChunk \/ applying' \in Tasks)
  BY <1>1, TryApplyTypes DEF ForkState
<1>3. TypeInv'
  BY <1>2 DEF ForkState, TypeInv
<1> QED BY <1>2, <1>3

\* Every step keeps the types.
LEMMA TypeStep ==
  ASSUME BlockSyncAssumption, TypeInv, [Next]_vars
  PROVE  TypeInv'
<1>1. CASE Ask
  BY <1>1, AskTypes
<1>2. CASE EndLoop
  BY <1>2 DEF EndLoop, TypeInv
<1>3. CASE Tick
  BY <1>3 DEF Tick, TypeInv
<1>4. CASE MoreHeaders
  <2>1. /\ verifiedTo \in Nat /\ verifiedTo' \in Nat /\ verifiedTo <= verifiedTo'
        /\ verifiedTo' \in VerifiedAtStart..End /\ verifiedTo' \in 0..End
        /\ cursor \in 0..verifiedTo' /\ nextRequest \in 0..verifiedTo'
    BY <1>4, ConstantTypes DEF MoreHeaders, TypeInv, Constants
  <2>2. /\ ChunksOk(buffer, verifiedTo') /\ RequestsOk(inFlight, verifiedTo')
        /\ SpansOk(retry, verifiedTo') /\ TaskOk(applying, verifiedTo')
    BY <2>1, HigherTop DEF TypeInv
  <2>3. /\ buffer' = buffer /\ inFlight' = inFlight /\ retry' = retry /\ applying' = applying
        /\ kept' = kept /\ cursor' = cursor /\ nextRequest' = nextRequest /\ buffered' = buffered
        /\ rebuilding' = rebuilding /\ committed' = committed /\ excluded' = excluded
        /\ loop' = "finish" /\ outcome' = outcome
    BY <1>4 DEF MoreHeaders
  <2> QED BY <2>1, <2>2, <2>3 DEF TypeInv
<1>5. CASE ForkState
  BY <1>5, ForkStateTypes
<1>6. CASE Applied
  BY <1>6, AppliedTypes
<1>7. CASE AppliedInPart
  BY <1>7, AppliedInPartTypes
<1>8. ASSUME NEW k \in DOMAIN inFlight, AnswerGood(k) PROVE TypeInv'
  BY <1>8, AnswerGoodTypes
<1>9. ASSUME NEW k \in DOMAIN inFlight, AnswerUseless(k) PROVE TypeInv'
  BY <1>9, AnswerUselessTypes
<1>10. ASSUME NEW k \in DOMAIN inFlight, AnswerUnmatched(k) PROVE TypeInv'
  <2>1. RequestsOk(inFlight', verifiedTo)
    BY <1>10, FewerRequests DEF AnswerUnmatched, Answered, TypeInv
  <2> QED BY <1>10, <2>1 DEF AnswerUnmatched, TypeInv
<1>11. ASSUME NEW k \in DOMAIN inFlight, Expire(k) PROVE TypeInv'
  BY <1>11, ExpireTypes
<1>12. ASSUME NEW p \in Helpers, Leave(p) PROVE TypeInv'
  BY <1>12, LeaveTypes
<1>13. CASE TimeOut \/ Abort
  BY <1>13 DEF TimeOut, Abort, TypeInv
<1>14. CASE Over \/ UNCHANGED vars
  BY <1>14 DEF Over, vars, TypeInv
<1> QED BY <1>1, <1>2, <1>3, <1>4, <1>5, <1>6, <1>7, <1>8, <1>9, <1>10, <1>11, <1>12,
           <1>13, <1>14 DEF Next

\* The type invariant of a session (BlockSync's fields): no handler leaves a cursor, a range
\* or a chunk above the verified headers, whatever peers answer.
THEOREM TypeCorrect == ASSUME BlockSyncAssumption PROVE Spec => []TypeOK
<1>1. Init => TypeInv
  BY TypeInit
<1>2. TypeInv /\ [Next]_vars => TypeInv'
  BY TypeStep
<1> QED BY <1>1, <1>2, TypesFollow, PTL DEF Spec

------------------------------------------------------------------------------
\* Ranges of blocks that have none in common.
Clear(a, m, b, n) == a + m <= b \/ b + n <= a

\* Chunks, requests and ranges apart from each other.
ApartWithin(f) ==
    \A j, k \in DOMAIN f : j # k => Clear(j, f[j].count, k, f[k].count)
Apart(f, g) ==
    \A j \in DOMAIN f, k \in DOMAIN g : Clear(j, f[j].count, k, g[k].count)
SpansApart(spans) ==
    \A i, j \in DOMAIN spans :
       i # j => Clear(spans[i].start, spans[i].count, spans[j].start, spans[j].count)
ApartFrom(f, spans) ==
    \A k \in DOMAIN f, i \in DOMAIN spans : Clear(k, f[k].count, spans[i].start, spans[i].count)

\* A map of counts by height, and within bounds.
Shaped(f) == DOMAIN f \subseteq Nat /\ \A k \in DOMAIN f : f[k].count \in Nat \ {0}
Within(f, low, high) == \A k \in DOMAIN f : low <= k /\ k + f[k].count <= high
SpansWithin(spans, low, high) ==
    \A i \in DOMAIN spans : low <= spans[i].start /\ spans[i].start + spans[i].count <= high

\* A height in a map of ranges, or in a sequence of them.
Held(f, h) == \E k \in DOMAIN f : InSpan(h, k, f[k].count)
Queued(spans, h) == \E i \in DOMAIN spans : InSpan(h, spans[i].start, spans[i].count)

\* What is buffered, on its way or to be asked for again covers the heights from
\* low to high, each once.
Tiled(buf, requests, spans, low, high) ==
    /\ Shaped(buf) /\ Shaped(requests) /\ spans \in Seq(Spans) /\ low \in Nat /\ high \in Nat
    /\ ApartWithin(buf) /\ ApartWithin(requests) /\ SpansApart(spans)
    /\ Apart(buf, requests) /\ ApartFrom(buf, spans) /\ ApartFrom(requests, spans)
    /\ Within(buf, low, high) /\ Within(requests, low, high) /\ SpansWithin(spans, low, high)
    /\ \A h \in low..(high - 1) : Held(buf, h) \/ Held(requests, h) \/ Queued(spans, h)

\* The fields of a range.
LEMMA SpanTypes ==
  ASSUME NEW spans \in Seq(Spans), NEW i \in DOMAIN spans
  PROVE  spans[i].start \in Nat /\ spans[i].count \in Nat \ {0}
<1>1. spans[i] \in Spans
  OBVIOUS
<1> QED BY <1>1 DEF Spans

\* Asking again for a range moves it from the sequence to the requests.
LEMMA RetryAsked ==
  ASSUME NEW buf, NEW requests, NEW spans, NEW low, NEW high, NEW p,
         Tiled(buf, requests, spans, low, high), spans # <<>>
  PROVE  Tiled(buf, With(requests, Head(spans).start, [peer |-> p, count |-> Head(spans).count]),
               Tail(spans), low, high)
<1>0. spans \in Seq(Spans) /\ low \in Nat /\ high \in Nat
  BY DEF Tiled
<1>1. PICK s, n : s = Head(spans).start /\ n = Head(spans).count
  OBVIOUS
<1>2. 1 \in DOMAIN spans /\ spans[1].start = s /\ spans[1].count = n
      /\ s \in Nat /\ n \in Nat \ {0}
  <2>1. 1 \in DOMAIN spans /\ spans[1] = Head(spans)
    BY <1>0
  <2> QED BY <1>0, <1>1, <2>1, SpanTypes
<1> DEFINE asked == With(requests, s, [peer |-> p, count |-> n])
           rest == Tail(spans)
<1>3. rest \in Seq(Spans) /\ \A i \in DOMAIN rest : i + 1 \in DOMAIN spans /\ i + 1 # 1
      /\ rest[i] = spans[i + 1]
  BY <1>0
<1>4. \A i \in DOMAIN spans : i # 1 => i - 1 \in DOMAIN rest /\ rest[i - 1] = spans[i]
  BY <1>0
<1>5. s \notin DOMAIN requests
  BY <1>2 DEF Tiled, ApartFrom, Clear, Shaped
<1>6. /\ DOMAIN asked = DOMAIN requests \cup {s} /\ asked[s].count = n
      /\ \A k \in DOMAIN requests : asked[k] = requests[k]
  BY <1>5 DEF With
<1>7. \A i \in DOMAIN rest : rest[i].start \in Nat /\ rest[i].count \in Nat
  BY <1>3, SpanTypes
<1> HIDE DEF asked, rest
<1>8. Shaped(asked)
  BY <1>2, <1>6 DEF Tiled, Shaped
<1>9. ApartWithin(asked)
  <2>1. ASSUME NEW k \in DOMAIN requests
        PROVE Clear(k, requests[k].count, s, n) /\ Clear(s, n, k, requests[k].count)
    BY <1>2 DEF Tiled, ApartFrom, Clear
  <2> QED BY <1>6, <2>1 DEF Tiled, ApartWithin
<1>10. SpansApart(rest)
  BY <1>3 DEF Tiled, SpansApart
<1>11. Apart(buf, asked)
  <2>1. ASSUME NEW k \in DOMAIN buf PROVE Clear(k, buf[k].count, s, n)
    BY <1>2 DEF Tiled, ApartFrom
  <2> QED BY <1>6, <2>1 DEF Tiled, Apart
<1>12. ApartFrom(buf, rest)
  BY <1>3 DEF Tiled, ApartFrom
<1>13. ApartFrom(asked, rest)
  <2>1. ASSUME NEW i \in DOMAIN rest PROVE Clear(s, n, rest[i].start, rest[i].count)
    BY <1>2, <1>3 DEF Tiled, SpansApart
  <2>2. ASSUME NEW i \in DOMAIN rest, NEW k \in DOMAIN requests
        PROVE Clear(k, requests[k].count, rest[i].start, rest[i].count)
    BY <1>3 DEF Tiled, ApartFrom
  <2> QED BY <1>6, <2>1, <2>2 DEF ApartFrom
<1>14. Within(asked, low, high) /\ SpansWithin(rest, low, high)
  BY <1>2, <1>3, <1>6 DEF Tiled, Within, SpansWithin
<1>15. ASSUME NEW h \in low..(high - 1) PROVE Held(buf, h) \/ Held(asked, h) \/ Queued(rest, h)
  <2>1. CASE Held(buf, h)
    BY <2>1
  <2>2. CASE Held(requests, h)
    BY <2>2, <1>6 DEF Held
  <2>3. CASE Queued(spans, h)
    <3>1. PICK i \in DOMAIN spans : InSpan(h, spans[i].start, spans[i].count)
      BY <2>3 DEF Queued
    <3>2. CASE i = 1
      BY <3>1, <3>2, <1>2, <1>6 DEF Held
    <3>3. CASE i # 1
      BY <3>1, <3>3, <1>4 DEF Queued
    <3> QED BY <3>2, <3>3
  <2> QED BY <2>1, <2>2, <2>3 DEF Tiled
<1>16. Tiled(buf, asked, rest, low, high)
  BY <1>0, <1>3, <1>8, <1>9, <1>10, <1>11, <1>12, <1>13, <1>14, <1>15 DEF Tiled
<1> QED BY <1>1, <1>16 DEF asked, rest

\* Asking for the next range lengthens what is covered.
LEMMA MoreAsked ==
  ASSUME NEW buf, NEW requests, NEW spans, NEW low, NEW high, NEW p, NEW n \in Nat \ {0},
         Tiled(buf, requests, spans, low, high), low <= high
  PROVE  Tiled(buf, With(requests, high, [peer |-> p, count |-> n]), spans, low, high + n)
<1>0. spans \in Seq(Spans) /\ low \in Nat /\ high \in Nat /\ high + n \in Nat
  BY DEF Tiled
<1> DEFINE asked == With(requests, high, [peer |-> p, count |-> n])
<1>s. \A k \in DOMAIN requests : k \in Nat /\ requests[k].count \in Nat \ {0}
      /\ k + requests[k].count <= high /\ low <= k
  BY DEF Tiled, Shaped, Within
<1>b. \A k \in DOMAIN buf : k \in Nat /\ buf[k].count \in Nat \ {0}
      /\ k + buf[k].count <= high /\ low <= k
  BY DEF Tiled, Shaped, Within
<1>q. \A i \in DOMAIN spans : spans[i].start \in Nat /\ spans[i].count \in Nat \ {0}
        /\ spans[i].start + spans[i].count <= high /\ low <= spans[i].start
  BY <1>0, SpanTypes DEF Tiled, SpansWithin
<1>5. high \notin DOMAIN requests
  BY <1>0, <1>s
<1>6. /\ DOMAIN asked = DOMAIN requests \cup {high} /\ asked[high].count = n
      /\ \A k \in DOMAIN requests : asked[k] = requests[k]
  BY <1>5 DEF With
<1> HIDE DEF asked
<1>8. Shaped(asked)
  BY <1>0, <1>6 DEF Tiled, Shaped
<1>9. ApartWithin(asked)
  BY <1>6, <1>s DEF Tiled, ApartWithin, Clear
<1>11. Apart(buf, asked)
  BY <1>6, <1>b DEF Tiled, Apart, Clear
<1>13. ApartFrom(asked, spans)
  BY <1>6, <1>q DEF Tiled, ApartFrom, Clear
<1>14. Within(asked, low, high + n)
  <2>1. ASSUME NEW k \in DOMAIN requests PROVE low <= k /\ k + requests[k].count <= high + n
    BY <1>0, <1>s
  <2>2. low <= high /\ high + n <= high + n
    BY <1>0
  <2> QED BY <2>1, <2>2, <1>6 DEF Within
<1>16. Within(buf, low, high + n) /\ SpansWithin(spans, low, high + n)
  BY <1>0, <1>b, <1>q DEF Within, SpansWithin
<1>15. ASSUME NEW h \in low..(high + n - 1) PROVE Held(buf, h) \/ Held(asked, h) \/ Queued(spans, h)
  <2>1. CASE h < high
    <3>1. h \in low..(high - 1)
      BY <1>0, <2>1
    <3>2. Held(requests, h) => Held(asked, h)
      BY <1>6 DEF Held
    <3> QED BY <3>1, <3>2 DEF Tiled
  <2>2. CASE ~(h < high)
    <3>1. InSpan(h, high, n)
      BY <1>0, <2>2 DEF InSpan
    <3> QED BY <3>1, <1>6 DEF Held
  <2> QED BY <2>1, <2>2
<1> QED BY <1>0, <1>8, <1>9, <1>11, <1>13, <1>14, <1>15, <1>16 DEF Tiled, asked

\* An answer of n blocks to request k, the rest of which goes to the front.
LEMMA AnswerTiles ==
  ASSUME NEW buf, NEW requests, NEW spans, NEW low, NEW high, NEW k \in DOMAIN requests,
         NEW n \in Nat \ {0}, n <= requests[k].count, NEW chunk, chunk.count = n,
         Tiled(buf, requests, spans, low, high)
  PROVE  Tiled(With(buf, k, chunk), Without(requests, {k}),
               IF n < requests[k].count THEN <<Span(k + n, requests[k].count - n)>> \o spans ELSE spans,
               low, high)
<1>0. spans \in Seq(Spans) /\ low \in Nat /\ high \in Nat
  BY DEF Tiled
<1>1. PICK count : count = requests[k].count
  OBVIOUS
<1>2. k \in Nat /\ count \in Nat \ {0} /\ n <= count /\ low <= k /\ k + count <= high
  BY <1>1 DEF Tiled, Shaped, Within
<1>r. \A j \in DOMAIN requests : j \in Nat /\ requests[j].count \in Nat \ {0}
  BY DEF Tiled, Shaped
<1>b. \A j \in DOMAIN buf : j \in Nat /\ buf[j].count \in Nat \ {0}
  BY DEF Tiled, Shaped
<1>q. \A i \in DOMAIN spans : spans[i].start \in Nat /\ spans[i].count \in Nat \ {0}
  BY <1>0, SpanTypes
<1>3. /\ \A j \in DOMAIN requests : j # k => Clear(k, count, j, requests[j].count)
      /\ \A j \in DOMAIN buf : Clear(j, buf[j].count, k, count)
      /\ \A i \in DOMAIN spans : Clear(k, count, spans[i].start, spans[i].count)
  BY <1>1 DEF Tiled, ApartWithin, Apart, ApartFrom
<1>4. k \notin DOMAIN buf
  BY <1>2, <1>3, <1>b DEF Clear
<1> DEFINE more == With(buf, k, chunk)
           left == Without(requests, {k})
<1>5. /\ DOMAIN more = DOMAIN buf \cup {k} /\ more[k].count = n
      /\ \A j \in DOMAIN buf : more[j] = buf[j]
  BY <1>4 DEF With
<1>6. DOMAIN left = DOMAIN requests \ {k} /\ \A j \in DOMAIN left : left[j] = requests[j]
  BY DEF Without
<1> HIDE DEF more, left
<1>7. /\ \A j \in DOMAIN requests : j # k => Clear(k, n, j, requests[j].count)
      /\ \A j \in DOMAIN buf : Clear(j, buf[j].count, k, n) /\ Clear(k, n, j, buf[j].count)
      /\ \A i \in DOMAIN spans : Clear(k, n, spans[i].start, spans[i].count)
  BY <1>2, <1>3, <1>r, <1>b, <1>q DEF Clear
<1>8. Shaped(more) /\ Shaped(left)
  BY <1>2, <1>5, <1>6 DEF Tiled, Shaped
<1>9. ApartWithin(more)
  BY <1>5, <1>7 DEF Tiled, ApartWithin
<1>10. ApartWithin(left)
  BY <1>6 DEF Tiled, ApartWithin
<1>11. Apart(more, left)
  BY <1>5, <1>6, <1>7 DEF Tiled, Apart
<1>12. ApartFrom(more, spans)
  BY <1>5, <1>7 DEF Tiled, ApartFrom
<1>13. ApartFrom(left, spans)
  BY <1>6 DEF Tiled, ApartFrom
<1>14. Within(more, low, high) /\ Within(left, low, high)
  <2>1. k + n <= high /\ low <= k
    BY <1>2, <1>0
  <2> QED BY <2>1, <1>5, <1>6 DEF Tiled, Within
<1>15. ASSUME NEW h \in low..(high - 1)
       PROVE \/ Held(more, h) \/ Held(left, h) \/ Queued(spans, h)
             \/ n < count /\ InSpan(h, k + n, count - n)
  <2>1. CASE Held(buf, h)
    BY <2>1, <1>5 DEF Held
  <2>2. CASE Held(requests, h)
    <3>1. PICK j \in DOMAIN requests : InSpan(h, j, requests[j].count)
      BY <2>2 DEF Held
    <3>2. CASE j = k
      <4>1. InSpan(h, k, count) /\ h \in Int
        BY <1>0, <1>1, <3>1, <3>2
      <4>2. InSpan(h, k, n) \/ (n < count /\ InSpan(h, k + n, count - n))
        <5>1. CASE h < k + n
          BY <1>1, <1>2, <4>1, <5>1 DEF InSpan
        <5>2. CASE ~(h < k + n)
          BY <1>1, <1>2, <4>1, <5>2 DEF InSpan
        <5> QED BY <5>1, <5>2
      <4>3. k \in DOMAIN more /\ more[k].count = n
        BY <1>5
      <4>4. CASE InSpan(h, k, n)
        BY <4>3, <4>4 DEF Held
      <4> QED BY <4>2, <4>4
    <3>3. CASE j # k
      BY <3>1, <3>3, <1>6 DEF Held
    <3> QED BY <3>2, <3>3
  <2> QED BY <2>1, <2>2 DEF Tiled
<1>16. CASE ~(n < count)
  <2>1. Tiled(more, left, spans, low, high)
    BY <1>0, <1>8, <1>9, <1>10, <1>11, <1>12, <1>13, <1>14, <1>15, <1>16 DEF Tiled
  <2> QED BY <2>1, <1>1, <1>16 DEF more, left
<1>17. CASE n < count
  <2> DEFINE rest == Span(k + n, count - n)
             again == <<rest>> \o spans
  <2>1. rest \in Spans /\ rest.start = k + n /\ rest.count = count - n /\ rest.count \in Nat
        /\ rest.start \in Nat
    BY <1>2, <1>17 DEF Spans, Span
  <2> HIDE DEF rest
  <2>2. /\ again \in Seq(Spans) /\ 1 \in DOMAIN again /\ again[1] = rest
        /\ \A i \in DOMAIN again : i # 1 => i - 1 \in DOMAIN spans /\ again[i] = spans[i - 1]
        /\ \A i \in DOMAIN spans : i + 1 \in DOMAIN again /\ again[i + 1] = spans[i]
    BY <1>0, <2>1
  <2> HIDE DEF again
  <2>3. /\ \A j \in DOMAIN requests : j # k => Clear(j, requests[j].count, rest.start, rest.count)
        /\ \A j \in DOMAIN buf : Clear(j, buf[j].count, rest.start, rest.count)
        /\ \A i \in DOMAIN spans : /\ Clear(rest.start, rest.count, spans[i].start, spans[i].count)
                                   /\ Clear(spans[i].start, spans[i].count, rest.start, rest.count)
        /\ Clear(k, n, rest.start, rest.count)
    BY <1>2, <1>3, <1>17, <1>r, <1>b, <1>q, <2>1 DEF Clear
  <2>4. SpansApart(again)
    <3>1. ASSUME NEW i \in DOMAIN again, NEW j \in DOMAIN again, i # j
          PROVE Clear(again[i].start, again[i].count, again[j].start, again[j].count)
      <4>1. CASE i = 1
        BY <4>1, <3>1, <2>2, <2>3
      <4>2. CASE j = 1
        BY <4>2, <3>1, <2>2, <2>3
      <4>3. CASE i # 1 /\ j # 1
        <5>1. i - 1 # j - 1
          BY <3>1, <2>2
        <5> QED BY <4>3, <5>1, <2>2 DEF Tiled, SpansApart
      <4> QED BY <4>1, <4>2, <4>3
    <3> QED BY <3>1 DEF SpansApart
  <2>5. ApartFrom(more, again)
    <3>1. ASSUME NEW j \in DOMAIN more, NEW i \in DOMAIN again
          PROVE Clear(j, more[j].count, again[i].start, again[i].count)
      <4>1. CASE i = 1
        BY <4>1, <1>5, <2>2, <2>3
      <4>2. CASE i # 1
        BY <4>2, <1>12, <2>2 DEF ApartFrom
      <4> QED BY <4>1, <4>2
    <3> QED BY <3>1 DEF ApartFrom
  <2>6. ApartFrom(left, again)
    <3>1. ASSUME NEW j \in DOMAIN left, NEW i \in DOMAIN again
          PROVE Clear(j, left[j].count, again[i].start, again[i].count)
      <4>1. CASE i = 1
        BY <4>1, <1>6, <2>2, <2>3
      <4>2. CASE i # 1
        BY <4>2, <1>13, <2>2 DEF ApartFrom
      <4> QED BY <4>1, <4>2
    <3> QED BY <3>1 DEF ApartFrom
  <2>7. SpansWithin(again, low, high)
    <3>1. low <= rest.start /\ rest.start + rest.count <= high
      BY <1>0, <1>2, <2>1
    <3> QED BY <3>1, <2>2 DEF Tiled, SpansWithin
  <2>8. ASSUME NEW h \in low..(high - 1)
        PROVE Held(more, h) \/ Held(left, h) \/ Queued(again, h)
    <3>1. Queued(spans, h) => Queued(again, h)
      BY <2>2 DEF Queued
    <3>2. InSpan(h, k + n, count - n) => Queued(again, h)
      BY <2>1, <2>2 DEF Queued
    <3> QED BY <3>1, <3>2, <1>15
  <2>9. Tiled(more, left, again, low, high)
    BY <1>0, <1>8, <1>9, <1>10, <1>11, <1>14, <2>2, <2>4, <2>5, <2>6, <2>7, <2>8 DEF Tiled
  <2> QED BY <2>9, <1>1, <1>17 DEF more, left, again, rest
<1> QED BY <1>16, <1>17

------------------------------------------------------------------------------
\* A sequence that asks again for each of some requests, once.
Lists(again, requests, lost) ==
    /\ again \in Seq(Spans)
    /\ \A i \in DOMAIN again : /\ again[i].start \in lost
                               /\ again[i].count = requests[again[i].start].count
    /\ \A i, j \in DOMAIN again : i # j => again[i].start # again[j].start
    /\ \A k \in lost : \E i \in DOMAIN again : again[i].start = k

\* The elements of a joined sequence.
LEMMA Joined ==
  ASSUME NEW s \in Seq(Spans), NEW t \in Seq(Spans)
  PROVE  /\ s \o t \in Seq(Spans)
         /\ \A i \in DOMAIN (s \o t) :
               \/ i \in DOMAIN s /\ (s \o t)[i] = s[i]
               \/ i - Len(s) \in DOMAIN t /\ (s \o t)[i] = t[i - Len(s)] /\ i \notin DOMAIN s
         /\ \A i \in DOMAIN s : i \in DOMAIN (s \o t) /\ (s \o t)[i] = s[i]
         /\ \A i \in DOMAIN t : i + Len(s) \in DOMAIN (s \o t) /\ (s \o t)[i + Len(s)] = t[i]
         /\ DOMAIN (s \o t) \subseteq Nat /\ Len(s) \in Nat
OBVIOUS

\* Requests given back move to the sequence.
LEMMA ReturnedTiles ==
  ASSUME NEW buf, NEW requests, NEW spans, NEW low, NEW high, NEW lost, lost \subseteq DOMAIN requests,
         NEW again, Lists(again, requests, lost), Tiled(buf, requests, spans, low, high)
  PROVE  Tiled(buf, Without(requests, lost), spans \o again, low, high)
<1>0. spans \in Seq(Spans) /\ low \in Nat /\ high \in Nat /\ again \in Seq(Spans)
  BY DEF Tiled, Lists
<1> DEFINE left == Without(requests, lost)
           all == spans \o again
<1>1. DOMAIN left = DOMAIN requests \ lost /\ \A j \in DOMAIN left : left[j] = requests[j]
  BY DEF Without
<1>2. /\ all \in Seq(Spans)
      /\ \A i \in DOMAIN all : \/ i \in DOMAIN spans /\ all[i] = spans[i]
                               \/ /\ i - Len(spans) \in DOMAIN again
                                  /\ all[i] = again[i - Len(spans)] /\ i \notin DOMAIN spans
      /\ \A i \in DOMAIN spans : i \in DOMAIN all /\ all[i] = spans[i]
      /\ \A i \in DOMAIN again : i + Len(spans) \in DOMAIN all /\ all[i + Len(spans)] = again[i]
      /\ DOMAIN all \subseteq Nat /\ Len(spans) \in Nat
  BY <1>0, Joined
<1> HIDE DEF left, all
<1>3. ASSUME NEW i \in DOMAIN again
      PROVE \E k \in lost : k \in DOMAIN requests /\ again[i].start = k /\ again[i].count = requests[k].count
  BY DEF Lists
<1>s. ASSUME NEW i \in DOMAIN again, NEW j \in DOMAIN spans
      PROVE /\ Clear(again[i].start, again[i].count, spans[j].start, spans[j].count)
            /\ Clear(spans[j].start, spans[j].count, again[i].start, again[i].count)
  BY <1>3 DEF Tiled, ApartFrom, Clear
<1>t. ASSUME NEW i \in DOMAIN again, NEW j \in DOMAIN again, i # j
      PROVE Clear(again[i].start, again[i].count, again[j].start, again[j].count)
  <2>1. PICK k \in lost : k \in DOMAIN requests /\ again[i].start = k
        /\ again[i].count = requests[k].count
    BY <1>3
  <2>2. PICK m \in lost : m \in DOMAIN requests /\ again[j].start = m
        /\ again[j].count = requests[m].count
    BY <1>3
  <2>3. k # m
    BY <1>t, <2>1, <2>2 DEF Lists
  <2> QED BY <2>1, <2>2, <2>3 DEF Tiled, ApartWithin
<1>4. Shaped(left) /\ Within(left, low, high) /\ ApartWithin(left) /\ Apart(buf, left)
  <2>1. Shaped(left)
    BY <1>1 DEF Tiled, Shaped
  <2>2. Within(left, low, high)
    BY <1>1 DEF Tiled, Within
  <2>3. ApartWithin(left)
    BY <1>1 DEF Tiled, ApartWithin
  <2>4. Apart(buf, left)
    BY <1>1 DEF Tiled, Apart
  <2> QED BY <2>1, <2>2, <2>3, <2>4
<1>5. SpansApart(all)
  <2>1. ASSUME NEW i \in DOMAIN all, NEW j \in DOMAIN all, i # j
        PROVE Clear(all[i].start, all[i].count, all[j].start, all[j].count)
    <3>1. CASE i \in DOMAIN spans /\ j \in DOMAIN spans
      BY <2>1, <3>1, <1>2 DEF Tiled, SpansApart
    <3>2. CASE i \in DOMAIN spans /\ j \notin DOMAIN spans
      BY <2>1, <3>2, <1>2, <1>s
    <3>3. CASE i \notin DOMAIN spans /\ j \in DOMAIN spans
      BY <2>1, <3>3, <1>2, <1>s
    <3>4. CASE i \notin DOMAIN spans /\ j \notin DOMAIN spans
      <4>1. i - Len(spans) # j - Len(spans) /\ i - Len(spans) \in DOMAIN again
            /\ j - Len(spans) \in DOMAIN again
            /\ all[i] = again[i - Len(spans)] /\ all[j] = again[j - Len(spans)]
        BY <2>1, <3>4, <1>2
      <4> QED BY <4>1, <1>t
    <3> QED BY <3>1, <3>2, <3>3, <3>4
  <2> QED BY <2>1 DEF SpansApart
<1>6. ApartFrom(buf, all)
  <2>1. ASSUME NEW k \in DOMAIN buf, NEW i \in DOMAIN again
        PROVE Clear(k, buf[k].count, again[i].start, again[i].count)
    BY <1>3 DEF Tiled, Apart
  <2> QED BY <2>1, <1>2 DEF Tiled, ApartFrom
<1>7. ApartFrom(left, all)
  <2>1. ASSUME NEW k \in DOMAIN left, NEW i \in DOMAIN again
        PROVE Clear(k, left[k].count, again[i].start, again[i].count)
    BY <1>1, <1>3 DEF Tiled, ApartWithin
  <2>2. ASSUME NEW k \in DOMAIN left, NEW i \in DOMAIN spans
        PROVE Clear(k, left[k].count, spans[i].start, spans[i].count)
    BY <1>1 DEF Tiled, ApartFrom
  <2> QED BY <2>1, <2>2, <1>2 DEF ApartFrom
<1>8. SpansWithin(all, low, high)
  <2>1. ASSUME NEW i \in DOMAIN again
        PROVE low <= again[i].start /\ again[i].start + again[i].count <= high
    BY <1>3 DEF Tiled, Within
  <2> QED BY <2>1, <1>2 DEF Tiled, SpansWithin
<1>9. ASSUME NEW h \in low..(high - 1) PROVE Held(buf, h) \/ Held(left, h) \/ Queued(all, h)
  <2>1. Queued(spans, h) => Queued(all, h)
    BY <1>2 DEF Queued
  <2>2. ASSUME NEW k \in DOMAIN requests, InSpan(h, k, requests[k].count)
        PROVE Held(left, h) \/ Queued(all, h)
    <3>1. CASE k \notin lost
      BY <2>2, <3>1, <1>1 DEF Held
    <3>2. CASE k \in lost
      <4>1. PICK i \in DOMAIN again : again[i].start = k
        BY <3>2 DEF Lists
      <4>2. again[i].count = requests[k].count
        BY <4>1 DEF Lists
      <4> QED BY <2>2, <4>1, <4>2, <1>2 DEF Queued
    <3> QED BY <3>1, <3>2
  <2> QED BY <2>1, <2>2 DEF Tiled, Held
<1> QED BY <1>0, <1>2, <1>4, <1>5, <1>6, <1>7, <1>8, <1>9 DEF Tiled, left, all

\* The chunk at the lowest height leaves the buffer.
LEMMA TakenTiles ==
  ASSUME NEW buf, NEW requests, NEW spans, NEW low, NEW high, low \in DOMAIN buf,
         Tiled(buf, requests, spans, low, high)
  PROVE  /\ buf[low].count \in Nat \ {0} /\ low + buf[low].count <= high
         /\ Tiled(Without(buf, {low}), requests, spans, low + buf[low].count, high)
<1>0. spans \in Seq(Spans) /\ low \in Nat /\ high \in Nat
  BY DEF Tiled
<1>1. PICK n : n = buf[low].count
  OBVIOUS
<1>2. n \in Nat \ {0} /\ low + n <= high /\ low + n \in Nat
  BY <1>0, <1>1 DEF Tiled, Shaped, Within
<1> DEFINE left == Without(buf, {low})
<1>3. DOMAIN left = DOMAIN buf \ {low} /\ \A j \in DOMAIN left : left[j] = buf[j]
  BY DEF Without
<1> HIDE DEF left
<1>r. \A j \in DOMAIN requests : /\ j \in Nat /\ requests[j].count \in Nat \ {0} /\ low <= j
                                 /\ Clear(low, n, j, requests[j].count)
  BY <1>1 DEF Tiled, Shaped, Within, Apart
<1>b. \A j \in DOMAIN buf : /\ j \in Nat /\ buf[j].count \in Nat \ {0} /\ low <= j
                            /\ j # low => Clear(low, n, j, buf[j].count)
  BY <1>1 DEF Tiled, Shaped, Within, ApartWithin
<1>q. ASSUME NEW i \in DOMAIN spans
      PROVE spans[i].start \in Nat /\ spans[i].count \in Nat \ {0}
            /\ low <= spans[i].start /\ Clear(low, n, spans[i].start, spans[i].count)
  BY <1>0, <1>1, SpanTypes DEF Tiled, SpansWithin, ApartFrom
<1>4. /\ \A j \in DOMAIN requests : low + n <= j
      /\ \A j \in DOMAIN left : low + n <= j
      /\ \A i \in DOMAIN spans : low + n <= spans[i].start
  <2>1. ASSUME NEW j \in DOMAIN requests PROVE low + n <= j
    BY <1>0, <1>2, <1>r DEF Clear
  <2>2. ASSUME NEW j \in DOMAIN left PROVE low + n <= j
    BY <1>0, <1>2, <1>3, <1>b DEF Clear
  <2>3. ASSUME NEW i \in DOMAIN spans PROVE low + n <= spans[i].start
    BY <1>0, <1>2, <1>q DEF Clear
  <2> QED BY <2>1, <2>2, <2>3
<1>5. Shaped(left) /\ ApartWithin(left) /\ Apart(left, requests) /\ ApartFrom(left, spans)
  <2>1. Shaped(left)
    BY <1>3 DEF Tiled, Shaped
  <2>2. ApartWithin(left)
    BY <1>3 DEF Tiled, ApartWithin
  <2>3. Apart(left, requests)
    BY <1>3 DEF Tiled, Apart
  <2>4. ApartFrom(left, spans)
    BY <1>3 DEF Tiled, ApartFrom
  <2> QED BY <2>1, <2>2, <2>3, <2>4
<1>6. Within(left, low + n, high) /\ Within(requests, low + n, high)
      /\ SpansWithin(spans, low + n, high)
  BY <1>3, <1>4 DEF Tiled, Within, SpansWithin
<1>7. ASSUME NEW h \in (low + n)..(high - 1)
      PROVE Held(left, h) \/ Held(requests, h) \/ Queued(spans, h)
  <2>1. h \in low..(high - 1) /\ ~InSpan(h, low, n)
    BY <1>0, <1>2 DEF InSpan
  <2>2. Held(buf, h) => Held(left, h)
    BY <2>1, <1>1, <1>3 DEF Held
  <2> QED BY <2>1, <2>2 DEF Tiled
<1>8. Tiled(left, requests, spans, low + n, high)
  BY <1>0, <1>2, <1>5, <1>6, <1>7 DEF Tiled
<1> QED BY <1>1, <1>2, <1>8 DEF left

\* Only the chunks' heights and counts matter.
LEMMA SameTiles ==
  ASSUME NEW buf, NEW same, NEW requests, NEW spans, NEW low, NEW high,
         Tiled(buf, requests, spans, low, high),
         DOMAIN same = DOMAIN buf, \A k \in DOMAIN buf : same[k] = buf[k]
  PROVE  Tiled(same, requests, spans, low, high)
<1>1. Shaped(same)
  BY DEF Tiled, Shaped
<1>2. ApartWithin(same)
  BY DEF Tiled, ApartWithin
<1>3. Apart(same, requests)
  BY DEF Tiled, Apart
<1>4. ApartFrom(same, spans)
  BY DEF Tiled, ApartFrom
<1>5. Within(same, low, high)
  BY DEF Tiled, Within
<1>6. \A h : Held(buf, h) => Held(same, h)
  BY DEF Held
<1> QED BY <1>1, <1>2, <1>3, <1>4, <1>5, <1>6 DEF Tiled

\* No chunk has an invalid block, and buffered_bytes is right.
AllGood(buf) == \A k \in DOMAIN buf : buf[k].bad = End
Tally(buf, bytes) == bytes = Bytes(buf, DOMAIN buf)

\* Where what is left to apply starts.
After(task, at) == IF task = NoChunk THEN at ELSE task.to

\* The bytes of what is left when one chunk is taken.
LEMMA WithoutOne ==
  ASSUME BlockSyncAssumption, NEW buf, NEW top, ChunksOk(buf, top), NEW k \in DOMAIN buf
  PROVE  /\ Bytes(Without(buf, {k}), DOMAIN buf \ {k}) = Bytes(buf, DOMAIN buf) - buf[k].count
         /\ Bytes(buf, {k}) = buf[k].count /\ Bytes(buf, DOMAIN buf) \in Nat
<1>1. IsFiniteSet(DOMAIN buf) /\ Counted(buf, DOMAIN buf)
  BY FiniteDomain DEF ChunksOk, Chunk, Counted
<1>2. IsFiniteSet(DOMAIN buf \ {k}) /\ IsFiniteSet({k}) /\ Counted(buf, {k}) /\ buf[k].count \in Nat
  BY <1>1, FS_Subset, FS_Singleton DEF Counted
<1>3. SameCounts(Without(buf, {k}), buf, DOMAIN buf \ {k})
  BY DEF SameCounts, Without
<1>4. Bytes(Without(buf, {k}), DOMAIN buf \ {k}) = Bytes(buf, DOMAIN buf \ {k})
  BY <1>2, <1>3, SameBytes
<1>5. PICK a, b, n : a = Bytes(buf, DOMAIN buf) /\ b = Bytes(buf, DOMAIN buf \ {k})
      /\ n = buf[k].count
  OBVIOUS
<1>6. a \in Nat /\ b \in Nat /\ a = b + n
  BY <1>1, <1>5, BytesStep
<1>7. b = a - n
  BY <1>2, <1>5, <1>6
<1>8. Bytes(buf, {k}) = n
  <2>1. {k} \ {k} = {} /\ k \in {k}
    OBVIOUS
  <2>2. Bytes(buf, {k}) = Bytes(buf, {k} \ {k}) + buf[k].count
    BY <1>2, <2>1, BytesStep
  <2>3. Bytes(buf, {k}) = 0 + n
    BY <2>1, <2>2, <1>5, NoBytes, Zenon
  <2> QED BY <2>3, <1>2, <1>5
<1> QED BY <1>4, <1>5, <1>6, <1>7, <1>8, Zenon

\* try_apply_next hands the chunk at the cursor to a task: nothing is passed over, nothing
\* is counted wrongly.
LEMMA TryApplyTiles ==
  ASSUME BlockSyncAssumption, NEW buf, NEW bytes \in Int, NEW at \in Nat, NEW top \in 0..End,
         NEW requests, NEW spans, NEW high, high <= top,
         ChunksOk(buf, top), AllGood(buf), Tally(buf, bytes),
         Tiled(buf, requests, spans, at, high), at <= high, TryApply(buf, bytes, at)
  PROVE  /\ AllGood(buffer') /\ Tally(buffer', buffered')
         /\ Tiled(buffer', requests, spans, After(applying', at), high)
         /\ After(applying', at) <= high
         /\ applying' # NoChunk => applying'.to > at /\ applying'.stop = applying'.to
<1>0. End \in Nat /\ NoChunk \notin Tasks /\ high \in Nat /\ top \in Nat /\ top <= End
  BY ConstantTypes DEF Tiled, Constants
<1>1. ASSUME NEW k \in DOMAIN buf
      PROVE k \in Nat /\ buf[k].count \in Nat \ {0} /\ at <= k /\ ~(k + buf[k].count <= at)
  BY DEF Tiled, Within, Shaped
<1>2. Passed(buf, at) = {}
  <2>1. ASSUME NEW k \in DOMAIN buf, \A j \in DOMAIN buf : j <= k => j + buf[j].count <= at
        PROVE FALSE
    <3>1. k <= k
      BY <1>1
    <3> QED BY <3>1, <2>1, <1>1
  <2> QED BY <2>1 DEF Passed
<1> DEFINE live == Without(buf, {})
           first == Min(DOMAIN live)
<1>3. DOMAIN live = DOMAIN buf /\ \A k \in DOMAIN buf : live[k] = buf[k]
  BY DEF Without
<1>4. PICK left : left = Unbuffered(buf, bytes, {})
  OBVIOUS
<1>5. left = bytes
  <2>1. left = bytes - 0
    BY <1>4, NoBytes DEF Unbuffered
  <2> QED BY <2>1
<1>6. IF DOMAIN live # {} /\ first <= at
      THEN /\ applying' = Task(live[first], first, at)
           /\ buffer' = Without(live, {first})
           /\ buffered' = Unbuffered(live, bytes, {first})
      ELSE applying' = NoChunk /\ buffer' = live /\ buffered' = bytes
  BY <1>2, <1>4, <1>5 DEF TryApply
<1>7. ChunksOk(live, top) /\ Tiled(live, requests, spans, at, high) /\ AllGood(live)
  <2>1. ChunksOk(live, top)
    BY FewerChunks
  <2>2. AllGood(live)
    BY <1>3 DEF AllGood
  <2> HIDE DEF live
  <2> QED BY <1>3, <2>1, <2>2, SameTiles
<1>8. Tally(live, bytes)
  <2>1. IsFiniteSet(DOMAIN buf)
    BY FiniteDomain DEF ChunksOk
  <2>2. SameCounts(live, buf, DOMAIN buf)
    BY <1>3 DEF SameCounts
  <2> HIDE DEF live
  <2>3. Bytes(live, DOMAIN buf) = Bytes(buf, DOMAIN buf)
    BY <2>1, <2>2, SameBytes
  <2> QED BY <2>3, <1>3 DEF Tally
<1> HIDE DEF live
<1>9. CASE DOMAIN live # {} /\ first <= at
  <2>1. DOMAIN live \subseteq Nat
    BY <1>3, <1>1
  <2>2. first \in DOMAIN live
    BY <2>1, <1>9, MinOf
  <2>3. first = at
    BY <2>2, <1>1, <1>3, <1>9
  <2> HIDE DEF first
  <2>4. at \in DOMAIN live
    BY <2>2, <2>3
  <2>5. PICK n : n = live[at].count
    OBVIOUS
  <2>6. n \in Nat \ {0} /\ at + n <= high
        /\ Tiled(Without(live, {at}), requests, spans, at + n, high)
    BY <2>4, <2>5, <1>7, TakenTiles
  <2>7. buffer' = Without(live, {at}) /\ applying' = Task(live[at], at, at)
        /\ buffered' = Unbuffered(live, bytes, {at})
    BY <1>6, <1>9, <2>3
  <2>8. AllGood(buffer')
    BY <2>7, <1>7 DEF AllGood, Without
  <2>9. Tally(buffer', buffered')
    <3>1. DOMAIN Without(live, {at}) = DOMAIN live \ {at}
      BY DEF Without
    <3>2. /\ Bytes(Without(live, {at}), DOMAIN live \ {at}) = Bytes(live, DOMAIN live) - live[at].count
          /\ Bytes(live, {at}) = live[at].count
      BY <1>7, <2>4, WithoutOne
    <3>3. buffered' = bytes - live[at].count
      BY <2>7, <3>2, Zenon DEF Unbuffered
    <3> QED BY <1>8, <2>7, <3>1, <3>2, <3>3, Zenon DEF Tally
  <2>10. live[at] \in Chunk /\ live[at].bad = End
    BY <2>4, <1>7 DEF ChunksOk, AllGood
  <2>11. PICK task : task = Task(live[at], at, at)
    OBVIOUS
  <2>12. End \notin at..(at + n - 1)
    BY <1>0, <2>6
  <2>13. task \in Tasks /\ task.to = at + n /\ task.stop = at + n
    BY <2>5, <2>10, <2>11, <2>12, TaskTypes
  <2>14. applying' = task /\ task # NoChunk
    BY <2>7, <2>11, <2>13, <1>0
  <2>15. After(applying', at) = at + n
    BY <2>13, <2>14 DEF After
  <2> QED BY <2>6, <2>7, <2>8, <2>9, <2>13, <2>14, <2>15
<1>10. CASE ~(DOMAIN live # {} /\ first <= at)
  <2>1. applying' = NoChunk /\ buffer' = live /\ buffered' = bytes
    BY <1>6, <1>10
  <2>2. After(applying', at) = at
    BY <2>1 DEF After
  <2> QED BY <2>1, <2>2, <1>7, <1>8
<1> QED BY <1>9, <1>10

------------------------------------------------------------------------------
\* What is left to apply, from After(applying, cursor) on, is accounted for once.
WholeInv ==
    /\ TypeInv
    /\ Tiled(buffer, inFlight, retry, After(applying, cursor), nextRequest)
    /\ After(applying, cursor) <= nextRequest
    /\ applying # NoChunk => applying.to > cursor /\ applying.stop = applying.to
    /\ rebuilding => applying = NoChunk
    /\ AllGood(buffer) /\ Tally(buffer, buffered)
    /\ kept <= cursor
    /\ outcome # "banned"

\* It holds as a session starts.
LEMMA WholeInit == ASSUME BlockSyncAssumption, Init PROVE WholeInv
<1>1. TypeInv
  BY TypeInit
<1>2. After(applying, cursor) = 0 /\ nextRequest = 0
  BY DEF Init, After
<1>3. Tiled(buffer, inFlight, retry, 0, 0)
  <2>1. DOMAIN buffer = {} /\ DOMAIN inFlight = {} /\ retry = <<>>
    BY DEF Init
  <2>2. Shaped(buffer) /\ Shaped(inFlight) /\ ApartWithin(buffer) /\ ApartWithin(inFlight)
    BY <2>1 DEF Shaped, ApartWithin
  <2>3. SpansApart(retry) /\ Apart(buffer, inFlight) /\ ApartFrom(buffer, retry)
        /\ ApartFrom(inFlight, retry)
    BY <2>1 DEF SpansApart, Apart, ApartFrom
  <2>4. Within(buffer, 0, 0) /\ Within(inFlight, 0, 0) /\ SpansWithin(retry, 0, 0)
    BY <2>1 DEF Within, SpansWithin
  <2> QED BY <2>1, <2>2, <2>3, <2>4 DEF Tiled
<1>4. AllGood(buffer) /\ Tally(buffer, buffered)
  <2>1. DOMAIN buffer = {} /\ buffered = 0
    BY DEF Init
  <2> QED BY <2>1, NoBytes DEF AllGood, Tally
<1>5. kept <= cursor
  BY DEF Init
<1> QED BY <1>1, <1>2, <1>3, <1>4, <1>5 DEF Init, WholeInv

\* schedule_batch_requests keeps it.
LEMMA AskWhole ==
  ASSUME BlockSyncAssumption, WholeInv, Ask
  PROVE  WholeInv'
<1>0. TypeInv /\ TypeInv'
  BY AskTypes DEF WholeInv
<1>1. PICK span \in NextSpan, p \in Peers :
         /\ inFlight' = With(inFlight, span.start, [peer |-> p, count |-> span.count])
         /\ IF retry # <<>>
            THEN retry' = Tail(retry) /\ UNCHANGED nextRequest
            ELSE nextRequest' = nextRequest + span.count /\ UNCHANGED retry
  BY DEF Ask
<1>2. PICK low : low = After(applying, cursor)
  OBVIOUS
<1>3. Tiled(buffer, inFlight, retry, low, nextRequest) /\ low <= nextRequest
  BY <1>2 DEF WholeInv
<1>4. SpanOk(span, verifiedTo) /\ span.count \in Nat \ {0}
  BY <1>0, NextSpanOk DEF SpanOk, Spans
<1>5. Tiled(buffer, inFlight', retry', low, nextRequest') /\ low <= nextRequest'
  <2>1. CASE retry # <<>>
    <3>1. span = Head(retry)
      BY <1>0, <2>1, NextSpanOk
    <3>2. Tiled(buffer, With(inFlight, Head(retry).start, [peer |-> p, count |-> Head(retry).count]),
                Tail(retry), low, nextRequest)
      BY <1>3, <2>1, RetryAsked
    <3> QED BY <1>1, <1>3, <2>1, <3>1, <3>2
  <2>2. CASE retry = <<>>
    <3>1. span.start = nextRequest
      BY <1>0, <2>2, NextSpanOk
    <3>2. PICK n \in Nat \ {0} : n = span.count
      BY <1>4
    <3>3. Tiled(buffer, With(inFlight, nextRequest, [peer |-> p, count |-> n]), retry, low, nextRequest + n)
      BY <1>3, MoreAsked
    <3>4. low <= nextRequest + n
      BY <1>3 DEF Tiled
    <3> QED BY <1>1, <2>2, <3>1, <3>2, <3>3, <3>4
  <2> QED BY <2>1, <2>2
<1>6. UNCHANGED <<kept, cursor, rebuilding, applying, buffer, buffered, outcome>>
  BY DEF Ask
<1>7. After(applying', cursor') = low
  BY <1>2, <1>6
<1> QED BY <1>0, <1>5, <1>6, <1>7 DEF WholeInv

\* What follows an answer keeps it.
LEMMA MaybeApplyWhole ==
  ASSUME BlockSyncAssumption, WholeInv, NEW buf, NEW bytes \in Int, NEW requests, NEW spans,
         ChunksOk(buf, verifiedTo), AllGood(buf), Tally(buf, bytes),
         Tiled(buf, requests, spans, After(applying, cursor), nextRequest), MaybeApply(buf, bytes)
  PROVE  /\ AllGood(buffer') /\ Tally(buffer', buffered')
         /\ Tiled(buffer', requests, spans, After(applying', cursor), nextRequest)
         /\ After(applying', cursor) <= nextRequest
         /\ applying' # NoChunk => applying'.to > cursor /\ applying'.stop = applying'.to
         /\ rebuilding => applying' = NoChunk
<1>1. CASE applying # NoChunk \/ rebuilding
  <2>1. buffer' = buf /\ buffered' = bytes /\ applying' = applying
    BY <1>1 DEF MaybeApply
  <2> QED BY <2>1 DEF WholeInv
<1>2. CASE ~(applying # NoChunk \/ rebuilding)
  <2>1. TryApply(buf, bytes, cursor) /\ After(applying, cursor) = cursor
    BY <1>2 DEF MaybeApply, After
  <2>2. cursor \in Nat /\ verifiedTo \in 0..End /\ nextRequest <= verifiedTo
        /\ cursor <= nextRequest
    BY <2>1, ConstantTypes DEF WholeInv, TypeInv, Constants
  <2>3. Tiled(buf, requests, spans, cursor, nextRequest)
    BY <2>1
  <2> QED BY <1>2, <2>1, <2>2, <2>3, TryApplyTiles
<1> QED BY <1>1, <1>2

\* An answer with blocks keeps it: they are valid when no helper's are not.
LEMMA AnswerGoodWhole ==
  ASSUME BlockSyncAssumption, ~Bodies, WholeInv, NEW k \in DOMAIN inFlight, AnswerGood(k)
  PROVE  WholeInv'
<1>0. TypeInv /\ TypeInv'
  BY AnswerGoodTypes DEF WholeInv
<1>1. PICK n \in 1..inFlight[k].count, bad \in k..(k + inFlight[k].count) :
         /\ bad < k + n => Bodies
         /\ retry' = RetryRest(k, n)
         /\ MaybeApply(With(buffer, k, [source |-> inFlight[k].peer, count |-> n,
                                        bad |-> IF bad < k + n THEN bad ELSE End]),
                       buffered + n)
  BY DEF AnswerGood
<1>2. PICK low : low = After(applying, cursor)
  OBVIOUS
<1>3. Tiled(buffer, inFlight, retry, low, nextRequest) /\ low <= nextRequest
  BY <1>2 DEF WholeInv
<1>4. PICK chunk : chunk = [source |-> inFlight[k].peer, count |-> n,
                            bad |-> IF bad < k + n THEN bad ELSE End]
  OBVIOUS
<1>5. inFlight[k].count \in Nat \ {0} /\ inFlight[k].peer \in Peers /\ k \in 0..End
      /\ SpanOk(Span(k, inFlight[k].count), verifiedTo)
  BY <1>0, RequestSpan DEF TypeInv
<1>6. n \in Nat \ {0} /\ n <= inFlight[k].count
  BY <1>1, <1>5
<1>7. chunk.count = n /\ chunk.bad = End /\ chunk.source = inFlight[k].peer /\ chunk \in Chunk
  <2>1. ~(bad < k + n)
    BY <1>1
  <2>2. End \in Nat
    BY ConstantTypes DEF Constants
  <2> QED BY <1>4, <1>5, <1>6, <2>1, <2>2 DEF Chunk
<1> DEFINE more == With(buffer, k, chunk)
           left == Without(inFlight, {k})
           again == RetryRest(k, n)
<1>8. Tiled(more, left, again, low, nextRequest)
  <2>1. Tiled(With(buffer, k, chunk), Without(inFlight, {k}),
              IF n < inFlight[k].count THEN <<Span(k + n, inFlight[k].count - n)>> \o retry ELSE retry,
              low, nextRequest)
    BY <1>3, <1>6, <1>7, AnswerTiles
  <2> QED BY <2>1 DEF RetryRest
<1>9. k \notin DOMAIN buffer
  BY <1>3, <1>5 DEF Tiled, Apart, Clear, Shaped
<1>10. DOMAIN more = DOMAIN buffer \cup {k} /\ more[k] = chunk
      /\ \A j \in DOMAIN buffer : more[j] = buffer[j]
  BY <1>9 DEF With
<1>11. k + n <= verifiedTo /\ n <= ChunkLimit
  <2>1. k + inFlight[k].count <= verifiedTo /\ inFlight[k].count <= ChunkLimit
    BY <1>5 DEF SpanOk, Span
  <2>2. verifiedTo \in Nat /\ ChunkLimit \in Nat /\ k \in Nat
    BY <1>0, <1>5, ConstantTypes DEF TypeInv, Constants
  <2> QED BY <1>5, <1>6, <2>1, <2>2
<1> HIDE DEF more, left, again
<1>12. ChunksOk(more, verifiedTo)
  BY <1>0, <1>5, <1>7, <1>10, <1>11 DEF TypeInv, ChunksOk
<1>13. AllGood(more)
  BY <1>7, <1>10 DEF WholeInv, AllGood
<1>14. Tally(more, buffered + n)
  <2>1. IsFiniteSet(DOMAIN more) /\ Counted(more, DOMAIN more) /\ k \in DOMAIN more
        /\ DOMAIN more \ {k} = DOMAIN buffer
    BY <1>9, <1>10, <1>12, FiniteDomain DEF ChunksOk, Chunk, Counted
  <2>2. Bytes(more, DOMAIN more) = Bytes(more, DOMAIN buffer) + n
    BY <2>1, <1>7, <1>10, BytesStep
  <2>3. IsFiniteSet(DOMAIN buffer) /\ SameCounts(more, buffer, DOMAIN buffer)
    BY <1>0, <1>10, FiniteDomain DEF TypeInv, ChunksOk, SameCounts
  <2>4. Bytes(more, DOMAIN buffer) = Bytes(buffer, DOMAIN buffer)
    BY <2>3, SameBytes
  <2> QED BY <2>2, <2>4 DEF WholeInv, Tally
<1>15. MaybeApply(more, buffered + n) /\ buffered + n \in Int
  BY <1>0, <1>1, <1>4, <1>6 DEF more, TypeInv
<1>16. /\ AllGood(buffer') /\ Tally(buffer', buffered')
       /\ Tiled(buffer', left, again, After(applying', cursor), nextRequest)
       /\ After(applying', cursor) <= nextRequest
       /\ applying' # NoChunk => applying'.to > cursor /\ applying'.stop = applying'.to
       /\ rebuilding => applying' = NoChunk
  BY <1>2, <1>8, <1>12, <1>13, <1>14, <1>15, MaybeApplyWhole
<1>17. UNCHANGED <<kept, cursor, rebuilding, nextRequest, outcome>> /\ inFlight' = left
  BY DEF AnswerGood, Answered, left
<1>18. retry' = again
  BY <1>1 DEF again
<1> QED BY <1>0, <1>16, <1>17, <1>18 DEF WholeInv

\* A request given back whole, as a sequence of one.
LEMMA ListsOne ==
  ASSUME TypeInv, NEW k \in DOMAIN inFlight
  PROVE  /\ Lists(<<Span(k, inFlight[k].count)>>, inFlight, {k})
         /\ RetryWhole(k) = retry \o <<Span(k, inFlight[k].count)>>
<1>1. SpanOk(Span(k, inFlight[k].count), verifiedTo)
  BY RequestSpan DEF TypeInv
<1>2. Span(k, inFlight[k].count) \in Spans /\ Span(k, inFlight[k].count).start = k
      /\ Span(k, inFlight[k].count).count = inFlight[k].count
  BY <1>1 DEF SpanOk, Span
<1>3. retry \in Seq(Spans)
  BY DEF TypeInv, SpansOk
<1>4. PICK span \in Spans : span = Span(k, inFlight[k].count)
  BY <1>2
<1>5. Append(retry, span) = retry \o <<span>>
  BY <1>3
<1>6. Lists(<<span>>, inFlight, {k})
  BY <1>2, <1>4 DEF Lists
<1> QED BY <1>4, <1>5, <1>6 DEF RetryWhole

\* An answer of no use keeps it.
LEMMA AnswerUselessWhole ==
  ASSUME BlockSyncAssumption, WholeInv, NEW k \in DOMAIN inFlight, AnswerUseless(k)
  PROVE  WholeInv'
<1>0. TypeInv /\ TypeInv'
  BY AnswerUselessTypes DEF WholeInv
<1>1. PICK again : again = <<Span(k, inFlight[k].count)>>
  OBVIOUS
<1>2. Lists(again, inFlight, {k}) /\ retry' = retry \o again
  BY <1>0, <1>1, ListsOne DEF AnswerUseless
<1>3. Tiled(buffer, Without(inFlight, {k}), retry \o again, After(applying, cursor), nextRequest)
  BY <1>2, ReturnedTiles DEF WholeInv
<1>4. UNCHANGED <<kept, cursor, rebuilding, nextRequest, outcome>>
      /\ inFlight' = Without(inFlight, {k})
      /\ MaybeApply(buffer, buffered)
  BY DEF AnswerUseless, Answered
<1>5. ChunksOk(buffer, verifiedTo) /\ AllGood(buffer) /\ Tally(buffer, buffered) /\ buffered \in Int
  BY DEF WholeInv, TypeInv
<1>6. /\ AllGood(buffer') /\ Tally(buffer', buffered')
      /\ Tiled(buffer', Without(inFlight, {k}), retry \o again, After(applying', cursor), nextRequest)
      /\ After(applying', cursor) <= nextRequest
      /\ applying' # NoChunk => applying'.to > cursor /\ applying'.stop = applying'.to
      /\ rebuilding => applying' = NoChunk
  BY <1>3, <1>4, <1>5, MaybeApplyWhole
<1> QED BY <1>0, <1>2, <1>4, <1>6 DEF WholeInv

\* A request that expires keeps it.
LEMMA ExpireWhole ==
  ASSUME BlockSyncAssumption, WholeInv, NEW k \in DOMAIN inFlight, Expire(k)
  PROVE  WholeInv'
<1>0. TypeInv /\ TypeInv'
  BY ExpireTypes DEF WholeInv
<1>1. PICK again : again = <<Span(k, inFlight[k].count)>>
  OBVIOUS
<1>2. Lists(again, inFlight, {k}) /\ retry' = retry \o again
  BY <1>0, <1>1, ListsOne DEF Expire
<1>3. Tiled(buffer, Without(inFlight, {k}), retry \o again, After(applying, cursor), nextRequest)
  BY <1>2, ReturnedTiles DEF WholeInv
<1>4. UNCHANGED <<kept, cursor, rebuilding, applying, buffer, buffered, nextRequest, outcome>>
      /\ inFlight' = Without(inFlight, {k})
  BY DEF Expire, Answered
<1> QED BY <1>0, <1>2, <1>3, <1>4 DEF WholeInv

\* A peer that leaves keeps it: its requests are given back, each once.
LEMMA LeaveWhole ==
  ASSUME BlockSyncAssumption, WholeInv, NEW p \in Helpers, Leave(p)
  PROVE  WholeInv'
<1>0. TypeInv /\ TypeInv'
  BY LeaveTypes DEF WholeInv
<1> DEFINE lost == {k \in DOMAIN inFlight : inFlight[k].peer = p}
<1>1. PICK order \in SetToSeqs(lost) :
         retry' = retry \o [i \in DOMAIN order |-> Span(order[i], inFlight[order[i]].count)]
  BY DEF Leave
<1>2. lost \subseteq DOMAIN inFlight /\ DOMAIN inFlight \subseteq 0..End
  BY <1>0 DEF TypeInv, RequestsOk
<1>3. inFlight' = Without(inFlight, lost)
  BY DEF Leave
<1> HIDE DEF lost
<1>4. IsFiniteSet(lost) /\ Cardinality(lost) \in Nat
  BY <1>2, FiniteDomain
<1>5. PICK n \in Nat : n = Cardinality(lost)
  BY <1>4
<1>6. order \in [1..n -> lost] /\ \A i, j \in 1..n : i # j => order[i] # order[j]
  BY <1>5 DEF SetToSeqs
<1>7. \A k \in lost : \E i \in 1..n : order[i] = k
  <2>1. IsFiniteSet(1..n) /\ Cardinality(1..n) = n
    BY FS_Interval
  <2>2. order \in Injection(1..n, lost)
    BY <1>6 DEF Injection, IsInjective
  <2>3. order \in Surjection(1..n, lost)
    BY <2>1, <2>2, <1>4, <1>5, FS_Injection
  <2> QED BY <2>3 DEF Surjection
<1>8. PICK again : again = [i \in DOMAIN order |-> Span(order[i], inFlight[order[i]].count)]
  OBVIOUS
<1>9. DOMAIN again = 1..n /\ \A i \in 1..n : again[i] = Span(order[i], inFlight[order[i]].count)
  BY <1>6, <1>8
<1>10. ASSUME NEW i \in 1..n
       PROVE  /\ again[i] \in Spans /\ again[i].start = order[i] /\ order[i] \in lost
              /\ again[i].count = inFlight[again[i].start].count
  <2>1. order[i] \in lost /\ order[i] \in DOMAIN inFlight
    BY <1>2, <1>6
  <2>2. SpanOk(Span(order[i], inFlight[order[i]].count), verifiedTo)
    BY <1>0, <2>1, RequestSpan DEF TypeInv
  <2>3. again[i] = Span(order[i], inFlight[order[i]].count)
    BY <1>9
  <2> QED BY <2>1, <2>2, <2>3 DEF SpanOk, Span
<1>11. Lists(again, inFlight, lost)
  <2>1. again = [i \in 1..n |-> again[i]]
    BY <1>6, <1>8
  <2>2. again \in Seq(Spans)
    BY <1>10, <2>1
  <2> QED BY <1>6, <1>7, <1>9, <1>10, <2>2 DEF Lists
<1>12. Tiled(buffer, Without(inFlight, lost), retry \o again, After(applying, cursor), nextRequest)
  BY <1>2, <1>11, ReturnedTiles DEF WholeInv
<1>13. UNCHANGED <<kept, cursor, rebuilding, applying, buffer, buffered, nextRequest, outcome>>
  BY DEF Leave
<1>14. retry' = retry \o again
  BY <1>1, <1>8
<1> QED BY <1>0, <1>3, <1>12, <1>13, <1>14 DEF WholeInv

\* A task's report keeps it.
LEMMA AppliedWhole ==
  ASSUME BlockSyncAssumption, WholeInv, Applied
  PROVE  WholeInv'
<1>0. TypeInv /\ TypeInv'
  BY AppliedTypes DEF WholeInv
<1>1. PICK to : to = applying.to
  OBVIOUS
<1>2. applying # NoChunk /\ After(applying, cursor) = to /\ cursor' = to
      /\ TryApply(buffer, buffered, to)
      /\ kept' = HeadersDropped(to)
  BY <1>1 DEF Applied, After
<1>3. to \in Nat /\ to > cursor /\ cursor \in Nat
  BY <1>0, <1>1, <1>2 DEF WholeInv, TypeInv, Tasks
<1>4. verifiedTo \in 0..End /\ nextRequest <= verifiedTo
  BY <1>0, ConstantTypes DEF TypeInv, Constants
<1>5. /\ ChunksOk(buffer, verifiedTo) /\ AllGood(buffer) /\ Tally(buffer, buffered) /\ buffered \in Int
      /\ Tiled(buffer, inFlight, retry, to, nextRequest) /\ to <= nextRequest
  BY <1>2 DEF WholeInv, TypeInv
<1>6. /\ AllGood(buffer') /\ Tally(buffer', buffered')
      /\ Tiled(buffer', inFlight, retry, After(applying', to), nextRequest)
      /\ After(applying', to) <= nextRequest
      /\ applying' # NoChunk => applying'.to > to /\ applying'.stop = applying'.to
  BY <1>2, <1>3, <1>4, <1>5, TryApplyTiles
<1>7. ~rebuilding /\ kept <= cursor
  BY <1>2 DEF WholeInv
<1>8. kept' <= to
  BY <1>0, <1>2, <1>3, <1>7 DEF HeadersDropped, TypeInv
<1>9. UNCHANGED <<rebuilding, inFlight, retry, nextRequest, outcome>>
  BY DEF Applied
<1> QED BY <1>0, <1>2, <1>6, <1>7, <1>8, <1>9 DEF WholeInv

\* Every step keeps it; no task finds an invalid block, and the peer's answers are still
\* expected.
LEMMA WholeStep ==
  ASSUME BlockSyncAssumption, ~Bodies, WholeInv, [Next]_vars
  PROVE  WholeInv'
<1>0. TypeInv /\ TypeInv'
  BY TypeStep DEF WholeInv
<1>1. CASE Ask
  BY <1>1, AskWhole
<1>2. CASE EndLoop
  BY <1>0, <1>2 DEF EndLoop, WholeInv
<1>3. CASE Tick
  BY <1>0, <1>3 DEF Tick, WholeInv
<1>4. CASE MoreHeaders
  BY <1>0, <1>4 DEF MoreHeaders, WholeInv
<1>5. CASE ForkState
  <2>1. /\ rebuilding /\ ~rebuilding' /\ TryApply(buffer, buffered, cursor)
        /\ UNCHANGED <<kept, cursor, inFlight, retry, nextRequest, outcome>>
    BY <1>5 DEF ForkState
  <2>2. applying = NoChunk /\ After(applying, cursor) = cursor
    BY <2>1 DEF WholeInv, After
  <2>3. cursor \in Nat /\ verifiedTo \in 0..End /\ nextRequest <= verifiedTo
        /\ cursor <= nextRequest
    BY <1>0, <2>2, ConstantTypes DEF WholeInv, TypeInv, Constants
  <2>4. /\ ChunksOk(buffer, verifiedTo) /\ AllGood(buffer) /\ Tally(buffer, buffered) /\ buffered \in Int
        /\ Tiled(buffer, inFlight, retry, cursor, nextRequest)
    BY <2>2 DEF WholeInv, TypeInv
  <2>5. /\ AllGood(buffer') /\ Tally(buffer', buffered')
        /\ Tiled(buffer', inFlight, retry, After(applying', cursor), nextRequest)
        /\ After(applying', cursor) <= nextRequest
        /\ applying' # NoChunk => applying'.to > cursor /\ applying'.stop = applying'.to
    BY <2>1, <2>3, <2>4, TryApplyTiles
  <2> QED BY <1>0, <2>1, <2>5 DEF WholeInv
<1>6. CASE Applied
  BY <1>6, AppliedWhole
<1>7. CASE AppliedInPart
  <2>1. applying # NoChunk /\ applying.stop < applying.to /\ applying.stop = applying.to
    BY <1>7 DEF AppliedInPart, WholeInv
  <2>2. applying.stop \in Nat
    BY <1>0, <2>1 DEF TypeInv, Tasks
  <2> QED BY <2>1, <2>2
<1>8. ASSUME NEW k \in DOMAIN inFlight, AnswerGood(k) PROVE WholeInv'
  BY <1>8, AnswerGoodWhole
<1>9. ASSUME NEW k \in DOMAIN inFlight, AnswerUseless(k) PROVE WholeInv'
  BY <1>9, AnswerUselessWhole
<1>10. ASSUME NEW k \in DOMAIN inFlight, AnswerUnmatched(k) PROVE WholeInv'
  <2>1. k < kept /\ kept <= cursor /\ k \in Nat /\ kept \in Nat /\ cursor \in Nat
    <3>1. k \in 0..End /\ kept \in 0..End /\ cursor \in 0..verifiedTo
      BY <1>0 DEF TypeInv, RequestsOk
    <3>2. ~(k >= kept)
      BY <1>10 DEF AnswerUnmatched, Expected
    <3> QED BY <3>1, <3>2 DEF WholeInv
  <2>2. PICK low : low = After(applying, cursor)
    OBVIOUS
  <2>3. low <= k /\ low \in Nat
    BY <2>2 DEF WholeInv, Tiled, Within
  <2>4. cursor <= low
    <3>1. CASE applying = NoChunk
      BY <2>1, <2>2, <3>1 DEF After
    <3>2. CASE applying # NoChunk
      BY <2>1, <2>2, <2>3, <3>2 DEF After, WholeInv
    <3> QED BY <3>1, <3>2
  <2> QED BY <2>1, <2>3, <2>4
<1>11. ASSUME NEW k \in DOMAIN inFlight, Expire(k) PROVE WholeInv'
  BY <1>11, ExpireWhole
<1>12. ASSUME NEW p \in Helpers, Leave(p) PROVE WholeInv'
  BY <1>12, LeaveWhole
<1>13. CASE TimeOut \/ Abort
  BY <1>0, <1>13 DEF TimeOut, Abort, WholeInv
<1>14. CASE Over \/ UNCHANGED vars
  BY <1>0, <1>14 DEF Over, vars, WholeInv
<1> QED BY <1>1, <1>2, <1>3, <1>4, <1>5, <1>6, <1>7, <1>8, <1>9, <1>10, <1>11, <1>12,
           <1>13, <1>14 DEF Next

\* What it says of the session.
LEMMA WholeMeans == ASSUME WholeInv PROVE NothingLost /\ BufferCounted /\ HonestNotBanned
<1>1. ASSUME NEW h \in cursor..(nextRequest - 1) PROVE AccountedFor(h)
  <2>1. cursor \in Nat /\ nextRequest \in Nat
    BY DEF WholeInv, TypeInv
  <2>2. CASE applying # NoChunk /\ h < applying.to
    BY <2>2 DEF AccountedFor
  <2>3. CASE ~(applying # NoChunk /\ h < applying.to)
    <3>1. h \in After(applying, cursor)..(nextRequest - 1)
      <4>1. CASE applying = NoChunk
        BY <4>1 DEF After
      <4>2. CASE applying # NoChunk
        <5>1. applying.to \in Nat
          BY <4>2 DEF WholeInv, TypeInv, Tasks
        <5> QED BY <2>1, <2>3, <4>2, <5>1 DEF After
      <4> QED BY <4>1, <4>2
    <3>2. Held(buffer, h) \/ Held(inFlight, h) \/ Queued(retry, h)
      BY <3>1 DEF WholeInv, Tiled
    <3> QED BY <3>2 DEF Held, Queued, AccountedFor
  <2> QED BY <2>2, <2>3
<1> QED BY <1>1 DEF WholeInv, NothingLost, BufferCounted, Tally, HonestNotBanned

\* With helpers whose blocks are valid, no range is ever lost: what was asked for and not
\* applied is being applied, buffered, on its way or queued to be asked for again, through
\* expiry, departures, short and useless answers (on_batches, check_sync_timeouts,
\* peer_unavailable).
THEOREM LosesNothing == ASSUME BlockSyncAssumption, ~Bodies PROVE Spec => []NothingLost
<1>1. Init => WholeInv
  BY WholeInit
<1>2. WholeInv /\ [Next]_vars => WholeInv'
  BY WholeStep
<1>3. WholeInv => NothingLost
  BY WholeMeans
<1> QED BY <1>1, <1>2, <1>3, PTL DEF Spec

\* A request is only sent while the bytes are below the bound, and each in flight has room
\* for a whole chunk kept.
Roomy ==
    /\ Cardinality(DOMAIN inFlight) <= InFlightLimit
    /\ buffered < BufferLimit + ChunkLimit * (InFlightLimit - Cardinality(DOMAIN inFlight))

\* Fewer requests and no more bytes.
LEMMA FewerInFlight ==
  ASSUME BlockSyncAssumption, TypeInv, Roomy, buffered' \in Int, buffered' <= buffered,
         DOMAIN inFlight' \subseteq DOMAIN inFlight
  PROVE  Roomy'
<1>1. IsFiniteSet(DOMAIN inFlight) /\ Constants
  BY FiniteDomain, ConstantTypes DEF TypeInv, RequestsOk
<1>2. PICK c, d : c = Cardinality(DOMAIN inFlight) /\ d = Cardinality(DOMAIN inFlight')
  OBVIOUS
<1>3. c \in Nat /\ d \in Nat /\ d <= c
  BY <1>1, <1>2, FS_Subset, FS_CardinalityType
<1>4. ChunkLimit * (InFlightLimit - c) <= ChunkLimit * (InFlightLimit - d)
  <2>1. PICK x \in Int, y \in Nat : x = InFlightLimit - c /\ InFlightLimit - d = x + y
    BY <1>1, <1>3 DEF Constants
  <2>2. ChunkLimit * (x + y) = ChunkLimit * x + ChunkLimit * y /\ ChunkLimit * y >= 0
    BY <1>1, <2>1 DEF Constants
  <2>3. ChunkLimit * x \in Int /\ ChunkLimit * y \in Int
    BY <1>1, <2>1 DEF Constants
  <2> QED BY <2>1, <2>2, <2>3
<1>5. ChunkLimit * (InFlightLimit - c) \in Int /\ ChunkLimit * (InFlightLimit - d) \in Int
      /\ BufferLimit \in Nat /\ buffered \in Int /\ InFlightLimit \in Nat
  BY <1>1, <1>3 DEF Constants, TypeInv
<1>6. c <= InFlightLimit /\ buffered < BufferLimit + ChunkLimit * (InFlightLimit - c)
  BY <1>2 DEF Roomy
<1>7. d <= InFlightLimit /\ buffered' < BufferLimit + ChunkLimit * (InFlightLimit - d)
  BY <1>3, <1>4, <1>5, <1>6
<1> QED BY <1>2, <1>7 DEF Roomy

\* A request is only sent while the bytes are below the bound.
LEMMA AskRoomy == ASSUME BlockSyncAssumption, TypeInv, Roomy, Ask PROVE Roomy'
<1>1. IsFiniteSet(DOMAIN inFlight) /\ Constants
  BY FiniteDomain, ConstantTypes DEF TypeInv, RequestsOk
<1>2. PICK start : DOMAIN inFlight' = DOMAIN inFlight \cup {start}
  BY DEF Ask, With
<1>3. PICK c, d : c = Cardinality(DOMAIN inFlight) /\ d = Cardinality(DOMAIN inFlight')
  OBVIOUS
<1>4. c \in Nat /\ d \in Nat /\ d <= c + 1
  <2>1. c \in Nat /\ IsFiniteSet(DOMAIN inFlight')
    BY <1>1, <1>2, <1>3, FS_AddElement, FS_CardinalityType
  <2>2. d = c \/ d = c + 1
    BY <1>1, <1>2, <1>3, FS_AddElement
  <2> QED BY <2>1, <2>2
<1>5. c < InFlightLimit /\ buffered < BufferLimit /\ buffered' = buffered
  BY <1>3 DEF Ask, MayAsk
<1>6. d <= InFlightLimit /\ buffered \in Int
  BY <1>1, <1>4, <1>5 DEF Constants, TypeInv
<1>7. ChunkLimit * (InFlightLimit - d) >= 0 /\ ChunkLimit * (InFlightLimit - d) \in Int
  <2>1. PICK y \in Nat : y = InFlightLimit - d
    BY <1>1, <1>4, <1>6 DEF Constants
  <2>2. ChunkLimit * y >= 0 /\ ChunkLimit * y \in Int
    BY <1>1 DEF Constants
  <2> QED BY <2>1, <2>2
<1>8. BufferLimit \in Nat
  BY <1>1 DEF Constants
<1>9. buffered' < BufferLimit + ChunkLimit * (InFlightLimit - d)
  <2>1. PICK room \in Int : room = ChunkLimit * (InFlightLimit - d)
    BY <1>7
  <2> QED BY <2>1, <1>5, <1>6, <1>7, <1>8
<1> QED BY <1>3, <1>6, <1>9 DEF Roomy

\* An answer brings at most what its request made room for.
LEMMA AnswerRoomy ==
  ASSUME BlockSyncAssumption, TypeInv, Roomy, NEW k \in DOMAIN inFlight, AnswerGood(k)
  PROVE  Roomy'
<1>1. IsFiniteSet(DOMAIN inFlight) /\ Constants
  BY FiniteDomain, ConstantTypes DEF TypeInv, RequestsOk
<1>2. DOMAIN inFlight' = DOMAIN inFlight \ {k}
  BY DEF AnswerGood, Answered, Without
<1>3. PICK c, d : c = Cardinality(DOMAIN inFlight) /\ d = Cardinality(DOMAIN inFlight')
  OBVIOUS
<1>4. d \in Nat /\ c = d + 1
  BY <1>1, <1>2, <1>3, OneLess
<1>5. c <= InFlightLimit /\ buffered < BufferLimit + ChunkLimit * (InFlightLimit - c)
  BY <1>3 DEF Roomy
<1>6. /\ buffered \in Int /\ buffered' \in Int /\ buffered' <= buffered + ChunkLimit
      /\ BufferLimit \in Nat /\ ChunkLimit \in Nat /\ InFlightLimit \in Nat
  BY <1>1, AnswerGoodTypes DEF TypeInv, Constants
<1>7. PICK x \in Int : x = InFlightLimit - c /\ InFlightLimit - d = x + 1
  BY <1>4, <1>6
<1>8. ChunkLimit * (x + 1) = ChunkLimit * x + ChunkLimit /\ ChunkLimit * x \in Int
  BY <1>6
<1>9. d <= InFlightLimit
  BY <1>4, <1>5, <1>6
<1>10. buffered' < BufferLimit + ChunkLimit * (InFlightLimit - d)
  BY <1>5, <1>6, <1>7, <1>8
<1> QED BY <1>3, <1>9, <1>10 DEF Roomy

\* Every step keeps it.
LEMMA RoomyStep ==
  ASSUME BlockSyncAssumption, TypeInv, Roomy, [Next]_vars
  PROVE  Roomy'
<1>0. TypeInv' /\ buffered \in Int /\ buffered' \in Int
  BY TypeStep DEF TypeInv
<1>1. CASE Ask
  BY <1>1, AskRoomy
<1>2. CASE EndLoop \/ Tick \/ MoreHeaders \/ TimeOut \/ Abort \/ Over \/ UNCHANGED vars
  BY <1>2 DEF EndLoop, Tick, MoreHeaders, TimeOut, Abort, Over, vars, Roomy
<1>3. CASE ForkState
  <2>1. buffered' <= buffered /\ DOMAIN inFlight' \subseteq DOMAIN inFlight
    BY <1>3, ForkStateTypes DEF ForkState
  <2> QED BY <1>0, <2>1, FewerInFlight
<1>4. CASE Applied
  <2>1. buffered' <= buffered /\ DOMAIN inFlight' \subseteq DOMAIN inFlight
    BY <1>4, AppliedTypes DEF Applied
  <2> QED BY <1>0, <2>1, FewerInFlight
<1>5. CASE AppliedInPart
  <2>1. buffered' <= buffered /\ DOMAIN inFlight' \subseteq DOMAIN inFlight
    BY <1>5, AppliedInPartTypes DEF AppliedInPart
  <2> QED BY <1>0, <2>1, FewerInFlight
<1>6. ASSUME NEW k \in DOMAIN inFlight, AnswerGood(k) PROVE Roomy'
  BY <1>6, AnswerRoomy
<1>7. ASSUME NEW k \in DOMAIN inFlight, AnswerUseless(k) PROVE Roomy'
  <2>1. buffered' <= buffered /\ DOMAIN inFlight' \subseteq DOMAIN inFlight
    BY <1>7, AnswerUselessTypes DEF AnswerUseless, Answered, Without
  <2> QED BY <1>0, <2>1, FewerInFlight
<1>8. ASSUME NEW k \in DOMAIN inFlight, AnswerUnmatched(k) \/ Expire(k) PROVE Roomy'
  <2>1. buffered' = buffered /\ DOMAIN inFlight' \subseteq DOMAIN inFlight
    BY <1>8 DEF AnswerUnmatched, Expire, Answered, Without
  <2> QED BY <1>0, <2>1, FewerInFlight
<1>9. ASSUME NEW p \in Helpers, Leave(p) PROVE Roomy'
  <2>1. buffered' = buffered /\ DOMAIN inFlight' \subseteq DOMAIN inFlight
    BY <1>9 DEF Leave, Without
  <2> QED BY <1>0, <2>1, FewerInFlight
<1> QED BY <1>1, <1>2, <1>3, <1>4, <1>5, <1>6, <1>7, <1>8, <1>9 DEF Next

\* It holds as a session starts.
LEMMA RoomyInit == ASSUME BlockSyncAssumption, Init PROVE Roomy
<1>1. Constants
  BY ConstantTypes
<1>2. Cardinality(DOMAIN inFlight) = 0 /\ buffered = 0
  BY FS_EmptySet DEF Init
<1>3. PICK room \in Nat : room = ChunkLimit * (InFlightLimit - 0)
  BY <1>1 DEF Constants
<1>4. 0 <= InFlightLimit /\ 0 < BufferLimit + room
  BY <1>1, <1>3 DEF Constants
<1> QED BY <1>2, <1>3, <1>4 DEF Roomy

\* The bound the runs check follows.
LEMMA RoomyMeans == ASSUME BlockSyncAssumption, TypeInv, Roomy PROVE BufferBounded
<1>1. IsFiniteSet(DOMAIN inFlight) /\ Constants
  BY FiniteDomain, ConstantTypes DEF TypeInv, RequestsOk
<1>2. PICK c \in Nat : c = Cardinality(DOMAIN inFlight)
  BY <1>1, FS_CardinalityType
<1>3. c <= InFlightLimit /\ buffered < BufferLimit + ChunkLimit * (InFlightLimit - c)
  BY <1>2 DEF Roomy
<1>4. PICK x \in Nat : x = InFlightLimit - c /\ InFlightLimit = x + c
  BY <1>1, <1>3 DEF Constants
<1>5. /\ (x + c) * ChunkLimit = ChunkLimit * x + ChunkLimit * c
      /\ ChunkLimit * c >= 0 /\ ChunkLimit * x \in Int /\ ChunkLimit * c \in Int
  BY <1>1 DEF Constants
<1>6. buffered < BufferLimit + (x + c) * ChunkLimit
  BY <1>1, <1>3, <1>4, <1>5 DEF Constants, TypeInv
<1>7. BufferLimit + InFlightLimit * ChunkLimit = BufferLimit + (x + c) * ChunkLimit
  BY <1>4
<1> QED BY <1>6, <1>7 DEF BufferBounded

\* Whatever helpers serve, the bytes in memory stay below the bound plus what may be on the
\* wire (schedule_batch_requests).
THEOREM StaysBounded == ASSUME BlockSyncAssumption PROVE Spec => []BufferBounded
<1>1. Init => TypeInv /\ Roomy
  BY TypeInit, RoomyInit
<1>2. TypeInv /\ Roomy /\ [Next]_vars => (TypeInv /\ Roomy)'
  BY TypeStep, RoomyStep
<1>3. TypeInv /\ Roomy => BufferBounded
  BY RoomyMeans
<1> QED BY <1>1, <1>2, <1>3, PTL DEF Spec

\* With helpers whose blocks are valid, buffered_bytes is exact as well as bounded.
THEOREM CountsRight == ASSUME BlockSyncAssumption, ~Bodies PROVE Spec => []BufferKept
<1>1. Init => WholeInv /\ Roomy
  BY WholeInit, RoomyInit
<1>2. WholeInv /\ Roomy /\ [Next]_vars => (WholeInv /\ Roomy)'
  BY WholeStep, RoomyStep DEF WholeInv
<1>3. WholeInv /\ Roomy => BufferKept
  BY WholeMeans, RoomyMeans DEF WholeInv, BufferKept
<1> QED BY <1>1, <1>2, <1>3, PTL DEF Spec

\* With helpers whose blocks are valid, a session's peer that serves its own chain is never
\* banned: its answers are always still held to headers the session kept (on_batches).
THEOREM HonestStays == ASSUME BlockSyncAssumption, ~Bodies PROVE Spec => []HonestNotBanned
<1>1. Init => WholeInv
  BY WholeInit
<1>2. WholeInv /\ [Next]_vars => WholeInv'
  BY WholeStep
<1>3. WholeInv => HonestNotBanned
  BY WholeMeans
<1> QED BY <1>1, <1>2, <1>3, PTL DEF Spec

-----------------------------------------------------------------------------
(* The headers of a session, for any tree of blocks, peers, liars, forged  *)
(* headers and limits.                                                     *)

SessionFields ==
    {"peer", "claimed", "step", "fork", "last", "queue", "verifying", "inFlight", "deferred",
     "done", "overlap", "backed", "blocks", "applied", "start", "next", "to", "weight"}
IsClaim(c) == c.height \in Nat /\ DOMAIN c = {"height", "weight"}

\* A chunk is a piece of the chain of its last block, or of one above it.
PieceOf(c, b) ==
    /\ c \in Seq(Blocks) /\ c # <<>>
    /\ Height[c[1]] + Len(c) <= LenOf(b)
    /\ \A i \in 1..Len(c) : c[i] = At(b, Height[c[1]] + i - 1)
EndOf(c) == Height[c[1]] + Len(c)

\* What waits to be verified follows what was, a chunk after another, up to the
\* last header fetched.
Consecutive(s) ==
    /\ s.verifying # <<>> => PieceOf(s.verifying, s.last) /\ Height[s.verifying[1]] = s.to
    /\ \A i \in 1..Len(s.queue) : PieceOf(s.queue[i], s.last)
    /\ s.queue # <<>> => Height[s.queue[1][1]] = s.to + Len(s.verifying)
    /\ \A i \in 2..Len(s.queue) : Height[s.queue[i][1]] = EndOf(s.queue[i - 1])
    /\ LenOf(s.last) = IF s.queue = <<>> THEN s.to + Len(s.verifying)
                       ELSE EndOf(s.queue[Len(s.queue)])

\* Two chains hold the same blocks below a height.
Shares(own, b, n) == n <= LenOf(own) /\ n <= LenOf(b) /\ \A k \in 0..(n - 1) : At(own, k) = At(b, k)
Base(s) == IF s.blocks THEN s.applied ELSE s.fork
TopOf(s) == At(s.last, s.to - 1)

TypedSession(s) ==
    /\ DOMAIN s = SessionFields
    /\ s.peer \in Servers /\ IsClaim(s.claimed) /\ s.step \in Nat /\ s.start \in Nat
    /\ s.next \in Nat /\ s.to \in Nat /\ s.applied \in Nat /\ s.fork \in Nat \cup {-1}
    /\ s.blocks \in BOOLEAN /\ s.done \in BOOLEAN /\ s.inFlight \in BOOLEAN
    /\ s.deferred \in BOOLEAN /\ s.overlap \in BOOLEAN
    /\ s.verifying \in Seq(Blocks) /\ s.queue \in Seq(Seq(Blocks))
    /\ s.last \in Blocks \cup {NoBlock}

\* Nothing was fetched yet.
Begun(s, headers, own, undisturbed) ==
    /\ s.queue = <<>> /\ s.verifying = <<>> /\ s.fork = -1 /\ ~s.blocks /\ headers = {}
    /\ s.next = s.start /\ s.to = s.start /\ ~s.overlap
    /\ undisturbed => s.start <= LenOf(own)

\* The headers verified so far are those of our own chain.
OnOurs(s, headers, own, undisturbed) ==
    /\ headers = {} /\ ~s.blocks
    /\ undisturbed => Shares(own, s.last, s.to)

(* They leave our chain: those on disk end with the last verified, begin where
   the chains part or below, and outweigh our chain once blocks are applied. *)
LeavesOurs(s, headers, own, undisturbed) ==
    /\ s.to >= 1 /\ s.weight = Weight[TopOf(s)] /\ Base(s) <= s.to
    /\ \E h \in Nat : headers = From(TopOf(s), h) /\ (undisturbed => h <= Base(s))
    /\ undisturbed => Shares(own, s.last, Base(s))
    /\ s.blocks /\ undisturbed => IF s.applied < s.to THEN Weight[TopOf(s)] > Weight[own]
                                  ELSE own = TopOf(s)

SessionHolds(s, headers, own, undisturbed) ==
    /\ TypedSession(s)
    /\ s.last = NoBlock => Begun(s, headers, own, undisturbed)
    /\ s.last # NoBlock => s.next >= 1 /\ Consecutive(s)
    /\ s.last # NoBlock /\ s.fork < 0 => OnOurs(s, headers, own, undisturbed)
    /\ s.last # NoBlock /\ s.fork >= 0 => LeavesOurs(s, headers, own, undisturbed)

OneRun(headers) ==
    /\ headers \cap Forged = {}
    /\ \E b \in Blocks, h \in Nat : headers = From(b, h)

Fetching(s) ==
    /\ s.done \/ s.inFlight \/ Len(s.queue) >= QueueLimit
    /\ s.queue # <<>> => s.verifying # <<>>

Keeps(s, headers, own, undisturbed) ==
    s # NoSession => SessionHolds(s, headers, own, undisturbed) /\ Fetching(s)

Claimed(known) == DOMAIN known = Servers /\ \A p \in Servers : IsClaim(known[p])

\* What is exempt once the peer is excused: our chain moved, or the peer's did.
HeaderInv ==
    /\ ourTip \in Blocks /\ peerTip \in [Servers -> Blocks]
    /\ Claimed(tips)
    /\ OneRun(stored)
    /\ Keeps(session, stored, ourTip, session.peer \notin excused)

------------------------------------------------------------------------------
LEMMA TreeIs ==
    /\ \A b \in Blocks : Height[b] \in Nat /\ Weight[b] \in Nat /\ ChainOf[b] \in Seq(Blocks)
    /\ Genesis \in Blocks /\ Height[Genesis] = 0
    /\ \A b \in Blocks : b # Genesis => Parent[b] \in Blocks /\ Height[b] = Height[Parent[b]] + 1
BY BlockTreeAssumption, HeaderSyncAssumption

LEMMA ChainGrows ==
    ASSUME NEW b \in Blocks, b # Genesis
    PROVE  /\ Len(ChainOf[b]) = Len(ChainOf[Parent[b]]) + 1
           /\ ChainOf[b][Len(ChainOf[b])] = b
           /\ \A i \in 1..Len(ChainOf[Parent[b]]) : ChainOf[b][i] = ChainOf[Parent[b]][i]
<1>1. ChainOf[Parent[b]] \in Seq(Blocks) /\ ChainOf[b] = Append(ChainOf[Parent[b]], b)
  BY TreeIs, HeaderSyncAssumption
<1> QED BY <1>1, AppendProperties

\* A block's chain has a block at each height up to its own, which is there.
LEMMA ChainIs ==
    ASSUME NEW b \in Blocks
    PROVE  Len(ChainOf[b]) = LenOf(b) /\ At(b, Height[b]) = b
<1> DEFINE Good(c) == Len(ChainOf[c]) = Height[c] + 1 /\ ChainOf[c][Height[c] + 1] = c
           S == {n \in Nat : \A c \in Blocks : Height[c] = n => Good(c)}
<1>1. 0 \in S
  <2>1. ASSUME NEW c \in Blocks, Height[c] = 0 PROVE Good(c)
    <3>1. c = Genesis
      BY <2>1, TreeIs
    <3>2. ChainOf[c] = <<c>>
      BY <3>1, HeaderSyncAssumption
    <3> QED BY <2>1, <3>2
  <2> HIDE DEF Good
  <2> QED BY <2>1
<1>2. ASSUME NEW n \in Nat, n \in S PROVE n + 1 \in S
  <2>1. ASSUME NEW c \in Blocks, Height[c] = n + 1 PROVE Good(c)
    <3>1. c # Genesis /\ Parent[c] \in Blocks /\ Height[Parent[c]] = n
      BY <2>1, TreeIs
    <3>2. Good(Parent[c])
      <4> HIDE DEF Good
      <4> QED BY <1>2, <3>1
    <3>3. Len(ChainOf[c]) = n + 2
      BY <3>1, <3>2, ChainGrows
    <3> QED BY <2>1, <3>1, <3>3, ChainGrows
  <2> HIDE DEF Good
  <2> QED BY <2>1
<1>3. Height[b] \in S
  <2> HIDE DEF S
  <2> QED BY <1>1, <1>2, SetInd, TreeIs
<1>4. Good(b)
  <2> HIDE DEF Good
  <2> QED BY <1>3
<1> QED BY <1>4 DEF At, LenOf

\* Below a block its chain is its parent's.
LEMMA AtParent ==
    ASSUME NEW b \in Blocks, b # Genesis, NEW k \in 0..(Height[b] - 1)
    PROVE  At(b, k) = At(Parent[b], k)
<1>1. Parent[b] \in Blocks /\ Height[b] = Height[Parent[b]] + 1 /\ Height[Parent[b]] \in Nat
  BY TreeIs
<1>2. Len(ChainOf[Parent[b]]) = Height[Parent[b]] + 1
  BY <1>1, ChainIs DEF LenOf
<1>3. k + 1 \in 1..Len(ChainOf[Parent[b]])
  BY <1>1, <1>2
<1> QED BY <1>3, ChainGrows DEF At

\* A block of a chain is at its own height, and its chain is the part below it.
LEMMA Ancestor ==
    ASSUME NEW b \in Blocks, NEW h \in 0..Height[b]
    PROVE  /\ At(b, h) \in Blocks /\ Height[At(b, h)] = h
           /\ \A k \in 0..h : At(At(b, h), k) = At(b, k)
           /\ h > 0 => At(b, h) # Genesis /\ Parent[At(b, h)] = At(b, h - 1)
<1> DEFINE Whole(c, i) == /\ At(c, i) \in Blocks /\ Height[At(c, i)] = i
                          /\ \A k \in 0..i : At(At(c, i), k) = At(c, k)
           Good(c) == \A i \in 0..Height[c] : Whole(c, i)
           S == {n \in Nat : \A c \in Blocks : Height[c] = n => Good(c)}
<1>0. \A c \in Blocks : Whole(c, Height[c])
  BY ChainIs
<1>1. 0 \in S
  <2> HIDE DEF Whole
  <2>1. ASSUME NEW c \in Blocks, Height[c] = 0 PROVE Good(c)
    BY <1>0, <2>1
  <2> HIDE DEF Good
  <2> QED BY <2>1
<1>2. ASSUME NEW n \in Nat, n \in S PROVE n + 1 \in S
  <2>1. ASSUME NEW c \in Blocks, Height[c] = n + 1, NEW i \in 0..Height[c] PROVE Whole(c, i)
    <3>1. c # Genesis /\ Parent[c] \in Blocks /\ Height[Parent[c]] = n
      BY <2>1, TreeIs
    <3>2. CASE i = n + 1
      BY <1>0, <2>1, <3>2
    <3>3. CASE i # n + 1
      <4>1. i \in 0..n
        BY <2>1, <3>3
      <4>2. Whole(Parent[c], i)
        <5> HIDE DEF Whole
        <5> QED BY <1>2, <3>1, <4>1
      <4>3. \A k \in 0..n : At(c, k) = At(Parent[c], k)
        BY <2>1, <3>1, AtParent
      <4> QED BY <4>1, <4>2, <4>3
    <3> QED BY <3>2, <3>3
  <2> HIDE DEF Whole
  <2>2. \A c \in Blocks : Height[c] = n + 1 => Good(c)
    BY <2>1
  <2> HIDE DEF Good
  <2> QED BY <2>2
<1>3. Height[b] \in S
  <2> HIDE DEF S
  <2> QED BY <1>1, <1>2, SetInd, TreeIs
<1>4. Good(b)
  <2> HIDE DEF Good
  <2> QED BY <1>3
<1>5. Whole(b, h)
  <2> HIDE DEF Whole
  <2> QED BY <1>4
<1>6. ASSUME h > 0 PROVE At(b, h) # Genesis /\ Parent[At(b, h)] = At(b, h - 1)
  <2>1. PICK a \in Blocks : a = At(b, h)
    BY <1>5
  <2>2. Height[a] = h /\ a # Genesis /\ Parent[a] \in Blocks /\ Height[Parent[a]] = h - 1
    BY <1>5, <1>6, <2>1, TreeIs
  <2>3. At(a, h - 1) = At(Parent[a], h - 1)
    BY <1>6, <2>2, AtParent
  <2>4. At(Parent[a], h - 1) = Parent[a]
    BY <2>2, ChainIs
  <2>5. At(a, h - 1) = At(b, h - 1)
    BY <1>5, <1>6, <2>1
  <2> QED BY <2>1, <2>2, <2>3, <2>4, <2>5
<1> QED BY <1>5, <1>6

\* The blocks of a chain from a height on.
LEMMA FromIs ==
    ASSUME NEW b \in Blocks, NEW h \in Nat
    PROVE  /\ From(b, h) \subseteq Blocks
           /\ \A c \in Blocks : c \in From(b, h) <=>
                 h <= Height[c] /\ Height[c] <= Height[b] /\ c = At(b, Height[c])
<1>1. \A i \in (h + 1)..LenOf(b) : i - 1 \in 0..Height[b] /\ ChainOf[b][i] = At(b, i - 1)
  BY TreeIs DEF LenOf, At
<1>2. From(b, h) \subseteq Blocks
  BY <1>1, Ancestor DEF From
<1>3. ASSUME NEW c \in From(b, h)
      PROVE  h <= Height[c] /\ Height[c] <= Height[b] /\ c = At(b, Height[c])
  <2>1. PICK i \in (h + 1)..LenOf(b) : c = ChainOf[b][i]
    BY DEF From
  <2>2. i - 1 \in 0..Height[b] /\ c = At(b, i - 1)
    BY <1>1, <2>1
  <2>3. Height[c] = i - 1
    BY <2>2, Ancestor
  <2> QED BY <2>1, <2>2, <2>3
<1>4. ASSUME NEW c \in Blocks, h <= Height[c], Height[c] <= Height[b], c = At(b, Height[c])
      PROVE  c \in From(b, h)
  <2>1. Height[c] + 1 \in (h + 1)..LenOf(b)
    BY <1>4, TreeIs DEF LenOf
  <2> QED BY <1>4, <2>1 DEF From, At
<1> QED BY <1>2, <1>3, <1>4

\* Of headers that are a piece of a chain, those above a tip are one too.
LEMMA RunAbove ==
    ASSUME NEW b \in Blocks, NEW h \in Nat, NEW tip \in Blocks
    PROVE  Above(From(b, h), tip) = From(b, Most(h, LenOf(tip)))
<1>1. Most(h, LenOf(tip)) \in Nat /\ Height[tip] \in Nat
  BY TreeIs DEF Most, LenOf
<1>2. From(b, h) \subseteq Blocks /\ From(b, Most(h, LenOf(tip))) \subseteq Blocks
  BY <1>1, FromIs
<1>3. ASSUME NEW c \in Blocks
      PROVE  c \in Above(From(b, h), tip) <=> c \in From(b, Most(h, LenOf(tip)))
  <2>1. Height[c] \in Nat
    BY TreeIs
  <2>2. c \in Above(From(b, h), tip) <=> c \in From(b, h) /\ Height[c] > Height[tip]
    BY DEF Above
  <2>3. c \in From(b, h) <=> h <= Height[c] /\ Height[c] <= Height[b] /\ c = At(b, Height[c])
    BY FromIs
  <2>4. c \in From(b, Most(h, LenOf(tip))) <=>
           Most(h, LenOf(tip)) <= Height[c] /\ Height[c] <= Height[b] /\ c = At(b, Height[c])
    BY <1>1, FromIs
  <2>5. Most(h, LenOf(tip)) <= Height[c] <=> h <= Height[c] /\ Height[c] > Height[tip]
    BY <1>1, <2>1 DEF Most, LenOf
  <2> QED BY <2>2, <2>3, <2>4, <2>5
<1> QED BY <1>2, <1>3 DEF Above

LEMMA AboveIs ==
    ASSUME NEW headers, OneRun(headers), NEW tip \in Blocks
    PROVE  OneRun(Above(headers, tip))
<1>1. PICK b \in Blocks, h \in Nat : headers = From(b, h)
  BY DEF OneRun
<1>2. Above(headers, tip) = From(b, Most(h, LenOf(tip))) /\ Most(h, LenOf(tip)) \in Nat
  BY <1>1, RunAbove, TreeIs DEF Most, LenOf
<1>3. Above(headers, tip) \cap Forged = {}
  BY DEF Above, OneRun
<1> QED BY <1>2, <1>3 DEF OneRun

LEMMA NothingAbove == ASSUME NEW b \in Blocks PROVE From(b, LenOf(b)) = {} /\ LenOf(b) \in Nat
<1>1. LenOf(b) \in Nat
  BY TreeIs DEF LenOf
<1>2. ASSUME NEW c \in From(b, LenOf(b)) PROVE FALSE
  <2>1. c \in Blocks
    BY <1>1, FromIs
  <2>2. LenOf(b) <= Height[c] /\ Height[c] <= Height[b]
    BY <1>1, <2>1, FromIs
  <2> QED BY <2>1, <2>2, TreeIs DEF LenOf
<1> QED BY <1>1, <1>2

LEMMA NoRun == OneRun({})
<1>1. {} \cap Forged = {}
  OBVIOUS
<1> QED BY <1>1, NothingAbove, TreeIs DEF OneRun

\* Headers that are a piece of a chain stand one at a height, each on the one below.
LEMMA RunIs ==
    ASSUME NEW headers, OneRun(headers)
    PROVE  /\ headers \cap Forged = {}
           /\ \A b, c \in headers : Height[b] = Height[c] => b = c
           /\ \A b, c \in headers : Height[b] = Height[c] + 1 => Parent[b] = c
<1>1. PICK top \in Blocks, h \in Nat : headers = From(top, h)
  BY DEF OneRun
<1>2. ASSUME NEW b \in headers
      PROVE  b \in Blocks /\ Height[b] \in 0..Height[top] /\ b = At(top, Height[b])
  BY <1>1, FromIs, TreeIs
<1>3. ASSUME NEW b \in headers, NEW c \in headers, Height[b] = Height[c] + 1
      PROVE  Parent[b] = c
  <2>1. Height[b] \in 0..Height[top] /\ Height[b] > 0 /\ Height[b] - 1 = Height[c]
    BY <1>2, <1>3, TreeIs
  <2>2. Parent[At(top, Height[b])] = At(top, Height[b] - 1)
    BY <2>1, Ancestor
  <2> QED BY <1>2, <2>1, <2>2
<1> QED BY <1>2, <1>3 DEF OneRun

\* What is resumed from is the last header on disk, whose chain holds our tip.
LEMMA ResumeTop ==
    ASSUME NEW own \in Blocks, NEW b \in Blocks, NEW h \in Nat,
           Resumable(own, From(b, h)) # {}
    PROVE  /\ ResumePoint(own, From(b, h)) = b
           /\ Height[b] > Height[own] /\ At(b, Height[own]) = own /\ h <= LenOf(own)
<1>1. PICK c \in From(b, h) : /\ Height[c] > Height[own] /\ At(c, Height[own]) = own
                              /\ From(c, LenOf(own)) \subseteq From(b, h)
  BY DEF Resumable
<1>2. c \in Blocks /\ Height[c] \in 0..Height[b] /\ c = At(b, Height[c])
  BY FromIs, TreeIs
<1>3. Height[own] \in 0..Height[c] /\ Height[own] \in Nat /\ LenOf(own) \in Nat
      /\ LenOf(own) \in 0..Height[c] /\ Height[b] \in Nat
  BY <1>1, <1>2, TreeIs DEF LenOf
<1>4. At(b, Height[own]) = own
  <2>1. At(At(b, Height[c]), Height[own]) = At(b, Height[own])
    BY <1>2, <1>3, Ancestor
  <2> QED BY <1>1, <1>2, <2>1
<1>5. h <= LenOf(own)
  <2>1. PICK d \in Blocks : d = At(c, LenOf(own)) /\ Height[d] = LenOf(own)
    BY <1>2, <1>3, Ancestor
  <2>2. d \in From(c, LenOf(own))
    BY <1>2, <1>3, <2>1, FromIs
  <2> QED BY <1>1, <2>1, <2>2, FromIs
<1>6. From(b, LenOf(own)) \subseteq From(b, h)
  <2>1. ASSUME NEW d \in From(b, LenOf(own)) PROVE d \in From(b, h)
    <3>1. d \in Blocks /\ LenOf(own) <= Height[d] /\ Height[d] <= Height[b] /\ d = At(b, Height[d])
      BY <1>3, FromIs
    <3> QED BY <1>3, <1>5, <3>1, FromIs, TreeIs
  <2> QED BY <2>1
<1>7. b \in Resumable(own, From(b, h)) /\ Height[b] > Height[own]
  <2>1. Height[b] > Height[own] /\ h <= Height[b] /\ b = At(b, Height[b])
    BY <1>1, <1>2, <1>3, <1>5, ChainIs DEF LenOf
  <2>2. b \in From(b, h)
    BY <1>3, <2>1, FromIs
  <2> QED BY <1>4, <1>6, <2>1, <2>2 DEF Resumable
<1>8. \A d \in Resumable(own, From(b, h)) : d \in From(b, h) /\ Height[d] <= Height[b]
  BY FromIs DEF Resumable
<1>9. PICK d \in Resumable(own, From(b, h)) :
         /\ d = ResumePoint(own, From(b, h))
         /\ \A e \in Resumable(own, From(b, h)) : Height[e] <= Height[d]
  BY <1>7, <1>8 DEF ResumePoint
<1>10. Height[d] = Height[b] /\ d = b
  <2>1. d \in From(b, h) /\ d \in Blocks
    BY <1>8, FromIs
  <2>2. Height[d] = Height[b]
    BY <1>3, <1>7, <1>8, <1>9, <2>1, TreeIs
  <2> QED BY <2>1, <2>2, FromIs, ChainIs
<1> QED BY <1>4, <1>5, <1>7, <1>9, <1>10

\* A chain weighs more after blocks whose headers verify.
LEMMA HeavierAbove ==
    ASSUME NEW b \in Blocks, NEW m \in 0..Height[b],
           \A k \in (m + 1)..Height[b] : At(b, k) \notin Forged
    PROVE  /\ Weight[b] >= Weight[At(b, m)]
           /\ Height[b] > m => Weight[b] > Weight[At(b, m)]
<1>0. Height[b] \in Nat /\ m \in Nat
  BY TreeIs
<1> DEFINE Good(k) == Weight[At(b, k)] > Weight[At(b, m)]
           S == {n \in Nat : m + n + 1 <= Height[b] => Good(m + n + 1)}
<1>1. ASSUME NEW k \in (m + 1)..Height[b]
      PROVE  Weight[At(b, k)] > Weight[At(b, k - 1)]
  <2>1. k \in 0..Height[b] /\ k > 0
    BY <1>0
  <2>2. PICK a \in Blocks : a = At(b, k) /\ a # Genesis /\ Parent[a] = At(b, k - 1)
    BY <2>1, Ancestor
  <2>3. a \notin Forged
    BY <2>2
  <2> QED BY <2>2, <2>3, HeaderSyncAssumption
<1>2. ASSUME NEW k \in 0..Height[b] PROVE Weight[At(b, k)] \in Nat
  BY <1>2, Ancestor, TreeIs
<1>3. 0 \in S
  <2>1. ASSUME m + 1 <= Height[b] PROVE Weight[At(b, m + 1)] > Weight[At(b, m)]
    <3>1. m + 1 \in (m + 1)..Height[b] /\ m + 1 - 1 = m
      BY <1>0, <2>1
    <3> QED BY <1>1, <3>1
  <2>2. m + 1 <= Height[b] => Good(m + 1)
    BY <2>1
  <2> HIDE DEF Good
  <2>3. m + 0 + 1 = m + 1
    BY <1>0
  <2> QED BY <2>2, <2>3
<1>4. ASSUME NEW n \in Nat, n \in S PROVE n + 1 \in S
  <2>1. ASSUME m + n + 2 <= Height[b] PROVE Weight[At(b, m + n + 2)] > Weight[At(b, m)]
    <3>1. m + n + 2 \in (m + 1)..Height[b] /\ m + n + 2 - 1 = m + n + 1
          /\ m + n + 1 \in 0..Height[b] /\ m + n + 2 \in 0..Height[b]
      BY <1>0, <2>1
    <3>2. Weight[At(b, m + n + 2)] > Weight[At(b, m + n + 1)]
      BY <1>1, <3>1
    <3>3. Weight[At(b, m + n + 1)] > Weight[At(b, m)]
      BY <1>4, <3>1
    <3> QED BY <1>2, <3>1, <3>2, <3>3
  <2>2. m + n + 2 <= Height[b] => Good(m + n + 2)
    BY <2>1
  <2> HIDE DEF Good
  <2>3. m + (n + 1) + 1 = m + n + 2
    BY <1>0
  <2> QED BY <2>2, <2>3
<1>5. ASSUME Height[b] > m PROVE Weight[At(b, Height[b])] > Weight[At(b, m)]
  <2>1. Height[b] - m - 1 \in Nat /\ m + (Height[b] - m - 1) + 1 = Height[b]
    BY <1>0, <1>5
  <2>2. Height[b] - m - 1 \in S
    <3> HIDE DEF S
    <3> QED BY <1>3, <1>4, <2>1, SetInd
  <2>3. Good(Height[b])
    <3> HIDE DEF Good
    <3> QED BY <2>1, <2>2
  <2> QED BY <2>3
<1>6. At(b, Height[b]) = b
  BY ChainIs
<1>7. CASE Height[b] > m
  BY <1>0, <1>2, <1>5, <1>6, <1>7
<1>8. CASE Height[b] = m
  BY <1>0, <1>2, <1>6, <1>8
<1> QED BY <1>0, <1>7, <1>8

LEMMA MinIs ==
    ASSUME NEW T, T \subseteq Nat, T # {}
    PROVE  Min(T) \in T /\ \A y \in T : Min(T) <= y
BY LeastExists DEF Min

\* A piece of a chain is one of every chain that holds it.
LEMMA PieceHigher ==
    ASSUME NEW b \in Blocks, NEW c \in Blocks, Height[b] <= Height[c], At(c, Height[b]) = b,
           NEW chunk, PieceOf(chunk, b)
    PROVE  PieceOf(chunk, c)
<1>1. Height[b] \in 0..Height[c] /\ Height[c] \in Nat
  BY TreeIs
<1>2. \A k \in 0..Height[b] : At(b, k) = At(c, k)
  BY <1>1, Ancestor
<1>3. chunk \in Seq(Blocks) /\ chunk # <<>> /\ Len(chunk) \in Nat /\ Height[chunk[1]] \in Nat
  BY TreeIs DEF PieceOf
<1>4. \A i \in 1..Len(chunk) : Height[chunk[1]] + i - 1 \in 0..Height[b]
  BY <1>1, <1>3 DEF PieceOf, LenOf
<1> QED BY <1>1, <1>2, <1>3, <1>4 DEF PieceOf, LenOf

\* A piece's blocks are at one height after another, up to its last.
LEMMA PieceIs ==
    ASSUME NEW b \in Blocks, NEW chunk, PieceOf(chunk, b)
    PROVE  /\ Len(chunk) \in Nat \ {0} /\ Height[chunk[1]] \in Nat
           /\ \A i \in 1..Len(chunk) : /\ chunk[i] \in Blocks
                                       /\ Height[chunk[i]] = Height[chunk[1]] + i - 1
           /\ chunk[Len(chunk)] \in Blocks /\ LenOf(chunk[Len(chunk)]) = EndOf(chunk)
           /\ Height[chunk[Len(chunk)]] \in 0..Height[b]
           /\ chunk[Len(chunk)] = At(b, Height[chunk[Len(chunk)]])
           /\ PieceOf(chunk, chunk[Len(chunk)])
<1>1. /\ chunk \in Seq(Blocks) /\ chunk # <<>> /\ Len(chunk) \in Nat \ {0}
      /\ Height[chunk[1]] \in Nat /\ Height[b] \in Nat
  BY TreeIs DEF PieceOf
<1>2. ASSUME NEW i \in 1..Len(chunk)
      PROVE  /\ chunk[i] \in Blocks /\ Height[chunk[1]] + i - 1 \in 0..Height[b]
             /\ chunk[i] = At(b, Height[chunk[1]] + i - 1)
             /\ Height[chunk[i]] = Height[chunk[1]] + i - 1
  <2>1. Height[chunk[1]] + i - 1 \in 0..Height[b] /\ chunk[i] = At(b, Height[chunk[1]] + i - 1)
    BY <1>1 DEF PieceOf, LenOf
  <2> QED BY <1>1, <2>1, Ancestor
<1>3. PICK last \in Blocks : last = chunk[Len(chunk)]
  BY <1>1
<1>4. Height[last] = Height[chunk[1]] + Len(chunk) - 1 /\ Height[last] \in 0..Height[b]
      /\ last = At(b, Height[last])
  BY <1>1, <1>2, <1>3
<1>5. PieceOf(chunk, last)
  <2>1. \A k \in 0..Height[last] : At(last, k) = At(b, k)
    BY <1>4, Ancestor
  <2>2. ASSUME NEW i \in 1..Len(chunk) PROVE chunk[i] = At(last, Height[chunk[1]] + i - 1)
    <3>1. Height[chunk[1]] + i - 1 \in 0..Height[last]
      BY <1>1, <1>4
    <3> QED BY <1>2, <2>1, <3>1
  <2> QED BY <1>1, <1>4, <2>2 DEF PieceOf, LenOf
<1> QED BY <1>1, <1>2, <1>3, <1>4, <1>5 DEF LenOf, EndOf

LEMMA TailPiece ==
    ASSUME NEW b \in Blocks, NEW chunk, PieceOf(chunk, b), Tail(chunk) # <<>>
    PROVE  PieceOf(Tail(chunk), b) /\ Height[Tail(chunk)[1]] = Height[chunk[1]] + 1
<1>1. /\ chunk \in Seq(Blocks) /\ chunk # <<>> /\ Len(chunk) \in Nat \ {0}
      /\ Height[chunk[1]] \in Nat /\ Height[b] \in Nat
  BY TreeIs DEF PieceOf
<1>2. PICK rest \in Seq(Blocks) : /\ rest = Tail(chunk) /\ Len(rest) = Len(chunk) - 1
                                  /\ \A i \in 1..Len(rest) : rest[i] = chunk[i + 1]
  BY <1>1, HeadTailProperties
<1>3. rest # <<>> /\ Len(rest) \in Nat \ {0}
  BY <1>2
<1>4. rest[1] = chunk[2] /\ 2 \in 1..Len(chunk)
  BY <1>1, <1>2, <1>3
<1>5. Height[rest[1]] = Height[chunk[1]] + 1
  BY <1>4, PieceIs
<1>6. ASSUME NEW i \in 1..Len(rest) PROVE rest[i] = At(b, Height[rest[1]] + i - 1)
  <2>1. i + 1 \in 1..Len(chunk) /\ rest[i] = chunk[i + 1]
    BY <1>1, <1>2
  <2>2. chunk[i + 1] = At(b, Height[chunk[1]] + (i + 1) - 1)
    BY <2>1 DEF PieceOf
  <2>3. Height[chunk[1]] + (i + 1) - 1 = Height[rest[1]] + i - 1
    BY <1>1, <1>3, <1>5
  <2> QED BY <2>1, <2>2, <2>3
<1>7. Height[rest[1]] + Len(rest) <= LenOf(b)
  BY <1>1, <1>2, <1>5 DEF PieceOf
<1> QED BY <1>2, <1>3, <1>5, <1>6, <1>7 DEF PieceOf

\* An answer is a piece of a chain.
LEMMA ServedIs ==
    ASSUME NEW b \in Blocks, NEW start \in Nat, ServedFrom(b, start) # <<>>
    PROVE  PieceOf(ServedFrom(b, start), b) /\ Height[ServedFrom(b, start)[1]] = start
<1>1. PICK stop \in Int : stop = Least(start + PerRequest, LenOf(b))
  <2>1. start + PerRequest \in Int /\ LenOf(b) \in Int
    BY TreeIs, HeaderSyncAssumption DEF LenOf
  <2> QED BY <2>1 DEF Least
<1>2. stop <= LenOf(b) /\ LenOf(b) \in Nat /\ Len(ChainOf[b]) = LenOf(b)
  BY <1>1, TreeIs, ChainIs, HeaderSyncAssumption DEF Least, LenOf
<1>3. \A i \in (start + 1)..stop : ChainOf[b][i] \in Blocks
  BY <1>2, TreeIs
<1>4. PICK chunk : chunk = ServedFrom(b, start)
  OBVIOUS
<1>5. chunk = SubSeq(ChainOf[b], start + 1, stop)
  BY <1>1, <1>4 DEF ServedFrom
<1>6. start + 1 \in Int
  OBVIOUS
<1>7. /\ chunk \in Seq(Blocks)
      /\ Len(chunk) = IF start + 1 <= stop THEN stop - (start + 1) + 1 ELSE 0
      /\ \A i \in 1..(stop - (start + 1) + 1) : chunk[i] = ChainOf[b][(start + 1) + i - 1]
  BY <1>3, <1>5, <1>6, SubSeqProperties
<1>8. Len(chunk) \in Nat \ {0} /\ Len(chunk) = stop - start /\ chunk # <<>>
  BY <1>4, <1>7
<1>9. ASSUME NEW i \in 1..Len(chunk)
      PROVE  chunk[i] = At(b, start + i - 1) /\ start + i - 1 \in 0..Height[b]
  <2>1. i \in 1..(stop - (start + 1) + 1) /\ start + i <= stop
    BY <1>8
  <2>2. chunk[i] = ChainOf[b][(start + 1) + i - 1] /\ (start + 1) + i - 1 = (start + i - 1) + 1
    BY <1>7, <2>1
  <2>3. start + i - 1 \in 0..Height[b]
    BY <1>2, <2>1, TreeIs DEF LenOf
  <2> QED BY <2>2, <2>3 DEF At
<1>10. Height[chunk[1]] = start
  BY <1>8, <1>9, Ancestor
<1> QED BY <1>2, <1>4, <1>7, <1>8, <1>9, <1>10 DEF PieceOf

LEMMA Highest ==
    \E n \in Nat : \A b \in Blocks : LenOf(b) <= n
<1> DEFINE Q == {T \in SUBSET Blocks : \E n \in Nat : \A b \in T : LenOf(b) <= n}
<1>1. {} \in Q
  OBVIOUS
<1>2. ASSUME NEW T \in SUBSET Blocks, NEW x \in Blocks, T \in Q, x \notin T PROVE T \cup {x} \in Q
  <2>1. PICK n \in Nat : \A b \in T : LenOf(b) <= n
    BY <1>2
  <2>2. n + LenOf(x) \in Nat /\ \A b \in T \cup {x} : LenOf(b) <= n + LenOf(x)
    BY <2>1, TreeIs DEF LenOf
  <2> QED BY <2>2
<1>3. Blocks \in Q
  <2> HIDE DEF Q
  <2> QED BY <1>1, <1>2, SubsetInd, HeaderSyncAssumption
<1> QED BY <1>3

LEMMA MaxIs ==
    ASSUME NEW n \in Nat, NEW T, T \subseteq 0..n, T # {}
    PROVE  Max(T) \in T
BY GreatestExists DEF Max

LEMMA ClaimsAre ==
    ASSUME peerTip \in [Servers -> Blocks], NEW p \in Servers, NEW claim \in Claims(p)
    PROVE  IsClaim(claim)
<1>1. CASE claim = Claim(peerTip[p])
  BY <1>1, TreeIs DEF Claim, IsClaim, LenOf
<1>2. CASE claim = Inflated
  <2>1. PICK n \in Nat : \A b \in Blocks : LenOf(b) <= n
    BY Highest
  <2>2. {LenOf(b) : b \in Blocks} \subseteq 0..n /\ {LenOf(b) : b \in Blocks} # {}
    BY <2>1, TreeIs DEF LenOf
  <2>3. Max({LenOf(b) : b \in Blocks}) \in Nat
    BY <2>2, MaxIs
  <2> QED BY <1>2, <2>3 DEF Inflated, IsClaim
<1> QED BY <1>1, <1>2 DEF Claims

LEMMA AnswersAre ==
    ASSUME peerTip \in [Servers -> Blocks], NEW p \in Servers, NEW start \in Nat,
           NEW chunk \in Answers(p, start), chunk # <<>>
    PROVE  \E b \in Blocks : PieceOf(chunk, b)
<1>1. PICK b \in Blocks, h \in Nat : chunk = ServedFrom(b, h)
  BY DEF Answers
<1> QED BY <1>1, ServedIs

------------------------------------------------------------------------------
(* What a session's steps change of it. *)
Alike(r, s) ==
    /\ r.peer = s.peer /\ r.last = s.last /\ r.queue = s.queue /\ r.verifying = s.verifying
    /\ r.fork = s.fork /\ r.blocks = s.blocks /\ r.applied = s.applied /\ r.start = s.start
    /\ r.next = s.next /\ r.to = s.to /\ r.weight = s.weight
    /\ (r.overlap => s.overlap)

LEMMA AlikeHolds ==
    ASSUME NEW s, NEW r, NEW headers, NEW own, NEW u \in BOOLEAN,
           SessionHolds(s, headers, own, u), TypedSession(r), Alike(r, s)
    PROVE  SessionHolds(r, headers, own, u)
<1>1. TopOf(r) = TopOf(s) /\ Base(r) = Base(s)
  BY DEF Alike, TopOf, Base
<1>2. Consecutive(s) => Consecutive(r)
  BY DEF Alike, Consecutive
<1>3. Begun(s, headers, own, u) => Begun(r, headers, own, u)
  BY DEF Alike, Begun
<1>4. OnOurs(s, headers, own, u) => OnOurs(r, headers, own, u)
  BY DEF Alike, OnOurs
<1>5. LeavesOurs(s, headers, own, u) => LeavesOurs(r, headers, own, u)
  BY <1>1 DEF Alike, LeavesOurs
<1> QED BY <1>2, <1>3, <1>4, <1>5 DEF Alike, SessionHolds

\* What is certain of a session is certain of one our chain disturbed.
LEMMA Disturbed ==
    ASSUME NEW s, NEW headers, NEW own, NEW u \in BOOLEAN, NEW v \in BOOLEAN,
           SessionHolds(s, headers, own, u), v => u
    PROVE  SessionHolds(s, headers, own, v)
<1>1. Begun(s, headers, own, u) => Begun(s, headers, own, v)
  BY DEF Begun
<1>2. OnOurs(s, headers, own, u) => OnOurs(s, headers, own, v)
  BY DEF OnOurs
<1>3. LeavesOurs(s, headers, own, u) => LeavesOurs(s, headers, own, v)
  BY DEF LeavesOurs
<1> QED BY <1>1, <1>2, <1>3 DEF SessionHolds

\* The fetch goes out, or waits for room, or there is nothing to fetch.
Asked(s) == s.done \/ s.inFlight \/ (Len(s.queue) >= QueueLimit /\ s.deferred)

LEMMA RequestedIs ==
    ASSUME NEW s, TypedSession(s)
    PROVE  TypedSession(Requested(s)) /\ Alike(Requested(s), s) /\ Asked(Requested(s))
<1>0. DOMAIN s = SessionFields
  BY DEF TypedSession
<1>1. CASE s.inFlight \/ s.done
  BY <1>1 DEF Requested, Alike, Asked
<1>2. CASE ~(s.inFlight \/ s.done) /\ Len(s.queue) >= QueueLimit
  <2>1. PICK r : r = [s EXCEPT !.deferred = TRUE]
    OBVIOUS
  <2>2. Requested(s) = r
    BY <1>2, <2>1 DEF Requested
  <2>3. DOMAIN r = SessionFields /\ r.deferred = TRUE /\ r.queue = s.queue
    BY <1>0, <2>1 DEF SessionFields
  <2>4. Alike(r, s)
    BY <1>0, <2>1 DEF SessionFields, Alike
  <2>5. TypedSession(r)
    BY <1>0, <2>1, <2>3 DEF TypedSession, SessionFields
  <2> QED BY <1>2, <2>2, <2>3, <2>4, <2>5 DEF Asked
<1>3. CASE ~(s.inFlight \/ s.done) /\ ~(Len(s.queue) >= QueueLimit)
  <2>1. PICK r : r = [s EXCEPT !.inFlight = TRUE, !.deferred = FALSE]
    OBVIOUS
  <2>2. Requested(s) = r
    BY <1>3, <2>1 DEF Requested
  <2>3. DOMAIN r = SessionFields /\ r.inFlight = TRUE
    BY <1>0, <2>1 DEF SessionFields
  <2>4. Alike(r, s)
    BY <1>0, <2>1 DEF SessionFields, Alike
  <2>5. TypedSession(r)
    BY <1>0, <2>1, <2>3 DEF TypedSession, SessionFields
  <2> QED BY <2>2, <2>3, <2>4, <2>5 DEF Asked
<1> QED BY <1>1, <1>2, <1>3

LEMMA BackingIs ==
    ASSUME NEW s, TypedSession(s)
    PROVE  TypedSession(Backing(s)) /\ Alike(Backing(s), s)
<1>0. DOMAIN s = SessionFields
  BY DEF TypedSession
<1>1. PICK v : v = (s.backed \/ s.weight >= s.claimed.weight)
  OBVIOUS
<1>2. PICK r : r = [s EXCEPT !.backed = v]
  OBVIOUS
<1>3. Backing(s) = r
  BY <1>1, <1>2 DEF Backing
<1>4. Alike(r, s)
  BY <1>0, <1>2 DEF SessionFields, Alike
<1>5. TypedSession(r)
  BY <1>0, <1>2 DEF TypedSession, SessionFields
<1> QED BY <1>3, <1>4, <1>5

LEMMA MaybeBlocksHolds ==
    ASSUME NEW own \in Blocks, NEW s, NEW headers, NEW u \in BOOLEAN,
           SessionHolds(s, headers, own, u)
    PROVE  SessionHolds(MaybeBlocks(own, s), headers, own, u) /\ MaybeBlocks(own, s).peer = s.peer
<1>0. DOMAIN s = SessionFields
  BY DEF TypedSession, SessionHolds
<1>1. CASE ~BlocksDue(own, s)
  BY <1>1 DEF MaybeBlocks
<1>2. CASE BlocksDue(own, s)
  <2>1. PICK r : r = [s EXCEPT !.blocks = TRUE, !.applied = s.fork]
    OBVIOUS
  <2>2. MaybeBlocks(own, s) = r
    BY <1>2, <2>1 DEF MaybeBlocks
  <2>3. DOMAIN r = SessionFields /\ r.blocks = TRUE /\ r.applied = s.fork /\ r.fork = s.fork
    BY <1>0, <2>1 DEF SessionFields
  <2>4. r.last = s.last /\ r.queue = s.queue /\ r.verifying = s.verifying /\ r.to = s.to
        /\ r.next = s.next /\ r.weight = s.weight /\ r.peer = s.peer
    BY <1>0, <2>1 DEF SessionFields
  <2>5. s.fork >= 0 /\ s.weight > Weight[own] /\ s.to > s.fork /\ ~s.blocks
    BY <1>2 DEF BlocksDue
  <2>6. s.fork \in Nat /\ TypedSession(s)
    BY <2>5 DEF TypedSession, SessionHolds
  <2>7. TypedSession(r)
    BY <1>0, <2>1, <2>3, <2>6 DEF TypedSession, SessionFields
  <2>8. s.last # NoBlock
    BY <2>5 DEF SessionHolds, Begun
  <2>9. LeavesOurs(s, headers, own, u) /\ Consecutive(s) /\ s.next >= 1
    BY <2>5, <2>8 DEF SessionHolds
  <2>10. Consecutive(r)
    BY <2>4, <2>9 DEF Consecutive
  <2>11. TopOf(r) = TopOf(s) /\ Base(r) = Base(s)
    BY <2>3, <2>4, <2>5 DEF TopOf, Base
  <2>12. LeavesOurs(r, headers, own, u)
    <3>1. r.applied < r.to /\ Weight[TopOf(r)] > Weight[own]
      BY <2>3, <2>4, <2>5, <2>6, <2>9, <2>11 DEF LeavesOurs, TypedSession
    <3> QED BY <2>4, <2>9, <2>11, <3>1 DEF LeavesOurs
  <2>13. ~(r.fork < 0) /\ r.last # NoBlock
    BY <2>3, <2>4, <2>6, <2>8
  <2>14. SessionHolds(r, headers, own, u)
    BY <2>4, <2>7, <2>9, <2>10, <2>12, <2>13 DEF SessionHolds
  <2> QED BY <2>2, <2>4, <2>14
<1> QED BY <1>1, <1>2

\* A task takes the next chunk: it is still next to what was verified.
LEMMA TakenConsecutive ==
    ASSUME NEW s, NEW r, TypedSession(s), Consecutive(s), s.last \in Blocks,
           s.verifying = <<>>, s.queue # <<>>,
           r.verifying = Head(s.queue), r.queue = Tail(s.queue), r.last = s.last, r.to = s.to
    PROVE  Consecutive(r) /\ r.verifying \in Seq(Blocks) /\ r.queue \in Seq(Seq(Blocks))
           /\ r.verifying # <<>>
<1>0. PICK chunks : chunks = Seq(Blocks)
  OBVIOUS
<1>1. PICK q \in Seq(chunks) : q = s.queue /\ q # <<>> /\ Len(q) \in Nat \ {0}
  BY <1>0 DEF TypedSession
<1>2. PICK rest \in Seq(chunks) : /\ rest = r.queue /\ Len(rest) = Len(q) - 1 /\ Len(rest) \in Nat
                                  /\ \A i \in 1..Len(rest) : rest[i] = q[i + 1]
  <2>1. /\ Tail(q) \in Seq(chunks) /\ Len(Tail(q)) = Len(q) - 1
        /\ \A i \in 1..Len(Tail(q)) : Tail(q)[i] = q[i + 1]
    BY <1>1, HeadTailProperties
  <2>2. r.queue = Tail(q) /\ Len(q) - 1 \in Nat
    BY <1>1
  <2> QED BY <2>1, <2>2
<1>3. r.verifying = q[1]
  BY <1>1
<1>4. PICK last \in Blocks, to \in Nat : last = s.last /\ to = s.to
  BY DEF TypedSession
<1>5. /\ \A i \in 1..Len(q) : PieceOf(q[i], last)
      /\ Height[q[1][1]] = to + Len(<<>>)
      /\ \A i \in 2..Len(q) : Height[q[i][1]] = EndOf(q[i - 1])
      /\ LenOf(last) = EndOf(q[Len(q)])
  BY <1>1, <1>4 DEF Consecutive
<1>6. PieceOf(q[1], last) /\ Height[q[1][1]] = to /\ q[1] # <<>> /\ Len(q[1]) \in Nat
  <2>1. PieceOf(q[1], last)
    BY <1>1, <1>5
  <2>2. q[1] # <<>> /\ Len(q[1]) \in Nat
    BY <2>1 DEF PieceOf
  <2>3. Len(<<>>) = 0
    OBVIOUS
  <2> QED BY <1>4, <1>5, <2>1, <2>2, <2>3
<1>7. \A i \in 1..Len(rest) : PieceOf(rest[i], last)
  BY <1>1, <1>2, <1>5
<1>8. ASSUME rest # <<>> PROVE Height[rest[1][1]] = to + Len(q[1]) /\ Len(rest) \in Nat \ {0}
  <2>1. Len(rest) \in Nat \ {0} /\ rest[1] = q[2] /\ 2 \in 2..Len(q)
    BY <1>1, <1>2, <1>8
  <2>2. Height[q[2][1]] = EndOf(q[1])
    BY <1>5, <2>1
  <2> QED BY <1>6, <2>1, <2>2 DEF EndOf
<1>9. ASSUME NEW i \in 2..Len(rest) PROVE Height[rest[i][1]] = EndOf(rest[i - 1])
  <2>1. i + 1 \in 2..Len(q) /\ rest[i] = q[i + 1] /\ rest[i - 1] = q[i] /\ i + 1 - 1 = i
    BY <1>1, <1>2
  <2>2. Height[q[i + 1][1]] = EndOf(q[i + 1 - 1])
    BY <1>5, <2>1
  <2> QED BY <2>1, <2>2
<1>10. LenOf(last) = IF rest = <<>> THEN to + Len(q[1]) ELSE EndOf(rest[Len(rest)])
  <2>1. CASE rest = <<>>
    <3>1. Len(q) = 1
      <4>1. Len(rest) = 0
        BY <2>1
      <4> QED BY <1>1, <1>2, <4>1
    <3> QED BY <1>5, <1>6, <2>1, <3>1 DEF EndOf
  <2>2. CASE rest # <<>>
    <3>1. Len(rest) \in 1..Len(rest) /\ Len(rest) + 1 = Len(q)
      BY <1>1, <1>2, <1>8, <2>2
    <3>2. rest[Len(rest)] = q[Len(q)]
      BY <1>2, <3>1
    <3> QED BY <1>5, <2>2, <3>2
  <2> QED BY <2>1, <2>2
<1>11. r.verifying \in Seq(Blocks) /\ r.verifying # <<>>
  BY <1>3, <1>6 DEF PieceOf
<1>12. Consecutive(r)
  BY <1>2, <1>3, <1>4, <1>6, <1>7, <1>8, <1>9, <1>10 DEF Consecutive
<1> QED BY <1>0, <1>2, <1>11, <1>12

LEMMA VerifyNextHolds ==
    ASSUME NEW own \in Blocks, NEW s, NEW headers, NEW u \in BOOLEAN,
           SessionHolds(s, headers, own, u), Asked(s)
    PROVE  /\ SessionHolds(VerifyNext(s), headers, own, u) /\ Fetching(VerifyNext(s))
           /\ VerifyNext(s).peer = s.peer
<1>0. DOMAIN s = SessionFields /\ TypedSession(s) /\ Len(<<>>) = 0 /\ QueueLimit \in Nat \ {0}
  BY HeaderSyncAssumption DEF TypedSession, SessionHolds
<1>1. CASE s.verifying # <<>>
  BY <1>1 DEF VerifyNext, Asked, Fetching
<1>2. CASE s.queue = <<>>
  <2>1. ~(Len(s.queue) >= QueueLimit)
    BY <1>0, <1>2
  <2> QED BY <1>2, <2>1 DEF VerifyNext, Asked, Fetching
<1>3. CASE s.verifying = <<>> /\ s.queue # <<>>
  <2>1. PICK taken, rest : taken = Head(s.queue) /\ rest = Tail(s.queue)
    OBVIOUS
  <2>2. PICK r : r = [s EXCEPT !.verifying = taken, !.queue = rest]
    OBVIOUS
  <2>3. VerifyNext(s) = IF s.deferred THEN Requested(r) ELSE r
    BY <1>3, <2>1, <2>2 DEF VerifyNext
  <2>4. DOMAIN r = SessionFields /\ r.verifying = taken /\ r.queue = rest
    BY <1>0, <2>2 DEF SessionFields
  <2>5. /\ r.last = s.last /\ r.to = s.to /\ r.next = s.next /\ r.weight = s.weight
        /\ r.peer = s.peer /\ r.fork = s.fork /\ r.blocks = s.blocks /\ r.applied = s.applied
        /\ r.done = s.done /\ r.inFlight = s.inFlight /\ r.start = s.start /\ r.overlap = s.overlap
    BY <1>0, <2>2 DEF SessionFields
  <2>6. s.last # NoBlock /\ s.last \in Blocks /\ Consecutive(s) /\ s.next >= 1
    BY <1>0, <1>3 DEF SessionHolds, Begun, TypedSession
  <2>7. Consecutive(r) /\ taken \in Seq(Blocks) /\ rest \in Seq(Seq(Blocks)) /\ taken # <<>>
    BY <1>0, <1>3, <2>1, <2>4, <2>5, <2>6, TakenConsecutive
  <2>8. TypedSession(r)
    BY <1>0, <2>2, <2>4, <2>7 DEF TypedSession, SessionFields
  <2>9. TopOf(r) = TopOf(s) /\ Base(r) = Base(s)
    BY <2>5 DEF TopOf, Base
  <2>10. OnOurs(s, headers, own, u) => OnOurs(r, headers, own, u)
    BY <2>5 DEF OnOurs
  <2>11. LeavesOurs(s, headers, own, u) => LeavesOurs(r, headers, own, u)
    BY <2>5, <2>9 DEF LeavesOurs
  <2>12. SessionHolds(r, headers, own, u)
    BY <2>5, <2>6, <2>7, <2>8, <2>10, <2>11 DEF SessionHolds
  <2>13. CASE s.deferred
    <3>1. PICK t : t = Requested(r)
      OBVIOUS
    <3>2. TypedSession(t) /\ Alike(t, r) /\ Asked(t)
      BY <2>8, <3>1, RequestedIs
    <3>3. SessionHolds(t, headers, own, u)
      BY <2>12, <3>2, AlikeHolds
    <3>4. t.verifying # <<>> /\ t.peer = s.peer
      BY <2>4, <2>5, <2>7, <3>2 DEF Alike
    <3> QED BY <2>3, <2>13, <3>1, <3>2, <3>3, <3>4 DEF Fetching, Asked
  <2>14. CASE ~s.deferred
    <3>1. r.done \/ r.inFlight
      BY <2>5, <2>14 DEF Asked
    <3> QED BY <2>3, <2>4, <2>5, <2>7, <2>12, <2>14, <3>1 DEF Fetching
  <2> QED BY <2>13, <2>14
<1> QED BY <1>1, <1>2, <1>3

LEMMA MaybeBlocksSame ==
    ASSUME NEW own, NEW s, DOMAIN s = SessionFields
    PROVE  /\ MaybeBlocks(own, s).queue = s.queue /\ MaybeBlocks(own, s).verifying = s.verifying
           /\ MaybeBlocks(own, s).done = s.done /\ MaybeBlocks(own, s).inFlight = s.inFlight
           /\ MaybeBlocks(own, s).deferred = s.deferred
BY DEF MaybeBlocks, SessionFields

------------------------------------------------------------------------------
(* A session begins, ends, or goes on. *)
LEMMA NewSessionIs ==
    ASSUME NEW p \in Servers, NEW claim, IsClaim(claim), NEW step \in Nat, NEW start \in Nat
    PROVE  TypedSession(NewSession(p, claim, step, start))
<1>1. PICK s : s = NewSession(p, claim, step, start)
  OBVIOUS
<1>2. DOMAIN s = SessionFields
  BY <1>1 DEF NewSession, SessionFields
<1>3. s.peer = p /\ s.claimed = claim /\ s.step = step /\ s.start = start /\ s.next = start
      /\ s.to = start /\ s.applied = 0 /\ s.fork = -1
  BY <1>1 DEF NewSession
<1>4. s.blocks \in BOOLEAN /\ s.done \in BOOLEAN /\ s.inFlight \in BOOLEAN
      /\ s.deferred \in BOOLEAN /\ s.overlap \in BOOLEAN
  BY <1>1 DEF NewSession
<1>5. s.verifying = <<>> /\ s.queue = <<>> /\ s.last = NoBlock
  BY <1>1 DEF NewSession
<1>6. <<>> \in Seq(Blocks) /\ <<>> \in Seq(Seq(Blocks))
  OBVIOUS
<1>7. TypedSession(s)
  BY <1>2, <1>3, <1>4, <1>5, <1>6 DEF TypedSession
<1> QED BY <1>1, <1>7

LEMMA FreshHolds ==
    ASSUME NEW own \in Blocks, NEW p \in Servers, NEW claim, IsClaim(claim), NEW step \in Nat
    PROVE  /\ SessionHolds(FreshSession(own, p, claim, step), {}, own, TRUE)
           /\ FreshSession(own, p, claim, step).queue = <<>>
<1>1. PICK start \in Nat : /\ start = Most(Least(LenOf(own), claim.height) - step, 0)
                           /\ start <= LenOf(own)
  <2>1. LenOf(own) \in Nat /\ claim.height \in Nat
    BY TreeIs DEF LenOf, IsClaim
  <2>2. PICK least \in Nat : least = Least(LenOf(own), claim.height) /\ least <= LenOf(own)
    BY <2>1 DEF Least
  <2> QED BY <2>1, <2>2 DEF Most
<1>2. PICK s : s = NewSession(p, claim, step, start) /\ s = FreshSession(own, p, claim, step)
  BY <1>1 DEF FreshSession
<1>3. TypedSession(s)
  BY <1>2, NewSessionIs
<1>4. /\ s.queue = <<>> /\ s.verifying = <<>> /\ s.fork = -1 /\ ~s.blocks /\ s.last = NoBlock
      /\ s.next = start /\ s.start = start /\ s.to = start /\ ~s.overlap
  BY <1>2 DEF NewSession
<1>5. Begun(s, {}, own, TRUE)
  BY <1>1, <1>4 DEF Begun
<1> QED BY <1>2, <1>3, <1>4, <1>5 DEF SessionHolds

LEMMA ResumedHolds ==
    ASSUME NEW own \in Blocks, NEW p \in Servers, NEW claim, IsClaim(claim), NEW step \in Nat,
           NEW b \in Blocks, NEW h \in Nat,
           Height[b] > Height[own], At(b, Height[own]) = own, h <= LenOf(own)
    PROVE  /\ SessionHolds(Resumed(own, p, claim, step, b), From(b, h), own, TRUE)
           /\ Resumed(own, p, claim, step, b).queue = <<>>
<1>0. /\ LenOf(own) \in Nat \ {0} /\ LenOf(b) \in Nat /\ Height[b] \in Nat \ {0} /\ Height[own] \in Nat
      /\ LenOf(own) <= LenOf(b) /\ LenOf(b) = Height[b] + 1 /\ LenOf(own) = Height[own] + 1
      /\ Weight[b] \in Nat
  BY TreeIs DEF LenOf
<1>1. PICK n : n = NewSession(p, claim, step, LenOf(own))
  OBVIOUS
<1>2. TypedSession(n)
  BY <1>0, <1>1, NewSessionIs
<1>3. PICK at, high, long, heavy : at = LenOf(own) /\ high = Height[b] /\ long = LenOf(b) /\ heavy = Weight[b]
  OBVIOUS
<1>4. PICK s : s = [n EXCEPT !.fork = at, !.last = b, !.overlap = TRUE, !.next = high,
                             !.to = long, !.weight = heavy]
  OBVIOUS
<1>5. s = Resumed(own, p, claim, step, b)
  BY <1>1, <1>3, <1>4 DEF Resumed
<1>6. DOMAIN n = SessionFields
  BY <1>2 DEF TypedSession
<1>7. /\ DOMAIN s = SessionFields /\ s.fork = at /\ s.last = b /\ s.overlap = TRUE
      /\ s.next = high /\ s.to = long /\ s.weight = heavy
  BY <1>4, <1>6 DEF SessionFields
<1>8. /\ s.peer = n.peer /\ s.claimed = n.claimed /\ s.step = n.step /\ s.start = n.start
      /\ s.applied = n.applied /\ s.blocks = n.blocks /\ s.done = n.done
      /\ s.inFlight = n.inFlight /\ s.deferred = n.deferred
      /\ s.verifying = n.verifying /\ s.queue = n.queue
  BY <1>4, <1>6 DEF SessionFields
<1>9. n.verifying = <<>> /\ n.queue = <<>> /\ n.blocks = FALSE
  BY <1>1 DEF NewSession
<1>10. TypedSession(s)
  BY <1>0, <1>2, <1>3, <1>7, <1>8 DEF TypedSession
<1>11. TopOf(s) = b /\ Base(s) = LenOf(own)
  <2>1. long - 1 = Height[b]
    BY <1>0, <1>3
  <2> QED BY <1>3, <1>7, <1>8, <1>9, <2>1, ChainIs DEF TopOf, Base
<1>12. Shares(own, b, LenOf(own))
  <2>1. Height[own] \in 0..Height[b]
    BY <1>0
  <2>2. \A k \in 0..Height[own] : At(own, k) = At(b, k)
    BY <2>1, Ancestor
  <2> QED BY <1>0, <2>2 DEF Shares
<1>13. LeavesOurs(s, From(b, h), own, TRUE)
  BY <1>0, <1>3, <1>7, <1>8, <1>9, <1>11, <1>12 DEF LeavesOurs
<1>14. Consecutive(s)
  <2>1. Len(<<>>) = 0 /\ 1..0 = {} /\ 2..0 = {}
    OBVIOUS
  <2> QED BY <1>0, <1>3, <1>7, <1>8, <1>9, <2>1 DEF Consecutive
<1>15. b # NoBlock
  BY HeaderSyncAssumption
<1>16. ~(s.fork < 0) /\ s.last # NoBlock /\ s.next >= 1
  BY <1>0, <1>3, <1>7, <1>15
<1>17. SessionHolds(s, From(b, h), own, TRUE)
  BY <1>10, <1>13, <1>14, <1>16 DEF SessionHolds
<1> QED BY <1>5, <1>8, <1>9, <1>17

\* The headers kept are a run, and the session goes on from its end or afresh.
LEMMA StartKeeps ==
    ASSUME NEW own \in Blocks, NEW p \in Servers, NEW claim, IsClaim(claim), NEW step \in Nat,
           NEW mayResume, NEW headers, OneRun(headers), Start(own, p, claim, step, mayResume, headers)
    PROVE  OneRun(stored') /\ Keeps(session', stored', own, TRUE) /\ session'.peer = p
<1>0. Len(<<>>) = 0 /\ QueueLimit \in Nat \ {0}
  BY HeaderSyncAssumption
<1>1. CASE ~mayResume \/ Resumable(own, headers) = {}
  <2>1. stored' = {} /\ session' = Requested(FreshSession(own, p, claim, step))
    BY <1>1 DEF Start, HeadersKept
  <2>2. PICK s : s = FreshSession(own, p, claim, step)
    OBVIOUS
  <2>3. SessionHolds(s, {}, own, TRUE) /\ s.queue = <<>>
    BY <2>2, FreshHolds
  <2>4. PICK r : r = Requested(s) /\ TypedSession(r) /\ Alike(r, s) /\ Asked(r)
    BY <2>3, RequestedIs DEF SessionHolds
  <2>5. SessionHolds(r, {}, own, TRUE)
    BY <2>3, <2>4, AlikeHolds
  <2>6. Fetching(r)
    BY <1>0, <2>3, <2>4 DEF Alike, Asked, Fetching
  <2>7. s.peer = p
    BY <2>2 DEF FreshSession, NewSession
  <2> QED BY <2>1, <2>2, <2>4, <2>5, <2>6, <2>7, NoRun DEF Keeps, Alike
<1>2. CASE ~(~mayResume \/ Resumable(own, headers) = {})
  <2>1. /\ stored' = headers
        /\ session' = MaybeBlocks(own, Requested(Resumed(own, p, claim, step, ResumePoint(own, headers))))
    BY <1>2 DEF Start, HeadersKept
  <2>2. PICK b \in Blocks, h \in Nat : headers = From(b, h)
    BY DEF OneRun
  <2>3. ResumePoint(own, headers) = b /\ Height[b] > Height[own] /\ At(b, Height[own]) = own
        /\ h <= LenOf(own)
    BY <1>2, <2>2, ResumeTop
  <2>4. PICK s : s = Resumed(own, p, claim, step, b)
    OBVIOUS
  <2>5. SessionHolds(s, headers, own, TRUE) /\ s.queue = <<>>
    BY <2>2, <2>3, <2>4, ResumedHolds
  <2>6. PICK r : r = Requested(s) /\ TypedSession(r) /\ Alike(r, s) /\ Asked(r)
    BY <2>5, RequestedIs DEF SessionHolds
  <2>7. SessionHolds(r, headers, own, TRUE)
    BY <2>5, <2>6, AlikeHolds
  <2>8. PICK t : t = MaybeBlocks(own, r)
    OBVIOUS
  <2>9. SessionHolds(t, headers, own, TRUE) /\ t.peer = r.peer
    BY <2>7, <2>8, MaybeBlocksHolds
  <2>10. t.queue = r.queue /\ t.done = r.done /\ t.inFlight = r.inFlight
    BY <2>6, <2>8, MaybeBlocksSame DEF TypedSession
  <2>11. Fetching(t)
    BY <1>0, <2>5, <2>6, <2>10 DEF Alike, Asked, Fetching
  <2>12. s.peer = p
    BY <2>4 DEF Resumed, NewSession
  <2>13. session' = t
    BY <2>1, <2>3, <2>4, <2>6, <2>8
  <2> QED BY <2>1, <2>6, <2>9, <2>11, <2>12, <2>13 DEF Keeps, Alike
<1> QED BY <1>1, <1>2

LEMMA StartBestKeeps ==
    ASSUME NEW own \in Blocks, NEW known, Claimed(known), NEW held, NEW headers, OneRun(headers),
           StartBest(own, known, held, headers)
    PROVE  OneRun(stored') /\ Keeps(session', stored', own, TRUE)
<1>1. CASE BestPeers(own, known, held) = {} /\ session' = NoSession /\ stored' = headers
  BY <1>1 DEF Keeps
<1>2. CASE \E p \in BestPeers(own, known, held) : Start(own, p, known[p], InitialStep, TRUE, headers)
  <2>1. PICK p \in BestPeers(own, known, held) : Start(own, p, known[p], InitialStep, TRUE, headers)
    BY <1>2
  <2>2. p \in Servers /\ IsClaim(known[p]) /\ InitialStep \in Nat
    BY HeaderSyncAssumption DEF BestPeers, Heavier, Claimed
  <2> QED BY <2>1, <2>2, StartKeeps
<1> QED BY <1>1, <1>2 DEF StartBest

LEMMA EndSessionKeeps ==
    ASSUME NEW own \in Blocks, NEW blame, NEW headers, OneRun(headers), Claimed(tips),
           EndSession(own, blame, headers)
    PROVE  Claimed(tips') /\ OneRun(stored') /\ Keeps(session', stored', own, TRUE)
<1>1. PICK p : p = session.peer
  OBVIOUS
<1>2. tips' = IF Bans(p, blame) THEN [tips EXCEPT ![p] = NoClaim] ELSE tips
  BY <1>1 DEF EndSession
<1>3. IsClaim(NoClaim)
  BY DEF NoClaim, IsClaim
<1>4. Claimed(tips')
  BY <1>2, <1>3 DEF Claimed
<1>5. StartBest(own, tips', barred', IF blame = "ban" THEN {} ELSE headers)
  BY DEF EndSession
<1>6. OneRun(IF blame = "ban" THEN {} ELSE headers)
  BY NoRun
<1> QED BY <1>4, <1>5, <1>6, StartBestKeeps

\* A handler leaves its session as s, or another begins, or none.
LeftAt(own, s, headers) ==
    \/ session' = s /\ stored' = headers
    \/ Keeps(session', stored', own, TRUE)

LEMMA FinishKeeps ==
    ASSUME NEW own \in Blocks, NEW s, NEW headers, OneRun(headers), Claimed(tips),
           Finish(own, s, headers)
    PROVE  Claimed(tips') /\ OneRun(stored') /\ LeftAt(own, s, headers)
<1>1. CASE session' = s /\ stored' = headers /\ UNCHANGED tips
  BY <1>1 DEF LeftAt
<1>2. CASE EndSession(own, Shortfall(s), {})
  BY <1>2, EndSessionKeeps, NoRun DEF LeftAt
<1>3. CASE StartBest(own, tips, barred', headers) /\ UNCHANGED tips
  BY <1>3, StartBestKeeps DEF LeftAt
<1> QED BY <1>1, <1>2, <1>3 DEF Finish

\* The session that comes of a step: as it was left, or another.
Kept(own) ==
    /\ Claimed(tips') /\ OneRun(stored')
    /\ Keeps(session', stored', own, session'.peer \notin excused')

LEMMA Ends ==
    ASSUME NEW own \in Blocks, NEW s, NEW headers, NEW u \in BOOLEAN, OneRun(headers), Claimed(tips),
           SessionHolds(s, headers, own, u), Fetching(s), Finish(own, s, headers),
           excused \subseteq excused',
           s.peer \notin excused => u
    PROVE  Kept(own)
<1>1. Claimed(tips') /\ OneRun(stored') /\ LeftAt(own, s, headers)
  BY FinishKeeps
<1>2. PICK v \in BOOLEAN : v = (session'.peer \notin excused')
  OBVIOUS
<1>3. CASE session' = s /\ stored' = headers
  <2>1. v => u
    BY <1>2, <1>3
  <2>2. SessionHolds(s, headers, own, v)
    BY <2>1, Disturbed
  <2> QED BY <1>1, <1>2, <1>3, <2>2 DEF Keeps, Kept
<1>4. CASE Keeps(session', stored', own, TRUE)
  <2>1. session' # NoSession => SessionHolds(session', stored', own, v)
    BY <1>4, Disturbed DEF Keeps
  <2> QED BY <1>1, <1>2, <1>4, <2>1 DEF Keeps, Kept
<1> QED BY <1>1, <1>3, <1>4 DEF LeftAt

LEMMA Anew ==
    ASSUME NEW own, Claimed(tips'), OneRun(stored'), Keeps(session', stored', own, TRUE)
    PROVE  Kept(own)
<1>1. PICK v \in BOOLEAN : v = (session'.peer \notin excused')
  OBVIOUS
<1>2. session' # NoSession => SessionHolds(session', stored', own, v)
  BY Disturbed DEF Keeps
<1> QED BY <1>1, <1>2 DEF Keeps, Kept

------------------------------------------------------------------------------
(* A chunk is fetched. *)
LEMMA RequestNext ==
    ASSUME NEW own \in Blocks, NEW s, NEW headers, NEW u \in BOOLEAN,
           SessionHolds(s, headers, own, u)
    PROVE  /\ SessionHolds(VerifyNext(Requested(s)), headers, own, u)
           /\ Fetching(VerifyNext(Requested(s))) /\ VerifyNext(Requested(s)).peer = s.peer
<1>1. PICK r : r = Requested(s) /\ TypedSession(r) /\ Alike(r, s) /\ Asked(r)
  BY RequestedIs DEF SessionHolds
<1>2. SessionHolds(r, headers, own, u)
  BY <1>1, AlikeHolds
<1>3. /\ SessionHolds(VerifyNext(r), headers, own, u) /\ Fetching(VerifyNext(r))
      /\ VerifyNext(r).peer = r.peer
  BY <1>1, <1>2, VerifyNextHolds
<1> QED BY <1>1, <1>3 DEF Alike

LEMMA SharesHigher ==
    ASSUME NEW b \in Blocks, NEW c \in Blocks, Height[b] <= Height[c], At(c, Height[b]) = b,
           NEW own \in Blocks, NEW n \in Nat, Shares(own, b, n)
    PROVE  Shares(own, c, n)
<1>1. Height[b] \in 0..Height[c] /\ Height[b] \in Nat /\ Height[c] \in Nat
  BY TreeIs
<1>2. \A k \in 0..Height[b] : At(b, k) = At(c, k)
  BY <1>1, Ancestor
<1>3. n <= LenOf(own) /\ n <= LenOf(c)
  BY <1>1 DEF Shares, LenOf
<1>4. ASSUME NEW k \in 0..(n - 1) PROVE At(own, k) = At(c, k)
  <2>1. k \in 0..Height[b] /\ At(own, k) = At(b, k)
    BY <1>1 DEF Shares, LenOf
  <2> QED BY <1>2, <2>1
<1> QED BY <1>3, <1>4 DEF Shares

\* What was verified is below the last header fetched.
LEMMA Fetched ==
    ASSUME NEW s, TypedSession(s), Consecutive(s), s.last \in Blocks
    PROVE  s.to <= LenOf(s.last)
<1>0. s.to \in Nat /\ LenOf(s.last) \in Nat /\ Len(s.verifying) \in Nat
  BY TreeIs DEF TypedSession, LenOf
<1>1. CASE s.queue = <<>>
  BY <1>0, <1>1 DEF Consecutive
<1>2. CASE s.queue # <<>>
  <2>0. PICK chunks : chunks = Seq(Blocks)
    OBVIOUS
  <2>1. s.queue \in Seq(chunks) /\ Len(s.queue) \in Nat \ {0}
    BY <1>2, <2>0 DEF TypedSession
  <2>2. PieceOf(s.queue[1], s.last) /\ Height[s.queue[1][1]] = s.to + Len(s.verifying)
    BY <1>2, <2>1 DEF Consecutive
  <2>3. Len(s.queue[1]) \in Nat /\ Height[s.queue[1][1]] + Len(s.queue[1]) <= LenOf(s.last)
    BY <2>2 DEF PieceOf
  <2> QED BY <1>0, <2>2, <2>3
<1> QED BY <1>1, <1>2

\* A chunk on the last header fetched.
LEMMA AppendedConsecutive ==
    ASSUME NEW s, NEW r, NEW chunk, NEW last \in Blocks, TypedSession(s), Consecutive(s),
           s.last \in Blocks, PieceOf(chunk, last), LenOf(last) = EndOf(chunk),
           Height[s.last] <= Height[last], At(last, Height[s.last]) = s.last,
           Height[chunk[1]] = LenOf(s.last),
           r.verifying = s.verifying, r.queue = Append(s.queue, chunk),
           r.last = last, r.to = s.to
    PROVE  Consecutive(r) /\ r.queue \in Seq(Seq(Blocks))
<1>0. PICK chunks : chunks = Seq(Blocks) /\ chunk \in chunks
  BY DEF PieceOf
<1>1. PICK q \in Seq(chunks) : q = s.queue /\ Len(q) \in Nat
  BY <1>0 DEF TypedSession
<1>2. PICK more \in Seq(chunks) : /\ more = r.queue /\ Len(more) = Len(q) + 1
                                  /\ more[Len(q) + 1] = chunk
                                  /\ \A i \in 1..Len(q) : more[i] = q[i]
  <2>1. PICK more \in Seq(chunks) : more = Append(q, chunk) /\ more = r.queue
    BY <1>0, <1>1, AppendProperties
  <2>2. Len(more) = Len(q) + 1 /\ \A i \in 1..Len(q) : more[i] = q[i]
    BY <1>0, <1>1, <2>1, AppendProperties
  <2>3. more[Len(q) + 1] = chunk
    BY <1>0, <1>1, <2>1, AppendProperties
  <2> QED BY <2>1, <2>2, <2>3
<1>3. \A c : PieceOf(c, s.last) => PieceOf(c, last)
  BY PieceHigher
<1>4. s.verifying # <<>> => PieceOf(s.verifying, last) /\ Height[s.verifying[1]] = s.to
  BY <1>3 DEF Consecutive
<1>5. ASSUME NEW i \in 1..Len(more) PROVE PieceOf(more[i], last)
  <2>1. CASE i = Len(q) + 1
    BY <1>2, <2>1
  <2>2. CASE i # Len(q) + 1
    <3>1. i \in 1..Len(q)
      BY <1>1, <1>2, <2>2
    <3>2. PieceOf(q[i], s.last)
      BY <1>1, <3>1 DEF Consecutive
    <3> QED BY <1>2, <1>3, <3>1, <3>2
  <2> QED BY <2>1, <2>2
<1>6. Height[more[1][1]] = s.to + Len(s.verifying)
  <2>1. CASE q = <<>>
    <3>1. Len(q) = 0
      BY <2>1
    <3>2. more[1] = chunk
      BY <1>2, <3>1
    <3>3. LenOf(s.last) = s.to + Len(s.verifying)
      BY <1>1, <2>1 DEF Consecutive
    <3> QED BY <3>2, <3>3
  <2>2. CASE q # <<>>
    <3>1. 1 \in 1..Len(q)
      BY <1>1, <2>2
    <3>2. Height[q[1][1]] = s.to + Len(s.verifying)
      BY <1>1, <2>2 DEF Consecutive
    <3> QED BY <1>2, <3>1, <3>2
  <2> QED BY <2>1, <2>2
<1>7. ASSUME NEW i \in 2..Len(more) PROVE Height[more[i][1]] = EndOf(more[i - 1])
  <2>0. i - 1 \in 1..Len(q) /\ more[i - 1] = q[i - 1]
    BY <1>1, <1>2
  <2>1. CASE i = Len(q) + 1
    <3>1. q # <<>> /\ i - 1 = Len(q)
      BY <1>1, <2>0, <2>1
    <3>2. LenOf(s.last) = EndOf(q[Len(q)])
      BY <1>1, <3>1 DEF Consecutive
    <3> QED BY <1>2, <2>0, <2>1, <3>1, <3>2
  <2>2. CASE i # Len(q) + 1
    <3>1. i \in 2..Len(q) /\ i \in 1..Len(q)
      BY <1>1, <1>2, <2>2
    <3>2. Height[q[i][1]] = EndOf(q[i - 1])
      BY <1>1, <3>1 DEF Consecutive
    <3> QED BY <1>2, <2>0, <3>1, <3>2
  <2> QED BY <2>1, <2>2
<1>8. LenOf(last) = EndOf(more[Len(more)]) /\ more # <<>>
  BY <1>1, <1>2
<1>9. Consecutive(r)
  BY <1>2, <1>4, <1>5, <1>6, <1>7, <1>8 DEF Consecutive
<1> QED BY <1>0, <1>2, <1>9

LEMMA QueuedUpHolds ==
    ASSUME ourTip \in Blocks, NEW s, NEW headers, NEW u \in BOOLEAN, NEW b \in Blocks,
           SessionHolds(s, headers, ourTip, u), NEW chunk, PieceOf(chunk, b),
           Height[chunk[1]] = s.next, Follows(s, chunk), NEW full \in BOOLEAN
    PROVE  /\ SessionHolds(QueuedUp(s, chunk, full), headers, ourTip, u)
           /\ QueuedUp(s, chunk, full).peer = s.peer
<1>0. TypedSession(s) /\ DOMAIN s = SessionFields /\ s.next \in Nat /\ s.start \in Nat /\ s.to \in Nat
  BY DEF SessionHolds, TypedSession
<1>1. PICK last \in Blocks : last = chunk[Len(chunk)]
  BY PieceIs
<1>2. /\ PieceOf(chunk, last) /\ LenOf(last) = EndOf(chunk) /\ Len(chunk) \in Nat \ {0}
      /\ chunk \in Seq(Blocks) /\ chunk[1] \in Blocks /\ Height[last] \in Nat
  BY <1>1, PieceIs, TreeIs DEF PieceOf
<1>3. Height[chunk[1]] \in 0..Height[last] /\ chunk[1] = At(last, Height[chunk[1]])
      /\ Height[last] = s.next + Len(chunk) - 1
  <2>1. Height[last] = s.next + Len(chunk) - 1
    BY <1>0, <1>2 DEF EndOf, LenOf
  <2>2. Height[chunk[1]] \in 0..Height[last]
    BY <1>0, <1>2, <2>1
  <2>3. 1 \in 1..Len(chunk) /\ Height[chunk[1]] + 1 - 1 = Height[chunk[1]]
    BY <1>0, <1>2
  <2> QED BY <1>2, <2>1, <2>2, <2>3 DEF PieceOf
<1>4. PICK q, next, done, weight :
         /\ q = Append(s.queue, chunk) /\ next = s.next + Len(chunk)
         /\ done = (s.done \/ ~(full /\ next < s.claimed.height))
         /\ weight = IF s.last # NoBlock THEN s.weight
                     ELSE IF s.start = 0 THEN 0 ELSE Weight[At(ourTip, s.start - 1)]
  OBVIOUS
<1>5. PICK r : r = [s EXCEPT !.next = next, !.last = last, !.queue = q, !.done = done, !.weight = weight]
  OBVIOUS
<1>6. QueuedUp(s, chunk, full) = r
  BY <1>1, <1>4, <1>5 DEF QueuedUp
<1>7. /\ DOMAIN r = SessionFields /\ r.next = next /\ r.last = last /\ r.queue = q /\ r.done = done
      /\ r.weight = weight
  BY ONLY <1>0, <1>5 DEF SessionFields
<1>8. /\ r.peer = s.peer /\ r.claimed = s.claimed /\ r.step = s.step /\ r.start = s.start
      /\ r.to = s.to /\ r.applied = s.applied /\ r.fork = s.fork /\ r.blocks = s.blocks
      /\ r.inFlight = s.inFlight /\ r.deferred = s.deferred /\ r.overlap = s.overlap
      /\ r.verifying = s.verifying
  BY ONLY <1>0, <1>5 DEF SessionFields
<1>9. next \in Nat /\ next >= 1 /\ done \in BOOLEAN /\ last # NoBlock
  <2>1. next \in Nat /\ next >= 1
    BY <1>0, <1>2, <1>4
  <2>2. done \in BOOLEAN
    BY <1>0, <1>4 DEF TypedSession
  <2> QED BY <2>1, <2>2, HeaderSyncAssumption
<1>10. ASSUME q \in Seq(Seq(Blocks)) PROVE TypedSession(r)
  BY <1>0, <1>7, <1>8, <1>9, <1>10 DEF TypedSession
<1>11. CASE s.last # NoBlock
  <2>1. s.last \in Blocks /\ s.next >= 1 /\ Consecutive(s)
    BY <1>0, <1>11 DEF SessionHolds, TypedSession
  <2>2. Parent[chunk[1]] = s.last
    BY <1>11 DEF Follows
  <2>3. Height[chunk[1]] > 0 /\ Height[chunk[1]] - 1 = Height[s.last] /\ Height[s.last] \in Nat
    <3>1. PICK c \in Blocks : c = chunk[1] /\ Height[c] = s.next /\ Parent[c] = s.last
      BY <1>2, <2>2
    <3>2. c # Genesis
      BY <2>1, <3>1, TreeIs
    <3>3. Parent[c] \in Blocks /\ Height[c] = Height[Parent[c]] + 1 /\ Height[Parent[c]] \in Nat
      BY <3>2, TreeIs
    <3> QED BY <3>1, <3>3
  <2>4. At(last, Height[s.last]) = s.last /\ Height[s.last] <= Height[last]
    <3>1. Parent[At(last, Height[chunk[1]])] = At(last, Height[chunk[1]] - 1)
      BY <1>3, <2>3, Ancestor
    <3> QED BY <1>3, <2>2, <2>3, <3>1
  <2>5. Height[chunk[1]] = LenOf(s.last)
    BY <1>0, <2>3 DEF LenOf
  <2>6. Consecutive(r) /\ q \in Seq(Seq(Blocks))
    <3>1. r.verifying = s.verifying /\ r.queue = Append(s.queue, chunk) /\ r.last = last /\ r.to = s.to
      BY <1>4, <1>7, <1>8
    <3>2. Consecutive(r) /\ r.queue \in Seq(Seq(Blocks))
      BY ONLY last \in Blocks, <1>0, <1>2, <2>1, <2>4, <2>5, <3>1, AppendedConsecutive
    <3> QED BY <1>7, <3>2
  <2>7. s.to <= LenOf(s.last)
    BY <1>0, <2>1, Fetched
  <2>8. \A n \in Nat : Shares(ourTip, s.last, n) => Shares(ourTip, last, n)
    BY <2>1, <2>4, SharesHigher
  <2>9. OnOurs(s, headers, ourTip, u) => OnOurs(r, headers, ourTip, u)
    BY <1>0, <1>7, <1>8, <2>8 DEF OnOurs
  <2>10. ASSUME s.fork >= 0, LeavesOurs(s, headers, ourTip, u) PROVE LeavesOurs(r, headers, ourTip, u)
    <3>1. Base(r) = Base(s) /\ Base(s) \in Nat
      BY <1>0, <1>8, <2>10 DEF Base, TypedSession
    <3>2. TopOf(r) = TopOf(s)
      <4>1. s.to - 1 \in 0..Height[s.last] /\ Height[s.last] \in 0..Height[last]
        <5>1. s.to >= 1 /\ s.to <= Height[s.last] + 1
          BY <2>7, <2>10 DEF LeavesOurs, LenOf
        <5> QED BY <1>0, <1>2, <2>3, <2>4, <5>1
      <4>2. At(At(last, Height[s.last]), s.to - 1) = At(last, s.to - 1)
        BY <4>1, Ancestor
      <4> QED BY <1>7, <1>8, <2>4, <4>2 DEF TopOf
    <3>3. r.weight = s.weight
      BY <1>4, <1>7, <1>11
    <3>4. Shares(ourTip, s.last, Base(s)) => Shares(ourTip, last, Base(s))
      BY <2>8, <3>1
    <3> QED BY <1>7, <1>8, <2>10, <3>1, <3>2, <3>3, <3>4 DEF LeavesOurs
  <2>11. s.fork \in Nat \cup {-1}
    BY <1>0 DEF TypedSession
  <2>12. r.fork < 0 => OnOurs(r, headers, ourTip, u)
    BY <1>8, <1>11, <2>9 DEF SessionHolds
  <2>13. r.fork >= 0 => LeavesOurs(r, headers, ourTip, u)
    BY <1>8, <1>11, <2>10 DEF SessionHolds
  <2>14. SessionHolds(r, headers, ourTip, u)
    BY <1>7, <1>9, <1>10, <2>6, <2>12, <2>13 DEF SessionHolds
  <2> QED BY <1>6, <1>8, <2>14
<1>12. CASE s.last = NoBlock
  <2>1. /\ s.queue = <<>> /\ s.verifying = <<>> /\ s.fork = -1 /\ ~s.blocks /\ headers = {}
        /\ s.next = s.start /\ s.to = s.start /\ (u => s.start <= LenOf(ourTip))
    BY <1>12 DEF SessionHolds, Begun
  <2>2. q = <<chunk>> /\ q \in Seq(Seq(Blocks)) /\ Len(q) = 1 /\ q[1] = chunk /\ q # <<>>
    BY <1>2, <1>4, <2>1
  <2>3. Consecutive(r)
    <3>1. Len(<<>>) = 0 /\ 2..1 = {} /\ s.to + 0 = s.to
      BY <1>0
    <3>2. \A i \in 1..Len(r.queue) : PieceOf(r.queue[i], r.last)
      BY <1>2, <1>7, <2>2
    <3>3. Height[r.queue[1][1]] = r.to + Len(r.verifying)
      BY <1>7, <1>8, <2>1, <2>2, <3>1
    <3>4. \A i \in 2..Len(r.queue) : Height[r.queue[i][1]] = EndOf(r.queue[i - 1])
      BY <1>7, <2>2, <3>1
    <3>5. LenOf(r.last) = EndOf(r.queue[Len(r.queue)])
      BY <1>2, <1>7, <2>2
    <3> QED BY <1>7, <1>8, <2>1, <2>2, <3>2, <3>3, <3>4, <3>5 DEF Consecutive
  <2>4. ASSUME u PROVE Shares(ourTip, last, s.to)
    <3>1. CASE s.start = 0
      BY <1>2, <2>1, <3>1, TreeIs DEF Shares, LenOf
    <3>2. CASE s.start # 0
      <4>1. Parent[chunk[1]] = At(ourTip, s.start - 1) /\ s.start <= LenOf(ourTip)
        BY <1>12, <3>2 DEF Follows
      <4>2. s.start - 1 \in 0..Height[ourTip] /\ s.start \in 0..Height[last] /\ s.start > 0
            /\ s.start - 1 \in 0..Height[last] /\ s.start = Height[chunk[1]]
        BY <1>0, <1>2, <1>3, <2>1, <3>2, <4>1, TreeIs DEF LenOf
      <4>3. At(last, s.start - 1) = At(ourTip, s.start - 1)
        <5>1. Parent[At(last, s.start)] = At(last, s.start - 1)
          BY <4>2, Ancestor
        <5> QED BY <1>3, <4>1, <4>2, <5>1
      <4>4. ASSUME NEW k \in 0..(s.start - 1) PROVE At(ourTip, k) = At(last, k)
        <5>1. At(At(last, s.start - 1), k) = At(last, k)
          BY <4>2, Ancestor
        <5>2. At(At(ourTip, s.start - 1), k) = At(ourTip, k)
          BY <4>2, Ancestor, TreeIs
        <5> QED BY <4>3, <5>1, <5>2
      <4>5. s.start <= LenOf(last) /\ s.to = s.start
        BY <1>0, <1>2, <2>1, <4>2 DEF LenOf
      <4> QED BY <4>1, <4>4, <4>5 DEF Shares
    <3> QED BY <3>1, <3>2
  <2>5. OnOurs(r, headers, ourTip, u)
    BY <1>7, <1>8, <2>1, <2>4 DEF OnOurs
  <2>6. r.fork < 0 /\ ~(r.fork >= 0)
    BY <1>8, <2>1
  <2>7. SessionHolds(r, headers, ourTip, u)
    BY <1>7, <1>9, <1>10, <2>2, <2>3, <2>5, <2>6 DEF SessionHolds
  <2> QED BY <1>6, <1>8, <2>7
<1> QED BY <1>11, <1>12

LEMMA EndKept ==
    ASSUME NEW own \in Blocks, NEW blame, NEW headers, OneRun(headers), Claimed(tips),
           EndSession(own, blame, headers)
    PROVE  Kept(own)
BY EndSessionKeeps, Anew

LEMMA ContinueKept ==
    ASSUME ourTip \in Blocks, OneRun(stored), Claimed(tips), excused \subseteq excused',
           NEW s, NEW u \in BOOLEAN, SessionHolds(s, stored, ourTip, u),
           s.peer \notin excused => u, Continue(s)
    PROVE  Kept(ourTip)
<1>1. PICK r : r = Backing(s) /\ TypedSession(r) /\ Alike(r, s)
  BY BackingIs DEF SessionHolds
<1>2. SessionHolds(r, stored, ourTip, u)
  BY <1>1, AlikeHolds
<1>3. PICK t : t = VerifyNext(Requested(r))
  OBVIOUS
<1>4. SessionHolds(t, stored, ourTip, u) /\ Fetching(t) /\ t.peer = r.peer
  BY <1>2, <1>3, RequestNext
<1>5. Finish(ourTip, t, stored)
  BY <1>1, <1>3 DEF Continue
<1>6. t.peer \notin excused => u
  BY <1>1, <1>4 DEF Alike
<1> QED BY <1>4, <1>5, <1>6, Ends

LEMMA RestartKept ==
    ASSUME ourTip \in Blocks, Claimed(tips), TypedSession(session), NEW step \in Nat,
           RestartFrom(step)
    PROVE  Kept(ourTip)
<1>1. session.peer \in Servers /\ IsClaim(session.claimed)
  BY DEF TypedSession
<1>2. Start(ourTip, session.peer, session.claimed, step, FALSE, {}) /\ tips' = tips
  BY DEF RestartFrom
<1>3. OneRun(stored') /\ Keeps(session', stored', ourTip, TRUE)
  BY <1>1, <1>2, NoRun, StartKeeps
<1> QED BY <1>2, <1>3, Anew

LEMMA ExamineKept ==
    ASSUME ourTip \in Blocks, OneRun(stored), Claimed(tips), excused \subseteq excused',
           TypedSession(session), NEW s, NEW u \in BOOLEAN,
           SessionHolds(s, stored, ourTip, u), s.peer \notin excused => u,
           NEW b \in Blocks, NEW chunk, chunk # <<>> => PieceOf(chunk, b),
           NEW full \in BOOLEAN, Examine(s, chunk, full)
    PROVE  Kept(ourTip)
<1>1. CASE chunk = <<>> /\ s.last # NoBlock /\ Continue([s EXCEPT !.done = @ \/ ~full])
  <2>1. TypedSession(s) /\ DOMAIN s = SessionFields
    BY DEF SessionHolds, TypedSession
  <2>2. PICK done \in BOOLEAN : done = (s.done \/ ~full)
    BY <2>1 DEF TypedSession
  <2>3. PICK r : r = [s EXCEPT !.done = done]
    OBVIOUS
  <2>4. Continue(r)
    BY <1>1, <2>2, <2>3
  <2>5. Alike(r, s)
    BY ONLY <2>1, <2>3 DEF SessionFields, Alike
  <2>6. TypedSession(r)
    BY <2>1, <2>2, <2>3 DEF SessionFields, TypedSession
  <2>7. SessionHolds(r, stored, ourTip, u) /\ (r.peer \notin excused => u)
    BY <2>5, <2>6, AlikeHolds DEF Alike
  <2> QED BY <2>4, <2>7, ContinueKept
<1>2. CASE \E blame : EndSession(ourTip, blame, stored)
  BY <1>2, EndKept
<1>3. CASE chunk # <<>> /\ Height[chunk[1]] = s.next /\ Follows(s, chunk) /\ Continue(QueuedUp(s, chunk, full))
  <2>1. PICK r : r = QueuedUp(s, chunk, full)
    OBVIOUS
  <2>2. SessionHolds(r, stored, ourTip, u) /\ r.peer = s.peer
    BY <1>3, <2>1, QueuedUpHolds
  <2>3. Continue(r) /\ (r.peer \notin excused => u)
    BY <1>3, <2>1, <2>2
  <2> QED BY <2>2, <2>3, ContinueKept
<1>4. CASE RestartFrom(s.step * 8)
  <2>1. s.step * 8 \in Nat
    BY DEF SessionHolds, TypedSession
  <2> QED BY <1>4, <2>1, RestartKept
<1> QED BY <1>1, <1>2, <1>3, <1>4 DEF Examine

LEMMA AnswerKept ==
    ASSUME HeaderInv, Headers
    PROVE  HeaderInv'
<1>1. PICK p : p = session.peer
  OBVIOUS
<1>2. PICK u \in BOOLEAN : u = (session.peer \notin excused)
  OBVIOUS
<1>3. /\ ourTip \in Blocks /\ peerTip \in [Servers -> Blocks] /\ Claimed(tips) /\ OneRun(stored)
      /\ SessionHolds(session, stored, ourTip, u) /\ Fetching(session)
  BY <1>2 DEF HeaderInv, Keeps, Headers, InSession
<1>4. TypedSession(session) /\ DOMAIN session = SessionFields /\ p \in Servers
      /\ session.next \in Nat
  BY <1>1, <1>3 DEF SessionHolds, TypedSession
<1>5. PICK chunk \in Answers(p, session.next) :
         LET s == [session EXCEPT !.inFlight = FALSE, !.overlap = FALSE]
             full == Len(chunk) = PerRequest
         IN  \/ ~session.overlap /\ Examine(s, chunk, full)
             \/ /\ session.overlap /\ Still(chunk)
                /\ Examine([s EXCEPT !.next = @ + 1], Tail(chunk), full)
             \/ /\ session.overlap /\ ~Still(chunk)
                /\ RestartFrom(InitialStep)
  BY <1>1 DEF Headers
<1>6. PICK full \in BOOLEAN : full = (Len(chunk) = PerRequest)
  OBVIOUS
<1>7. PICK s : s = [session EXCEPT !.inFlight = FALSE, !.overlap = FALSE]
  OBVIOUS
<1>8. /\ DOMAIN s = SessionFields /\ s.inFlight = FALSE /\ s.overlap = FALSE
      /\ s.peer = session.peer /\ s.next = session.next /\ s.last = session.last
  BY ONLY <1>4, <1>7 DEF SessionFields
<1>9. TypedSession(s)
  BY <1>4, <1>7, <1>8 DEF SessionFields, TypedSession
<1>10. Alike(s, session)
  <2>1. /\ s.queue = session.queue /\ s.verifying = session.verifying
        /\ s.fork = session.fork /\ s.blocks = session.blocks /\ s.applied = session.applied
        /\ s.start = session.start /\ s.to = session.to /\ s.weight = session.weight
    BY ONLY <1>4, <1>7 DEF SessionFields
  <2> QED BY <1>8, <2>1 DEF Alike
<1>11. SessionHolds(s, stored, ourTip, u)
  BY <1>3, <1>9, <1>10, AlikeHolds
<1>12. excused \subseteq excused' /\ ourTip' = ourTip /\ peerTip' = peerTip
  BY DEF Headers, Excuse
<1>13. \E b \in Blocks : chunk # <<>> => PieceOf(chunk, b)
  BY <1>3, <1>4, AnswersAre, TreeIs
<1>14. PICK b \in Blocks : chunk # <<>> => PieceOf(chunk, b)
  BY <1>13
<1>15. Kept(ourTip)
  <2>1. CASE ~session.overlap /\ Examine(s, chunk, full)
    BY <1>2, <1>3, <1>4, <1>8, <1>11, <1>12, <1>14, <2>1, ExamineKept
  <2>2. CASE session.overlap /\ Still(chunk) /\ Examine([s EXCEPT !.next = @ + 1], Tail(chunk), full)
    <3>1. PICK next \in Nat : next = s.next + 1
      BY <1>4, <1>8
    <3>2. PICK r : r = [s EXCEPT !.next = next]
      OBVIOUS
    <3>3. Examine(r, Tail(chunk), full)
      BY <2>2, <3>1, <3>2
    <3>4. session.last # NoBlock
      BY <1>3, <2>2 DEF SessionHolds, Begun
    <3>5. /\ DOMAIN r = SessionFields /\ r.next = next /\ r.peer = s.peer /\ r.last = s.last
          /\ r.queue = s.queue /\ r.verifying = s.verifying /\ r.to = s.to
          /\ r.fork = s.fork /\ r.blocks = s.blocks /\ r.applied = s.applied /\ r.weight = s.weight
      BY ONLY <1>8, <3>2 DEF SessionFields
    <3>6. TypedSession(r)
      BY <1>8, <1>9, <3>1, <3>2 DEF SessionFields, TypedSession
    <3>7. TopOf(r) = TopOf(s) /\ Base(r) = Base(s)
      BY <3>5 DEF TopOf, Base
    <3>8. Consecutive(s) => Consecutive(r)
      BY <3>5 DEF Consecutive
    <3>9. OnOurs(s, stored, ourTip, u) => OnOurs(r, stored, ourTip, u)
      BY <3>5 DEF OnOurs
    <3>10. LeavesOurs(s, stored, ourTip, u) => LeavesOurs(r, stored, ourTip, u)
      BY <3>5, <3>7 DEF LeavesOurs
    <3>11. r.last # NoBlock /\ r.next >= 1
      BY <1>4, <1>8, <3>1, <3>4, <3>5
    <3>12. SessionHolds(r, stored, ourTip, u)
      BY <1>11, <3>5, <3>6, <3>8, <3>9, <3>10, <3>11 DEF SessionHolds
    <3>13. Tail(chunk) # <<>> => PieceOf(Tail(chunk), b)
      <4>1. chunk # <<>>
        BY <2>2 DEF Still
      <4> QED BY <1>14, <4>1, TailPiece
    <3>14. r.peer \notin excused => u
      BY <1>2, <1>8, <3>5
    <3>15. PICK rest : rest = Tail(chunk)
      OBVIOUS
    <3>16. (rest # <<>> => PieceOf(rest, b)) /\ Examine(r, rest, full)
      BY <3>3, <3>13, <3>15
    <3> QED BY <1>3, <1>4, <1>12, <1>14, <3>12, <3>14, <3>16, ExamineKept
  <2>3. CASE RestartFrom(InitialStep)
    BY <1>3, <1>4, <2>3, RestartKept, HeaderSyncAssumption
  <2> QED BY <1>5, <1>6, <1>7, <2>1, <2>2, <2>3
<1> QED BY <1>3, <1>12, <1>15 DEF Kept, HeaderInv

------------------------------------------------------------------------------
(* A chunk was verified. *)
Chunked(chunk) == {chunk[i] : i \in 1..Len(chunk)}

\* A piece's blocks from a height on are those of its last block's chain.
LEMMA ChunkedIs ==
    ASSUME NEW top \in Blocks, NEW chunk, PieceOf(chunk, top), LenOf(top) = EndOf(chunk), NEW f \in Nat
    PROVE  /\ {b \in Chunked(chunk) : Height[b] >= f} = From(top, Most(Height[chunk[1]], f))
           /\ \A b \in Blocks : b \in Chunked(chunk) <=>
                 Height[chunk[1]] <= Height[b] /\ Height[b] <= Height[top] /\ b = At(top, Height[b])
           /\ Chunked(chunk) \subseteq Blocks
<1>1. PICK n \in Nat, len \in Nat \ {0} : n = Height[chunk[1]] /\ len = Len(chunk)
  BY PieceIs
<1>2. Height[top] = n + len - 1 /\ Height[top] \in Nat
  <2>1. Height[top] \in Nat
    BY TreeIs
  <2>2. Height[top] + 1 = n + len
    BY <1>1 DEF EndOf, LenOf
  <2> QED BY <1>1, <2>1, <2>2
<1>3. ASSUME NEW i \in 1..len
      PROVE  chunk[i] \in Blocks /\ Height[chunk[i]] = n + i - 1 /\ chunk[i] = At(top, n + i - 1)
  BY <1>1, PieceIs DEF PieceOf
<1>4. ASSUME NEW b \in Chunked(chunk)
      PROVE  b \in Blocks /\ n <= Height[b] /\ Height[b] <= Height[top] /\ b = At(top, Height[b])
  <2>1. PICK i \in 1..len : b = chunk[i]
    BY <1>1 DEF Chunked
  <2> QED BY <1>1, <1>2, <1>3, <2>1
<1>5. ASSUME NEW b \in Blocks, n <= Height[b], Height[b] <= Height[top], b = At(top, Height[b])
      PROVE  b \in Chunked(chunk)
  <2>1. Height[b] - n + 1 \in 1..len /\ n + (Height[b] - n + 1) - 1 = Height[b]
    <3>1. Height[b] \in Nat
      BY <1>5, TreeIs
    <3> QED BY ONLY <1>1, <1>2, <1>5, <3>1
  <2>2. chunk[Height[b] - n + 1] = At(top, Height[b])
    BY <1>3, <2>1
  <2> QED BY <1>1, <1>5, <2>1, <2>2 DEF Chunked
<1>6. Most(n, f) \in Nat /\ \A k \in Nat : Most(n, f) <= k <=> n <= k /\ f <= k
  BY <1>1 DEF Most
<1>7. ASSUME NEW b \in Blocks
      PROVE  b \in {c \in Chunked(chunk) : Height[c] >= f} <=> b \in From(top, Most(n, f))
  <2>1. Height[b] \in Nat
    BY TreeIs
  <2>2. b \in From(top, Most(n, f)) <=>
           Most(n, f) <= Height[b] /\ Height[b] <= Height[top] /\ b = At(top, Height[b])
    BY <1>6, FromIs
  <2>3. b \in Chunked(chunk) <=> n <= Height[b] /\ Height[b] <= Height[top] /\ b = At(top, Height[b])
    BY <1>4, <1>5
  <2> QED BY <1>6, <2>1, <2>2, <2>3
<1>8. From(top, Most(n, f)) \subseteq Blocks
  BY <1>6, FromIs
<1>9. {b \in Chunked(chunk) : Height[b] >= f} = From(top, Most(n, f))
  BY <1>4, <1>7, <1>8
<1> QED BY <1>1, <1>4, <1>5, <1>9

\* With the headers on disk that end below the chunk, its headers go on.
LEMMA SavedIs ==
    ASSUME NEW top \in Blocks, NEW chunk, PieceOf(chunk, top), LenOf(top) = EndOf(chunk),
           NEW low \in Blocks, LenOf(low) = Height[chunk[1]], At(top, Height[low]) = low,
           NEW h \in Nat, stored = From(low, h)
    PROVE  SavedFrom(chunk, 0) = From(top, Least(h, LenOf(low))) /\ Least(h, LenOf(low)) \in Nat
<1>1. PICK n \in Nat : n = LenOf(low) /\ n = Height[low] + 1 /\ n = Height[chunk[1]]
  BY TreeIs DEF LenOf
<1>2. PICK len \in Nat \ {0} : len = Len(chunk)
  BY PieceIs
<1>3. Height[top] \in Nat /\ Height[top] = n + len - 1 /\ Height[low] \in 0..Height[top] /\ Height[low] \in Nat
  <2>1. Height[top] \in Nat /\ Height[low] \in Nat
    BY TreeIs
  <2>2. Height[top] + 1 = n + len
    BY <1>1, <1>2 DEF EndOf, LenOf
  <2> QED BY <1>1, <1>2, <2>1, <2>2
<1>4. PICK new : new = {b \in Chunked(chunk) : Height[b] >= 0}
  OBVIOUS
<1>5. SavedFrom(chunk, 0) = {b \in stored : \A c \in new : Height[b] # Height[c]} \cup new
  BY <1>4 DEF SavedFrom, Chunked
<1>6. new \subseteq Blocks /\ stored \subseteq Blocks
  BY <1>4, ChunkedIs, FromIs
<1>7. ASSUME NEW b \in Blocks
      PROVE  b \in new <=> n <= Height[b] /\ Height[b] <= Height[top] /\ b = At(top, Height[b])
  <2>1. b \in Chunked(chunk) <=> n <= Height[b] /\ Height[b] <= Height[top] /\ b = At(top, Height[b])
    <3>1. 0 \in Nat
      OBVIOUS
    <3>2. \A c \in Blocks : c \in Chunked(chunk) <=>
             Height[chunk[1]] <= Height[c] /\ Height[c] <= Height[top] /\ c = At(top, Height[c])
      BY ONLY <3>1, top \in Blocks, PieceOf(chunk, top), LenOf(top) = EndOf(chunk), ChunkedIs
    <3> QED BY <1>1, <3>2
  <2>2. Height[b] >= 0
    BY TreeIs
  <2> QED BY <1>4, <2>1, <2>2
<1>8. ASSUME NEW b \in Blocks
      PROVE  b \in stored <=> h <= Height[b] /\ Height[b] < n /\ b = At(top, Height[b])
  <2>1. b \in stored <=> h <= Height[b] /\ Height[b] <= Height[low] /\ b = At(low, Height[b])
    BY FromIs
  <2>2. Height[b] <= Height[low] <=> Height[b] < n
    BY <1>1, <1>3, TreeIs
  <2>3. Height[b] <= Height[low] => At(low, Height[b]) = At(top, Height[b])
    <3>1. Height[b] <= Height[low] => Height[b] \in 0..Height[low]
      BY <1>3, TreeIs
    <3> QED BY <1>3, <3>1, Ancestor
  <2> QED BY <2>1, <2>2, <2>3
<1>9. ASSUME NEW b \in stored, NEW c \in new PROVE Height[b] # Height[c]
  <2>1. Height[b] < n /\ n <= Height[c]
    BY <1>6, <1>7, <1>8
  <2> QED BY <1>1, <1>6, <2>1, TreeIs
<1>10. SavedFrom(chunk, 0) = stored \cup new
  BY <1>5, <1>9
<1>11. Least(h, n) \in Nat /\ \A k \in Nat : Least(h, n) <= k <=> h <= k \/ n <= k
  BY <1>1 DEF Least
<1>12. ASSUME NEW b \in Blocks
       PROVE  b \in stored \cup new <=> b \in From(top, Least(h, n))
  <2>1. b \in From(top, Least(h, n)) <=>
           Least(h, n) <= Height[b] /\ Height[b] <= Height[top] /\ b = At(top, Height[b])
    BY <1>11, FromIs
  <2>2. Height[b] \in Nat
    BY TreeIs
  <2>3. Height[b] < n => Height[b] <= Height[top]
    BY <1>1, <1>2, <1>3, <2>2
  <2>4. n <= Height[b] \/ Height[b] < n
    BY <1>1, <2>2
  <2> QED BY <1>7, <1>8, <1>11, <2>1, <2>2, <2>3, <2>4
<1>13. From(top, Least(h, n)) \subseteq Blocks
  BY <1>11, FromIs
<1>14. stored \cup new = From(top, Least(h, n))
  BY <1>6, <1>12, <1>13
<1> QED BY <1>1, <1>10, <1>11, <1>14

LEMMA SavedUnforged ==
    ASSUME NEW chunk, NEW f, stored \cap Forged = {}, \A i \in 1..Len(chunk) : chunk[i] \notin Forged
    PROVE  SavedFrom(chunk, f) \cap Forged = {}
BY DEF SavedFrom

LEMMA AfterVerifiedKept ==
    ASSUME ourTip \in Blocks, NEW headers, OneRun(headers), Claimed(tips), excused \subseteq excused',
           NEW s, NEW u \in BOOLEAN, SessionHolds(s, headers, ourTip, u),
           s.peer \notin excused => u, AfterVerified(s, headers)
    PROVE  Kept(ourTip)
<1>1. PICK r : r = MaybeBlocks(ourTip, s)
  OBVIOUS
<1>2. SessionHolds(r, headers, ourTip, u) /\ r.peer = s.peer
  BY <1>1, MaybeBlocksHolds
<1>3. PICK t : t = VerifyNext(Requested(r))
  OBVIOUS
<1>4. SessionHolds(t, headers, ourTip, u) /\ Fetching(t) /\ t.peer = r.peer
  BY <1>2, <1>3, RequestNext
<1>5. Finish(ourTip, t, headers) /\ (t.peer \notin excused => u)
  BY <1>1, <1>2, <1>3, <1>4 DEF AfterVerified
<1> QED BY <1>4, <1>5, Ends

\* The session with its chunk verified, whose last block is top.
AsVerified(s, top) ==
    /\ s = Verified(session, session.verifying) /\ TypedSession(s) /\ Consecutive(s)
    /\ s.fork = session.fork /\ s.blocks = session.blocks /\ s.applied = session.applied
    /\ s.last = session.last /\ s.next = session.next /\ s.peer = session.peer
    /\ s.to = LenOf(top) /\ s.weight = Weight[top] /\ TopOf(s) = top
    /\ s.to = session.to + Len(session.verifying)
    /\ PieceOf(session.verifying, top) /\ LenOf(top) = EndOf(session.verifying)
    /\ Height[session.verifying[1]] = session.to
    /\ Height[top] \in 0..Height[session.last] /\ At(session.last, Height[top]) = top

LEMMA VerifiedIs ==
    ASSUME TypedSession(session), Consecutive(session), session.last \in Blocks,
           session.verifying # <<>>
    PROVE  \E s : \E top \in Blocks : AsVerified(s, top)
<1>0. DOMAIN session = SessionFields /\ session.to \in Nat
  BY DEF TypedSession
<1>1. PICK chunk : chunk = session.verifying
  OBVIOUS
<1>2. PieceOf(chunk, session.last) /\ Height[chunk[1]] = session.to
  BY <1>1 DEF Consecutive
<1>3. PICK top \in Blocks : top = chunk[Len(chunk)]
  BY <1>2, PieceIs
<1>4. /\ PieceOf(chunk, top) /\ LenOf(top) = EndOf(chunk) /\ Height[top] \in 0..Height[session.last]
      /\ At(session.last, Height[top]) = top
  BY <1>2, <1>3, PieceIs
<1>5. PICK to \in Nat : to = LenOf(top) /\ to = session.to + Len(chunk)
  BY <1>2, <1>4, TreeIs DEF EndOf, LenOf
<1>6. PICK weight : weight = Weight[top]
  OBVIOUS
<1>7. PICK v : v = [session EXCEPT !.verifying = <<>>, !.to = to, !.weight = weight]
  OBVIOUS
<1>8. PICK s : s = Backing(v)
  OBVIOUS
<1>9. s = Verified(session, chunk)
  BY <1>3, <1>5, <1>6, <1>7, <1>8 DEF Verified
<1>10. DOMAIN v = SessionFields /\ v.verifying = <<>> /\ v.to = to /\ v.weight = weight
  BY ONLY <1>0, <1>7 DEF SessionFields
<1>11. /\ v.fork = session.fork /\ v.blocks = session.blocks /\ v.applied = session.applied
       /\ v.last = session.last /\ v.next = session.next /\ v.peer = session.peer
       /\ v.queue = session.queue
  BY ONLY <1>0, <1>7 DEF SessionFields
<1>12. TypedSession(v)
  <2>1. /\ v.claimed = session.claimed /\ v.step = session.step /\ v.start = session.start
        /\ v.done = session.done /\ v.inFlight = session.inFlight
        /\ v.deferred = session.deferred /\ v.overlap = session.overlap
    BY ONLY <1>0, <1>7 DEF SessionFields
  <2>2. <<>> \in Seq(Blocks)
    OBVIOUS
  <2> QED BY <1>10, <1>11, <2>1, <2>2 DEF TypedSession
<1>13. TypedSession(s) /\ Alike(s, v)
  BY <1>8, <1>12, BackingIs
<1>14. Consecutive(s)
  <2>1. s.verifying = <<>> /\ s.queue = session.queue /\ s.last = session.last /\ s.to = to
    BY <1>10, <1>11, <1>13 DEF Alike
  <2>2. Len(<<>>) = 0 /\ s.to + Len(s.verifying) = session.to + Len(session.verifying)
    BY <1>1, <1>5, <2>1
  <2> QED BY <2>1, <2>2 DEF Consecutive
<1>15. TopOf(s) = top
  <2>1. to - 1 = Height[top]
    BY <1>5, TreeIs DEF LenOf
  <2> QED BY <1>4, <1>10, <1>11, <1>13, <2>1 DEF TopOf, Alike
<1>16. /\ s.fork = session.fork /\ s.blocks = session.blocks /\ s.applied = session.applied
       /\ s.last = session.last /\ s.next = session.next /\ s.peer = session.peer
       /\ s.to = to /\ s.weight = weight
  BY <1>10, <1>11, <1>13 DEF Alike
<1> QED BY <1>1, <1>2, <1>4, <1>5, <1>6, <1>9, <1>13, <1>14, <1>15, <1>16 DEF AsVerified

\* Below where they depart, a chunk's blocks are those of our chain.
LEMMA DeparturesAre ==
    ASSUME ourTip \in Blocks, NEW top \in Blocks, NEW chunk, PieceOf(chunk, top),
           LenOf(top) = EndOf(chunk)
    PROVE  /\ \A h \in Departures(chunk) : h \in Nat /\ Height[chunk[1]] <= h /\ h <= Height[top]
           /\ \A k \in Height[chunk[1]]..Height[top] :
                 k \notin Departures(chunk) => k < LenOf(ourTip) /\ At(ourTip, k) = At(top, k)
<1>1. PICK n \in Nat : n = Height[chunk[1]]
  BY PieceIs
<1>2. PICK H : H = {Height[b] : b \in Chunked(chunk)}
  OBVIOUS
<1>3. Departures(chunk) = {h \in H : h >= LenOf(ourTip) \/ At(ourTip, h) # chunk[h - n + 1]}
  BY <1>1, <1>2 DEF Departures, Chunked
<1>4. 0 \in Nat
  OBVIOUS
<1>5. /\ Chunked(chunk) \subseteq Blocks
      /\ \A b \in Blocks : b \in Chunked(chunk) <=>
            Height[chunk[1]] <= Height[b] /\ Height[b] <= Height[top] /\ b = At(top, Height[b])
  BY ONLY <1>4, top \in Blocks, PieceOf(chunk, top), LenOf(top) = EndOf(chunk), ChunkedIs
<1>6. ASSUME NEW h \in H PROVE h \in Nat /\ n <= h /\ h <= Height[top]
  <2>1. PICK b \in Blocks : b \in Chunked(chunk) /\ h = Height[b]
    BY <1>2, <1>5
  <2> QED BY <1>1, <1>5, <2>1, TreeIs
<1>7. ASSUME NEW k \in n..Height[top], k \notin Departures(chunk)
      PROVE  k < LenOf(ourTip) /\ At(ourTip, k) = At(top, k)
  <2>1. k \in 0..Height[top]
    BY <1>1, TreeIs
  <2>2. PICK b \in Blocks : b = At(top, k) /\ Height[b] = k
    BY <2>1, Ancestor
  <2>3. k \in H
    BY <1>1, <1>2, <1>5, <2>1, <2>2
  <2>4. ~(k >= LenOf(ourTip)) /\ At(ourTip, k) = chunk[k - n + 1]
    BY <1>3, <1>7, <2>3
  <2>5. k < LenOf(ourTip)
    BY <2>1, <2>4, TreeIs DEF LenOf
  <2>6. chunk[k - n + 1] = At(top, k)
    <3>1. PICK len \in Nat \ {0} : len = Len(chunk)
      BY PieceIs
    <3>2. Height[top] + 1 = n + len /\ Height[top] \in Nat
      BY <1>1, <3>1, TreeIs DEF EndOf, LenOf
    <3>3. k - n + 1 \in 1..Len(chunk) /\ n + (k - n + 1) - 1 = k
      BY <1>1, <3>1, <3>2
    <3> QED BY <1>1, <3>3 DEF PieceOf
  <2> QED BY <2>4, <2>5, <2>6
<1> QED BY <1>1, <1>3, <1>6, <1>7

\* Headers that leave our chain go on from those on disk, and outweigh it still.
LEMMA VerifiedAway ==
    ASSUME ourTip \in Blocks, OneRun(stored), NEW u \in BOOLEAN,
           SessionHolds(session, stored, ourTip, u), session.last \in Blocks,
           session.verifying # <<>>, session.fork >= 0,
           \A i \in 1..Len(session.verifying) : session.verifying[i] \notin Forged,
           NEW s, NEW top \in Blocks, AsVerified(s, top)
    PROVE  /\ SessionHolds(s, SavedFrom(session.verifying, 0), ourTip, u)
           /\ OneRun(SavedFrom(session.verifying, 0))
<1>1. PICK chunk : chunk = session.verifying
  OBVIOUS
<1>2. LeavesOurs(session, stored, ourTip, u) /\ session.last # NoBlock /\ session.next >= 1
      /\ Consecutive(session) /\ TypedSession(session)
  BY HeaderSyncAssumption DEF SessionHolds
<1>3. PICK n \in Nat \ {0} : n = session.to
  BY <1>2 DEF LeavesOurs, TypedSession
<1>4. n <= LenOf(session.last) /\ Height[session.last] \in Nat
  BY <1>2, <1>3, Fetched, TreeIs
<1>5. PICK low \in Blocks : /\ low = TopOf(session) /\ Height[low] = n - 1 /\ LenOf(low) = n
                            /\ At(session.last, n - 1) = low
  <2>1. n - 1 \in 0..Height[session.last]
    BY <1>3, <1>4 DEF LenOf
  <2> QED BY <1>3, <2>1, Ancestor DEF TopOf, LenOf
<1>6. PICK h \in Nat : stored = From(low, h) /\ (u => h <= Base(session))
  BY <1>2, <1>5 DEF LeavesOurs
<1>7. Height[top] \in Nat /\ Height[top] >= n /\ Height[chunk[1]] = n /\ PieceOf(chunk, top)
      /\ LenOf(top) = EndOf(chunk) /\ Height[top] <= Height[session.last]
      /\ At(session.last, Height[top]) = top /\ s.to = Height[top] + 1
  <2>1. Height[chunk[1]] = n /\ PieceOf(chunk, top) /\ LenOf(top) = EndOf(chunk)
        /\ At(session.last, Height[top]) = top /\ s.to = Height[top] + 1 /\ Height[top] \in Nat
        /\ Height[top] <= Height[session.last]
    BY <1>1, <1>3, <1>4, TreeIs DEF AsVerified, LenOf
  <2>2. Len(chunk) \in Nat \ {0} /\ Height[top] + 1 = n + Len(chunk)
    BY <2>1, PieceIs DEF EndOf, LenOf
  <2> QED BY <2>1, <2>2
<1>8. At(top, Height[low]) = low
  <2>1. n - 1 \in 0..Height[top] /\ Height[top] \in 0..Height[session.last]
    BY <1>3, <1>4, <1>7
  <2>2. At(At(session.last, Height[top]), n - 1) = At(session.last, n - 1)
    BY <2>1, Ancestor
  <2> QED BY <1>5, <1>7, <2>2
<1>9. PICK k \in Nat : SavedFrom(chunk, 0) = From(top, k) /\ k = Least(h, n)
  BY <1>5, <1>6, <1>7, <1>8, SavedIs
<1>10. k <= h
  BY <1>3, <1>9 DEF Least
<1>11. SavedFrom(chunk, 0) \cap Forged = {}
  BY <1>1, SavedUnforged DEF OneRun
<1>12. \A i \in n..Height[top] : At(top, i) \notin Forged
  <2>1. ASSUME NEW i \in n..Height[top] PROVE At(top, i) \notin Forged
    <3>1. i \in 0..Height[top]
      BY <1>3, <1>7
    <3>2. PICK b \in Blocks : b = At(top, i) /\ Height[b] = i
      BY <3>1, Ancestor
    <3>3. k <= i
      BY <1>3, <1>6, <1>9 DEF Least
    <3>4. b \in SavedFrom(chunk, 0)
      BY <1>9, <3>1, <3>2, <3>3, FromIs
    <3> QED BY <1>11, <3>2, <3>4
  <2> QED BY <2>1
<1>13. Weight[top] > Weight[low]
  <2>1. Height[low] \in 0..Height[top] /\ Height[low] + 1 = n /\ Height[top] > Height[low]
    BY <1>3, <1>5, <1>7
  <2> QED BY <1>8, <1>12, <2>1, HeavierAbove
<1>14. Base(s) = Base(session) /\ Base(session) \in Nat /\ Base(session) <= n /\ n <= s.to
  <2>1. Base(s) = Base(session)
    BY DEF AsVerified, Base
  <2>2. Base(session) \in Nat /\ Base(session) <= n
    BY <1>2, <1>3 DEF LeavesOurs, Base, TypedSession
  <2> QED BY <1>3, <1>7, <2>1, <2>2
<1>15. ASSUME s.blocks, u PROVE s.applied < s.to /\ Weight[top] > Weight[ourTip]
  <2>1. session.blocks /\ s.applied = Base(session)
    BY <1>15 DEF AsVerified, Base
  <2>2. s.applied < s.to
    BY <1>3, <1>7, <1>14, <2>1
  <2>3. IF session.applied < session.to THEN Weight[low] > Weight[ourTip] ELSE ourTip = low
    BY <1>2, <1>5, <1>15, <2>1 DEF LeavesOurs
  <2>4. Weight[low] \in Nat /\ Weight[top] \in Nat /\ Weight[ourTip] \in Nat
    BY TreeIs
  <2> QED BY <1>13, <2>2, <2>3, <2>4
<1>16. s.to >= 1 /\ s.weight = Weight[TopOf(s)] /\ TopOf(s) = top /\ s.last = session.last
       /\ s.last # NoBlock /\ s.next >= 1 /\ TypedSession(s) /\ Consecutive(s) /\ ~(s.fork < 0)
  <2>1. ~(session.fork < 0)
    BY <1>2 DEF TypedSession
  <2> QED BY <1>2, <1>7, <2>1 DEF AsVerified
<1>17. u => k <= Base(s)
  BY <1>6, <1>9, <1>10, <1>14
<1>18. u => Shares(ourTip, s.last, Base(s))
  BY <1>2, <1>14, <1>16 DEF LeavesOurs
<1>19. LeavesOurs(s, SavedFrom(chunk, 0), ourTip, u)
  <2>1. Base(s) <= s.to
    BY <1>3, <1>7, <1>14
  <2>2. \E i \in Nat : SavedFrom(chunk, 0) = From(TopOf(s), i) /\ (u => i <= Base(s))
    BY <1>9, <1>16, <1>17
  <2>3. s.blocks /\ u => IF s.applied < s.to THEN Weight[TopOf(s)] > Weight[ourTip]
                         ELSE ourTip = TopOf(s)
    BY <1>15, <1>16
  <2> QED BY <1>16, <1>18, <2>1, <2>2, <2>3 DEF LeavesOurs
<1>20. SessionHolds(s, SavedFrom(chunk, 0), ourTip, u)
  BY <1>16, <1>19 DEF SessionHolds
<1> QED BY <1>1, <1>9, <1>11, <1>20 DEF OneRun

\* A fork is found in headers that were those of our chain.
LEMMA ForkSet ==
    ASSUME NEW s, TypedSession(s), NEW f \in Nat \cup {-1}
    PROVE  \E r : /\ r = [s EXCEPT !.fork = f] /\ TypedSession(r) /\ r.fork = f
                  /\ r.to = s.to /\ r.last = s.last /\ r.weight = s.weight /\ r.next = s.next
                  /\ r.peer = s.peer /\ r.blocks = s.blocks /\ r.applied = s.applied
                  /\ (Consecutive(s) => Consecutive(r)) /\ TopOf(r) = TopOf(s)
<1>1. DOMAIN s = SessionFields
  BY DEF TypedSession
<1>2. PICK r : r = [s EXCEPT !.fork = f]
  OBVIOUS
<1>3. /\ r.fork = f /\ r.to = s.to /\ r.last = s.last /\ r.weight = s.weight /\ r.next = s.next
      /\ r.peer = s.peer /\ r.blocks = s.blocks /\ r.applied = s.applied
      /\ r.queue = s.queue /\ r.verifying = s.verifying
  BY ONLY <1>1, <1>2 DEF SessionFields
<1>4. TypedSession(r)
  BY <1>1, <1>2, <1>3 DEF SessionFields, TypedSession
<1>5. Consecutive(s) => Consecutive(r)
  BY <1>3 DEF Consecutive
<1>6. TopOf(r) = TopOf(s)
  BY <1>3 DEF TopOf
<1> QED BY <1>2, <1>3, <1>4, <1>5, <1>6

\* Our chain holds the blocks of the peer's below a height from where on it holds
\* none of the chunk's.
LEMMA SharedBelow ==
    ASSUME ourTip \in Blocks, session.last \in Blocks, NEW n \in Nat,
           NEW top \in Blocks, Height[top] <= Height[session.last], At(session.last, Height[top]) = top,
           Shares(ourTip, session.last, n), NEW f \in Nat, f <= LenOf(top), f <= LenOf(ourTip),
           \A k \in n..(f - 1) : At(ourTip, k) = At(top, k)
    PROVE  Shares(ourTip, session.last, f)
<1>1. Height[top] \in 0..Height[session.last] /\ Height[session.last] \in Nat
  BY TreeIs
<1>2. ASSUME NEW k \in 0..(f - 1) PROVE At(ourTip, k) = At(session.last, k)
  <2>1. CASE k < n
    BY <2>1 DEF Shares
  <2>2. CASE ~(k < n)
    <3>1. k \in n..(f - 1) /\ k \in 0..Height[top]
      BY <1>1, <2>2 DEF LenOf
    <3>2. At(At(session.last, Height[top]), k) = At(session.last, k)
      BY <1>1, <3>1, Ancestor
    <3> QED BY <3>1, <3>2
  <2> QED BY <2>1, <2>2
<1>3. f <= LenOf(session.last)
  BY <1>1 DEF LenOf
<1> QED BY <1>2, <1>3 DEF Shares

LEMMA VerifiedOurs ==
    ASSUME ourTip \in Blocks, NEW u \in BOOLEAN,
           SessionHolds(session, stored, ourTip, u), session.last \in Blocks,
           session.verifying # <<>>, session.fork < 0,
           NEW s, NEW top \in Blocks, AsVerified(s, top), Departures(session.verifying) = {},
           NEW f, f = IF s.to >= LenOf(ourTip) THEN LenOf(ourTip) ELSE -1
    PROVE  /\ SessionHolds([s EXCEPT !.fork = f], stored, ourTip, u)
           /\ [s EXCEPT !.fork = f].peer = s.peer
<1>1. PICK chunk : chunk = session.verifying
  OBVIOUS
<1>2. OnOurs(session, stored, ourTip, u) /\ session.last # NoBlock /\ session.next >= 1
      /\ Consecutive(session) /\ TypedSession(session)
  BY HeaderSyncAssumption DEF SessionHolds
<1>3. PICK n \in Nat : n = session.to
  BY <1>2 DEF TypedSession
<1>4. /\ PieceOf(chunk, top) /\ LenOf(top) = EndOf(chunk) /\ Height[chunk[1]] = n
      /\ At(session.last, Height[top]) = top /\ s.to = LenOf(top) /\ s.to = n + Len(chunk)
      /\ Height[top] \in Nat /\ Height[top] <= Height[session.last] /\ LenOf(ourTip) \in Nat \ {0}
      /\ LenOf(top) \in Nat \ {0}
  BY <1>1, <1>3, TreeIs DEF AsVerified, LenOf
<1>5. Len(chunk) \in Nat \ {0} /\ n <= Height[top] /\ s.to = Height[top] + 1
  <2>1. Len(chunk) \in Nat \ {0}
    BY <1>4, PieceIs
  <2> QED BY <1>4, <2>1 DEF LenOf
<1>6. \A k \in n..Height[top] : k < LenOf(ourTip) /\ At(ourTip, k) = At(top, k)
  BY <1>1, <1>4, DeparturesAre
<1>7. s.to <= LenOf(ourTip)
  <2>1. Height[top] \in n..Height[top]
    BY <1>4, <1>5
  <2> QED BY <1>4, <1>5, <1>6, <2>1
<1>8. ASSUME u PROVE Shares(ourTip, session.last, s.to)
  <2>1. Shares(ourTip, session.last, n)
    BY <1>2, <1>3, <1>8 DEF OnOurs
  <2>2. \A k \in n..(s.to - 1) : At(ourTip, k) = At(top, k)
    BY <1>4, <1>5, <1>6
  <2>3. s.to \in Nat /\ s.to <= LenOf(top)
    BY <1>4
  <2> QED BY <1>4, <1>7, <2>1, <2>2, <2>3, SharedBelow
<1>9. f \in Nat \cup {-1} /\ TypedSession(s)
  BY <1>4 DEF AsVerified
<1>10. PICK r : /\ r = [s EXCEPT !.fork = f] /\ TypedSession(r) /\ r.fork = f
                /\ r.to = s.to /\ r.last = s.last /\ r.weight = s.weight /\ r.next = s.next
                /\ r.peer = s.peer /\ r.blocks = s.blocks /\ r.applied = s.applied
                /\ (Consecutive(s) => Consecutive(r)) /\ TopOf(r) = TopOf(s)
  BY <1>9, ForkSet
<1>11. stored = {} /\ ~r.blocks /\ r.last = session.last /\ Consecutive(r) /\ r.next >= 1
       /\ r.last # NoBlock /\ TopOf(r) = top /\ r.weight = Weight[top]
  BY <1>2, <1>10 DEF OnOurs, AsVerified
<1>12. CASE f = -1
  <2>1. OnOurs(r, stored, ourTip, u)
    BY <1>8, <1>10, <1>11 DEF OnOurs
  <2>2. r.fork < 0 /\ ~(r.fork >= 0)
    BY <1>10, <1>12
  <2> QED BY <1>10, <1>11, <2>1, <2>2 DEF SessionHolds
<1>13. CASE f = LenOf(ourTip) /\ s.to = LenOf(ourTip)
  <2>1. Base(r) = s.to /\ ~(r.fork < 0)
    BY <1>4, <1>10, <1>11, <1>13 DEF Base
  <2>2. From(top, LenOf(top)) = {} /\ LenOf(top) \in Nat
    BY NothingAbove
  <2>3. \E i \in Nat : stored = From(TopOf(r), i) /\ (u => i <= Base(r))
    BY <1>4, <1>11, <2>1, <2>2
  <2>4. r.to >= 1 /\ Base(r) <= r.to
    BY <1>4, <1>10, <2>1
  <2>5. LeavesOurs(r, stored, ourTip, u)
    BY <1>8, <1>11, <2>1, <2>3, <2>4 DEF LeavesOurs
  <2> QED BY <1>10, <1>11, <2>1, <2>5 DEF SessionHolds
<1>14. f = -1 \/ (f = LenOf(ourTip) /\ s.to = LenOf(ourTip))
  BY <1>4, <1>7
<1> QED BY <1>12, <1>13, <1>14

LEMMA VerifiedLeaves ==
    ASSUME ourTip \in Blocks, OneRun(stored), NEW u \in BOOLEAN,
           SessionHolds(session, stored, ourTip, u), session.last \in Blocks,
           session.verifying # <<>>, session.fork < 0,
           \A i \in 1..Len(session.verifying) : session.verifying[i] \notin Forged,
           NEW s, NEW top \in Blocks, AsVerified(s, top), Departures(session.verifying) # {},
           NEW f, f = Min(Departures(session.verifying)), ~TooDeep(f)
    PROVE  /\ SessionHolds([s EXCEPT !.fork = f], SavedFrom(session.verifying, f), ourTip, u)
           /\ [s EXCEPT !.fork = f].peer = s.peer
           /\ OneRun(SavedFrom(session.verifying, f))
<1>1. PICK chunk : chunk = session.verifying
  OBVIOUS
<1>2. OnOurs(session, stored, ourTip, u) /\ session.last # NoBlock /\ session.next >= 1
      /\ Consecutive(session) /\ TypedSession(session)
  BY HeaderSyncAssumption DEF SessionHolds
<1>3. PICK n \in Nat : n = session.to
  BY <1>2 DEF TypedSession
<1>4. /\ PieceOf(chunk, top) /\ LenOf(top) = EndOf(chunk) /\ Height[chunk[1]] = n
      /\ At(session.last, Height[top]) = top /\ s.to = LenOf(top)
      /\ Height[top] \in Nat /\ Height[top] <= Height[session.last] /\ LenOf(ourTip) \in Nat \ {0}
      /\ LenOf(top) \in Nat \ {0}
  BY <1>1, <1>3, TreeIs DEF AsVerified, LenOf
<1>5. /\ \A h \in Departures(chunk) : h \in Nat /\ n <= h /\ h <= Height[top]
      /\ \A k \in n..Height[top] :
            k \notin Departures(chunk) => k < LenOf(ourTip) /\ At(ourTip, k) = At(top, k)
  BY <1>4, DeparturesAre
<1>6. f \in Departures(chunk) /\ (\A h \in Departures(chunk) : f <= h)
  BY <1>1, <1>5, MinIs
<1>7. f \in Nat /\ n <= f /\ f <= Height[top] /\ f <= LenOf(ourTip) /\ f <= LenOf(top)
  <2>1. f \in Nat /\ n <= f /\ f <= Height[top]
    BY <1>5, <1>6
  <2>2. f <= LenOf(ourTip)
    BY <1>4, <2>1 DEF TooDeep
  <2> QED BY <1>4, <2>1, <2>2 DEF LenOf
<1>8. \A k \in n..(f - 1) : At(ourTip, k) = At(top, k)
  <2>1. ASSUME NEW k \in n..(f - 1) PROVE At(ourTip, k) = At(top, k)
    <3>1. k \in n..Height[top] /\ ~(f <= k)
      BY <1>3, <1>4, <1>7
    <3> QED BY <1>5, <1>6, <3>1
  <2> QED BY <2>1
<1>9. u => Shares(ourTip, session.last, f)
  <2>1. u => Shares(ourTip, session.last, n)
    BY <1>2, <1>3 DEF OnOurs
  <2> QED BY <1>4, <1>7, <1>8, <2>1, SharedBelow
<1>10. SavedFrom(chunk, f) = From(top, f)
  <2>1. stored = {}
    BY <1>2 DEF OnOurs
  <2>2. SavedFrom(chunk, f) = {b \in Chunked(chunk) : Height[b] >= f}
    BY <2>1 DEF SavedFrom, Chunked
  <2>3. {b \in Chunked(chunk) : Height[b] >= f} = From(top, Most(n, f))
    BY <1>4, <1>7, ChunkedIs
  <2>4. Most(n, f) = f
    BY <1>7 DEF Most
  <2> QED BY <2>2, <2>3, <2>4
<1>11. OneRun(SavedFrom(chunk, f))
  <2>1. SavedFrom(chunk, f) \cap Forged = {}
    BY <1>1, SavedUnforged DEF OneRun
  <2> QED BY <1>7, <1>10, <2>1 DEF OneRun
<1>12. f \in Nat \cup {-1} /\ TypedSession(s)
  BY <1>7 DEF AsVerified
<1>13. PICK r : /\ r = [s EXCEPT !.fork = f] /\ TypedSession(r) /\ r.fork = f
                /\ r.to = s.to /\ r.last = s.last /\ r.weight = s.weight /\ r.next = s.next
                /\ r.peer = s.peer /\ r.blocks = s.blocks /\ r.applied = s.applied
                /\ (Consecutive(s) => Consecutive(r)) /\ TopOf(r) = TopOf(s)
  BY <1>12, ForkSet
<1>14. ~r.blocks /\ r.last = session.last /\ Consecutive(r) /\ r.next >= 1
       /\ r.last # NoBlock /\ TopOf(r) = top /\ r.weight = Weight[top]
  BY <1>2, <1>13 DEF OnOurs, AsVerified
<1>15. Base(r) = f /\ ~(r.fork < 0) /\ Base(r) <= r.to /\ r.to >= 1
  BY <1>4, <1>7, <1>13, <1>14 DEF Base
<1>16. \E i \in Nat : SavedFrom(chunk, f) = From(TopOf(r), i) /\ (u => i <= Base(r))
  BY <1>7, <1>10, <1>14, <1>15
<1>17. LeavesOurs(r, SavedFrom(chunk, f), ourTip, u)
  BY <1>9, <1>14, <1>15, <1>16 DEF LeavesOurs
<1>18. SessionHolds(r, SavedFrom(chunk, f), ourTip, u)
  BY <1>13, <1>14, <1>15, <1>17 DEF SessionHolds
<1> QED BY <1>1, <1>11, <1>13, <1>18

LEMMA VerifiedKept ==
    ASSUME HeaderInv, HeadersVerified
    PROVE  HeaderInv'
<1>1. PICK chunk : chunk = session.verifying
  OBVIOUS
<1>2. PICK u \in BOOLEAN : u = (session.peer \notin excused)
  OBVIOUS
<1>3. /\ ourTip \in Blocks /\ peerTip \in [Servers -> Blocks] /\ Claimed(tips) /\ OneRun(stored)
      /\ SessionHolds(session, stored, ourTip, u) /\ session.verifying # <<>>
  BY <1>2 DEF HeaderInv, Keeps, HeadersVerified, InSession
<1>4. TypedSession(session) /\ session.last \in Blocks /\ Consecutive(session)
  BY <1>3 DEF SessionHolds, TypedSession, Begun
<1>5. PICK s, f : s = Verified(session, chunk) /\ f = Min(Departures(chunk))
  OBVIOUS
<1>6. PICK top \in Blocks : AsVerified(s, top)
  BY <1>1, <1>3, <1>4, <1>5, VerifiedIs DEF AsVerified
<1>7. s.peer = session.peer /\ s.fork = session.fork /\ (s.peer \notin excused => u)
  BY <1>2, <1>6 DEF AsVerified
<1>8. excused \subseteq excused' /\ ourTip' = ourTip /\ peerTip' = peerTip
  BY DEF HeadersVerified, Excuse
<1>9. ASSUME NEW blame, NEW headers, OneRun(headers), EndSession(ourTip, blame, headers)
      PROVE  Kept(ourTip)
  BY <1>3, <1>9, EndKept
<1>10. ASSUME \A i \in 1..Len(chunk) : chunk[i] \notin Forged,
              s.fork >= 0, AfterVerified(s, SavedFrom(chunk, 0))
       PROVE  Kept(ourTip)
  BY <1>1, <1>3, <1>4, <1>6, <1>7, <1>8, <1>10, VerifiedAway, AfterVerifiedKept
<1>11. ASSUME s.fork < 0, Departures(chunk) = {},
              AfterVerified([s EXCEPT !.fork = IF s.to >= LenOf(ourTip)
                                               THEN LenOf(ourTip) ELSE -1], stored)
       PROVE  Kept(ourTip)
  <2>1. PICK g : g = IF s.to >= LenOf(ourTip) THEN LenOf(ourTip) ELSE -1
    OBVIOUS
  <2>2. PICK r : r = [s EXCEPT !.fork = g]
    OBVIOUS
  <2>3. SessionHolds(r, stored, ourTip, u) /\ r.peer = s.peer
    BY <1>1, <1>3, <1>4, <1>6, <1>7, <1>11, <2>1, <2>2, VerifiedOurs
  <2>4. AfterVerified(r, stored) /\ (r.peer \notin excused => u)
    BY <1>7, <1>11, <2>1, <2>2, <2>3
  <2> QED BY <1>3, <1>8, <2>3, <2>4, AfterVerifiedKept
<1>12. ASSUME \A i \in 1..Len(chunk) : chunk[i] \notin Forged,
              s.fork < 0, Departures(chunk) # {}, ~TooDeep(f),
              AfterVerified([s EXCEPT !.fork = f], SavedFrom(chunk, f))
       PROVE  Kept(ourTip)
  <2>1. PICK r : r = [s EXCEPT !.fork = f]
    OBVIOUS
  <2>2. SessionHolds(r, SavedFrom(chunk, f), ourTip, u) /\ r.peer = s.peer /\ OneRun(SavedFrom(chunk, f))
    BY <1>1, <1>3, <1>4, <1>5, <1>6, <1>7, <1>12, <2>1, VerifiedLeaves
  <2>3. AfterVerified(r, SavedFrom(chunk, f)) /\ (r.peer \notin excused => u)
    BY <1>7, <1>12, <2>1, <2>2
  <2> QED BY <1>3, <1>8, <2>2, <2>3, AfterVerifiedKept
<1>13. Kept(ourTip)
  <2>1. \/ EndSession(ourTip, "ban", stored)
        \/ /\ \A i \in 1..Len(chunk) : chunk[i] \notin Forged
           /\ \/ s.fork >= 0 /\ AfterVerified(s, SavedFrom(chunk, 0))
              \/ /\ s.fork < 0 /\ Departures(chunk) = {}
                 /\ AfterVerified([s EXCEPT !.fork = IF s.to >= LenOf(ourTip)
                                                     THEN LenOf(ourTip) ELSE -1], stored)
              \/ EndSession(ourTip, "pause", {})
              \/ /\ s.fork < 0 /\ Departures(chunk) # {} /\ ~TooDeep(f)
                 /\ AfterVerified([s EXCEPT !.fork = f], SavedFrom(chunk, f))
    BY <1>1, <1>5 DEF HeadersVerified
  <2> QED BY <1>3, <1>9, <1>10, <1>11, <1>12, <2>1, NoRun
<1> QED BY <1>3, <1>8, <1>13 DEF Kept, HeaderInv

------------------------------------------------------------------------------
(* The blocks the headers name are applied. *)
LEMMA SoundPartIs ==
    ASSUME NEW b \in Blocks
    PROVE  SoundPart(b) \in Blocks
<1>1. PICK bad : bad = {Height[c] : c \in From(b, 0) \cap Unsound}
  OBVIOUS
<1>2. CASE bad = {}
  BY <1>1, <1>2 DEF SoundPart
<1>3. CASE bad # {}
  <2>1. ASSUME NEW k \in bad PROVE k \in Nat /\ k >= 1 /\ k <= Height[b]
    <3>1. PICK c \in From(b, 0) \cap Unsound : k = Height[c]
      BY <1>1
    <3>2. c \in Blocks /\ Height[c] <= Height[b]
      BY FromIs
    <3>3. c # Genesis
      BY HeaderSyncAssumption
    <3> QED BY <3>1, <3>2, <3>3, TreeIs
  <2>2. Min(bad) \in bad
    BY <1>3, <2>1, MinIs
  <2>3. Min(bad) - 1 \in 0..Height[b]
    BY <2>1, <2>2, TreeIs
  <2>4. At(b, Min(bad) - 1) \in Blocks
    BY <2>3, Ancestor
  <2> QED BY <1>1, <1>3, <2>4 DEF SoundPart
<1> QED BY <1>2, <1>3

\* What stands on disk at the top of what was verified is its last header.
LEMMA NamedIs ==
    ASSUME NEW s, NEW own, NEW u, TypedSession(s), Consecutive(s), s.last \in Blocks,
           LeavesOurs(s, stored, own, u)
    PROVE  /\ TopOf(s) \in Blocks /\ LenOf(TopOf(s)) = s.to /\ Height[TopOf(s)] = s.to - 1
           /\ s.to - 1 \in Nat /\ s.to <= LenOf(s.last)
           /\ \A k \in 0..(s.to - 1) : At(TopOf(s), k) = At(s.last, k)
           /\ \A b \in Named(s.to - 1) : b = TopOf(s)
<1>1. s.to \in Nat /\ s.to >= 1 /\ s.to <= LenOf(s.last)
  BY Fetched DEF LeavesOurs, TypedSession
<1>2. s.to - 1 \in 0..Height[s.last]
  BY <1>1, TreeIs DEF LenOf
<1>3. PICK top \in Blocks : /\ top = TopOf(s) /\ Height[top] = s.to - 1 /\ LenOf(top) = s.to
                            /\ \A k \in 0..(s.to - 1) : At(top, k) = At(s.last, k)
  BY <1>1, <1>2, Ancestor DEF TopOf, LenOf
<1>4. PICK h \in Nat : stored = From(top, h)
  BY <1>3 DEF LeavesOurs
<1>5. ASSUME NEW b \in Named(s.to - 1) PROVE b = top
  <2>1. b \in Blocks /\ b = At(top, Height[b]) /\ Height[b] = Height[top]
    BY <1>3, <1>4, FromIs DEF Named
  <2> QED BY <2>1, ChainIs
<1> QED BY <1>1, <1>2, <1>3, <1>5

LEMMA AppliedAll ==
    ASSUME ourTip \in Blocks, OneRun(stored), NEW u \in BOOLEAN,
           SessionHolds(session, stored, ourTip, u), session.blocks, session.applied < session.to,
           NEW b \in Named(session.to - 1), NEW own, own = Adopted(b)
    PROVE  /\ SessionHolds([session EXCEPT !.applied = session.to], Above(stored, own), own, u)
           /\ [session EXCEPT !.applied = session.to].peer = session.peer
           /\ own \in Blocks
<1>1. TypedSession(session) /\ DOMAIN session = SessionFields /\ session.to \in Nat
      /\ session.applied \in Nat
  BY DEF SessionHolds, TypedSession
<1>2. session.last # NoBlock /\ ~(session.fork < 0)
  BY DEF SessionHolds, Begun, OnOurs
<1>3. session.last \in Blocks /\ session.fork >= 0 /\ session.fork \in Nat
  BY <1>1, <1>2 DEF TypedSession
<1>4. Consecutive(session) /\ LeavesOurs(session, stored, ourTip, u) /\ session.next >= 1
  BY <1>2, <1>3 DEF SessionHolds
<1>5. PICK top \in Blocks : /\ top = TopOf(session) /\ LenOf(top) = session.to
                            /\ Height[top] = session.to - 1 /\ session.to - 1 \in Nat
                            /\ session.to <= LenOf(session.last)
                            /\ \A k \in 0..(session.to - 1) : At(top, k) = At(session.last, k)
                            /\ b = top
  BY <1>1, <1>3, <1>4, NamedIs
<1>6. PICK to \in Nat : to = session.to
  BY <1>1
<1>7. PICK s : s = [session EXCEPT !.applied = to]
  OBVIOUS
<1>8. /\ s.applied = to /\ s.to = to /\ s.last = session.last /\ s.blocks = session.blocks
      /\ s.fork = session.fork /\ s.weight = session.weight /\ s.next = session.next
      /\ s.queue = session.queue /\ s.verifying = session.verifying /\ s.peer = session.peer
  BY ONLY <1>1, <1>6, <1>7 DEF SessionFields
<1>9. TypedSession(s)
  BY <1>1, <1>6, <1>7, <1>8 DEF SessionFields, TypedSession
<1>10. Consecutive(s)
  BY <1>4, <1>6, <1>8 DEF Consecutive
<1>11. TopOf(s) = top /\ Base(s) = to /\ Base(session) = session.applied
  BY <1>5, <1>6, <1>8 DEF TopOf, Base
<1>12. own \in Blocks
  BY <1>5 DEF Adopted
<1>13. PICK h \in Nat : stored = From(top, h) /\ (u => h <= session.applied)
  BY <1>4, <1>5, <1>11 DEF LeavesOurs
<1>14. PICK k \in Nat : k = Most(h, LenOf(own)) /\ Above(stored, own) = From(top, k)
  <2>1. LenOf(own) \in Nat
    BY <1>12, TreeIs DEF LenOf
  <2>2. Most(h, LenOf(own)) \in Nat
    BY <2>1 DEF Most
  <2> QED BY <1>12, <1>13, <2>2, RunAbove
<1>15. u => own = top
  <2>1. ASSUME u PROVE Weight[top] > Weight[ourTip]
    BY <1>4, <1>5, <2>1 DEF LeavesOurs
  <2> QED BY <1>5, <2>1 DEF Adopted
<1>16. u => k <= Base(s)
  <2>1. ASSUME u PROVE k <= to
    <3>1. LenOf(own) = to /\ h <= to
      BY <1>1, <1>5, <1>6, <1>13, <1>15, <2>1
    <3> QED BY <1>14, <3>1 DEF Most
  <2> QED BY <1>11, <2>1
<1>17. u => Shares(own, s.last, Base(s))
  <2>1. ASSUME u PROVE Shares(top, session.last, to)
    BY <1>5, <1>6 DEF Shares
  <2> QED BY <1>8, <1>11, <1>15, <2>1
<1>18. LeavesOurs(s, Above(stored, own), own, u)
  <2>1. s.to >= 1 /\ Base(s) <= s.to /\ ~(s.applied < s.to)
    BY <1>5, <1>6, <1>8, <1>11
  <2>2. s.weight = Weight[TopOf(s)]
    BY <1>4, <1>5, <1>8, <1>11 DEF LeavesOurs
  <2>3. \E i \in Nat : Above(stored, own) = From(TopOf(s), i) /\ (u => i <= Base(s))
    BY <1>11, <1>14, <1>16
  <2>4. s.blocks /\ u => IF s.applied < s.to THEN Weight[TopOf(s)] > Weight[own] ELSE own = TopOf(s)
    BY <1>11, <1>15, <2>1
  <2> QED BY <1>17, <2>1, <2>2, <2>3, <2>4 DEF LeavesOurs
<1>19. ~(s.fork < 0) /\ s.last # NoBlock /\ s.next >= 1
  BY <1>2, <1>4, <1>8
<1>20. SessionHolds(s, Above(stored, own), own, u)
  BY <1>9, <1>10, <1>18, <1>19 DEF SessionHolds
<1> QED BY <1>6, <1>7, <1>8, <1>12, <1>20

LEMMA AppliedKept ==
    ASSUME HeaderInv, BlocksApplied
    PROVE  HeaderInv'
<1>1. PICK u \in BOOLEAN : u = (session.peer \notin excused)
  OBVIOUS
<1>2. /\ ourTip \in Blocks /\ peerTip \in [Servers -> Blocks] /\ Claimed(tips) /\ OneRun(stored)
      /\ SessionHolds(session, stored, ourTip, u) /\ Fetching(session)
      /\ session.blocks /\ session.applied < session.to
  BY <1>1 DEF HeaderInv, Keeps, BlocksApplied, InSession
<1>3. excused \subseteq excused' /\ peerTip' = peerTip
  BY DEF BlocksApplied, Excuse
<1>4. PICK s : s = [session EXCEPT !.applied = session.to]
  OBVIOUS
<1>5. \/ ourTip' = ourTip /\ \E blame : EndSession(ourTip, blame, stored)
      \/ \E b \in Named(session.to - 1) :
            /\ ourTip' = Adopted(SoundPart(b))
            /\ IF SoundPart(b) = b THEN Finish(ourTip', s, Above(stored, ourTip'))
               ELSE EndSession(ourTip', "ban", stored)
  BY <1>4 DEF BlocksApplied
<1>6. ASSUME NEW blame, ourTip' = ourTip, EndSession(ourTip, blame, stored)
      PROVE  ourTip' \in Blocks /\ Kept(ourTip')
  BY <1>2, <1>6, EndKept
<1>7. ASSUME NEW b \in Named(session.to - 1), ourTip' = Adopted(SoundPart(b)), SoundPart(b) # b,
             EndSession(ourTip', "ban", stored)
      PROVE  ourTip' \in Blocks /\ Kept(ourTip')
  <2>1. b \in Blocks
    BY <1>2, FromIs DEF Named, OneRun
  <2>2. ourTip' \in Blocks
    BY <1>2, <1>7, <2>1, SoundPartIs DEF Adopted
  <2>3. PICK own \in Blocks : own = ourTip'
    BY <2>2
  <2>4. Kept(own)
    BY <1>2, <1>7, <2>3, EndKept
  <2> QED BY <2>3, <2>4
<1>8. ASSUME NEW b \in Named(session.to - 1), ourTip' = Adopted(SoundPart(b)), SoundPart(b) = b,
             Finish(ourTip', s, Above(stored, ourTip'))
      PROVE  ourTip' \in Blocks /\ Kept(ourTip')
  <2>1. PICK own : own = ourTip' /\ own = Adopted(b)
    BY <1>8
  <2>2. SessionHolds(s, Above(stored, own), own, u) /\ s.peer = session.peer /\ own \in Blocks
    BY <1>2, <1>4, <2>1, AppliedAll
  <2>3. OneRun(Above(stored, own))
    BY <1>2, <2>2, AboveIs
  <2>4. Fetching(s)
    <3>1. DOMAIN session = SessionFields
      BY <1>2 DEF SessionHolds, TypedSession
    <3>2. s.done = session.done /\ s.inFlight = session.inFlight /\ s.queue = session.queue
          /\ s.verifying = session.verifying
      BY <1>4, <3>1 DEF SessionFields
    <3> QED BY <1>2, <3>2 DEF Fetching
  <2>5. Finish(own, s, Above(stored, own)) /\ (s.peer \notin excused => u)
    BY <1>1, <1>8, <2>1, <2>2
  <2>6. Kept(own)
    BY <1>2, <1>3, <2>2, <2>3, <2>4, <2>5, Ends
  <2> QED BY <2>1, <2>2, <2>6
<1>9. ourTip' \in Blocks /\ Kept(ourTip')
  BY <1>5, <1>6, <1>7, <1>8
<1> QED BY <1>2, <1>3, <1>9 DEF Kept, HeaderInv

------------------------------------------------------------------------------
(* The other steps. *)
LEMMA HearKept ==
    ASSUME HeaderInv, NEW p \in Servers, HearState(p)
    PROVE  HeaderInv'
<1>1. /\ ourTip \in Blocks /\ peerTip \in [Servers -> Blocks] /\ Claimed(tips) /\ OneRun(stored)
      /\ excused \subseteq excused' /\ ourTip' = ourTip /\ peerTip' = peerTip
  BY DEF HeaderInv, HearState, Excuse
<1>2. PICK claim \in Claims(p) :
         /\ tips' = [tips EXCEPT ![p] = claim]
         /\ \/ \E held : StartBest(ourTip, [tips EXCEPT ![p] = claim], held, stored)
            \/ /\ InSession /\ stored' = stored
               /\ session' = IF session.peer # p THEN session
                             ELSE [session EXCEPT !.claimed.height = Most(@, claim.height)]
  BY DEF HearState
<1>3. IsClaim(claim)
  BY <1>1, ClaimsAre
<1>4. PICK known : known = [tips EXCEPT ![p] = claim] /\ Claimed(known) /\ tips' = known
  BY <1>1, <1>2, <1>3 DEF Claimed
<1>5. ASSUME NEW held, StartBest(ourTip, known, held, stored)
      PROVE  Kept(ourTip)
  BY <1>1, <1>2, <1>4, <1>5, StartBestKeeps, Anew
<1>6. ASSUME InSession, stored' = stored,
             session' = IF session.peer # p THEN session
                        ELSE [session EXCEPT !.claimed.height = Most(@, claim.height)]
      PROVE  Kept(ourTip)
  <2>1. PICK u \in BOOLEAN : u = (session.peer \notin excused)
    OBVIOUS
  <2>2. SessionHolds(session, stored, ourTip, u) /\ Fetching(session)
    BY <1>6, <2>1 DEF HeaderInv, Keeps, InSession
  <2>3. TypedSession(session) /\ DOMAIN session = SessionFields /\ IsClaim(session.claimed)
    BY <2>2 DEF SessionHolds, TypedSession
  <2>4. PICK s : s = session'
    OBVIOUS
  <2>5. TypedSession(s) /\ Alike(s, session) /\ Fetching(s)
    <3>1. CASE session.peer # p
      BY <1>6, <2>2, <2>3, <2>4, <3>1 DEF Alike
    <3>2. CASE session.peer = p
      <4>1. PICK m \in Nat : m = Most(session.claimed.height, claim.height)
        BY <1>3, <2>3 DEF Most, IsClaim
      <4>2. PICK c : c = [session.claimed EXCEPT !.height = m]
        OBVIOUS
      <4>3. IsClaim(c)
        BY <2>3, <4>1, <4>2 DEF IsClaim
      <4>4. s = [session EXCEPT !.claimed = c]
        BY <1>6, <2>4, <3>2, <4>1, <4>2
      <4>5. Alike(s, session)
        BY ONLY <2>3, <4>4 DEF SessionFields, Alike
      <4>6. TypedSession(s)
        BY <2>3, <4>3, <4>4 DEF SessionFields, TypedSession
      <4>7. s.done = session.done /\ s.inFlight = session.inFlight
        BY ONLY <2>3, <4>4 DEF SessionFields
      <4> QED BY <2>2, <4>5, <4>6, <4>7 DEF Alike, Fetching
    <3> QED BY <3>1, <3>2
  <2>6. SessionHolds(s, stored, ourTip, u)
    BY <2>2, <2>5, AlikeHolds
  <2>7. PICK v \in BOOLEAN : v = (session'.peer \notin excused')
    OBVIOUS
  <2>8. v => u
    BY <1>1, <2>1, <2>4, <2>5, <2>7 DEF Alike
  <2>9. SessionHolds(s, stored, ourTip, v)
    BY <2>6, <2>8, Disturbed
  <2> QED BY <1>1, <1>2, <1>4, <1>6, <2>4, <2>5, <2>7, <2>9 DEF Kept, Keeps
<1>7. Kept(ourTip)
  BY <1>2, <1>4, <1>5, <1>6
<1> QED BY <1>1, <1>7 DEF Kept, HeaderInv

\* A session whose own chain moved under it still ends where its headers do.
LEMMA MovedKept ==
    ASSUME HeaderInv, NEW b \in Blocks, NodeMoves(b)
    PROVE  HeaderInv'
<1>1. /\ ourTip \in Blocks /\ peerTip \in [Servers -> Blocks] /\ Claimed(tips) /\ OneRun(stored)
      /\ ourTip' = b /\ peerTip' = peerTip /\ tips' = tips /\ session' = session
      /\ stored' = Above(stored, b)
  BY DEF HeaderInv, NodeMoves
<1>2. OneRun(stored')
  BY <1>1, AboveIs
<1>3. ASSUME session # NoSession
      PROVE  SessionHolds(session, Above(stored, b), b, FALSE) /\ Fetching(session)
             /\ session.peer \in excused'
  <2>1. PICK u \in BOOLEAN : u = (session.peer \notin excused)
    OBVIOUS
  <2>2. SessionHolds(session, stored, ourTip, u) /\ Fetching(session)
    BY <1>3, <2>1 DEF HeaderInv, Keeps
  <2>3. ~session.blocks /\ session.peer \in excused'
    BY <1>3 DEF NodeMoves, InSession
  <2>4. TypedSession(session)
    BY <2>2 DEF SessionHolds
  <2>5. stored = {} => Above(stored, b) = {}
    BY DEF Above
  <2>6. Begun(session, stored, ourTip, u) => Begun(session, Above(stored, b), b, FALSE)
    BY <2>5 DEF Begun
  <2>7. OnOurs(session, stored, ourTip, u) => OnOurs(session, Above(stored, b), b, FALSE)
    BY <2>5 DEF OnOurs
  <2>8. ASSUME LeavesOurs(session, stored, ourTip, u), Consecutive(session), session.last # NoBlock
        PROVE  LeavesOurs(session, Above(stored, b), b, FALSE)
    <3>1. PICK top \in Blocks : top = TopOf(session)
      BY <2>4, <2>8, NamedIs DEF TypedSession
    <3>2. PICK h \in Nat : stored = From(top, h)
      BY <2>8, <3>1 DEF LeavesOurs
    <3>3. PICK k \in Nat : k = Most(h, LenOf(b))
      BY TreeIs DEF Most, LenOf
    <3>4. Above(stored, b) = From(top, k)
      BY <3>2, <3>3, RunAbove
    <3> QED BY <2>8, <3>1, <3>4 DEF LeavesOurs
  <2>9. SessionHolds(session, Above(stored, b), b, FALSE)
    BY <2>2, <2>6, <2>7, <2>8 DEF SessionHolds
  <2> QED BY <2>2, <2>3, <2>9
<1>4. Keeps(session', stored', ourTip', session'.peer \notin excused')
  <2>1. CASE session = NoSession
    BY <1>1, <2>1 DEF Keeps
  <2>2. CASE session # NoSession
    <3>1. PICK v \in BOOLEAN : v = (session'.peer \notin excused') /\ v = FALSE
      BY <1>1, <1>3, <2>2
    <3> QED BY <1>1, <1>3, <2>2, <3>1 DEF Keeps
  <2> QED BY <2>1, <2>2
<1> QED BY <1>1, <1>2, <1>4 DEF HeaderInv

\* What a step leaves alone stays as it was, if more peers are excused.
LEMMA UnmovedKept ==
    ASSUME HeaderInv, peerTip' \in [Servers -> Blocks], excused \subseteq excused',
           UNCHANGED <<ourTip, tips, session, stored>>
    PROVE  HeaderInv'
<1>1. /\ ourTip \in Blocks /\ Claimed(tips) /\ OneRun(stored)
      /\ Keeps(session, stored, ourTip, session.peer \notin excused)
  BY DEF HeaderInv
<1>2. PICK u \in BOOLEAN, v \in BOOLEAN :
         u = (session.peer \notin excused) /\ v = (session.peer \notin excused') /\ (v => u)
  OBVIOUS
<1>3. Keeps(session, stored, ourTip, v)
  BY <1>1, <1>2, Disturbed DEF Keeps
<1>4. session' = session /\ stored' = stored /\ ourTip' = ourTip /\ tips' = tips
  OBVIOUS
<1> QED BY <1>1, <1>2, <1>3, <1>4 DEF HeaderInv

LEMMA GrowsKept ==
    ASSUME HeaderInv, NEW p \in Servers, NEW b \in Blocks, PeerGrows(p, b)
    PROVE  HeaderInv'
<1>1. peerTip' \in [Servers -> Blocks] /\ UNCHANGED <<ourTip, tips, session, stored>>
  BY DEF PeerGrows, HeaderInv
<1>2. excused \subseteq excused'
  BY DEF PeerGrows
<1> QED BY <1>1, <1>2, UnmovedKept

LEMMA EndsKept ==
    ASSUME HeaderInv, NEW blame, EndSession(ourTip, blame, stored), UNCHANGED <<ourTip, peerTip>>
    PROVE  HeaderInv'
<1>1. /\ ourTip \in Blocks /\ peerTip \in [Servers -> Blocks] /\ Claimed(tips) /\ OneRun(stored)
      /\ ourTip' = ourTip /\ peerTip' = peerTip
  BY DEF HeaderInv
<1>2. Kept(ourTip)
  BY <1>1, EndKept
<1> QED BY <1>1, <1>2 DEF Kept, HeaderInv

LEMMA RestartedKept ==
    ASSUME HeaderInv, Restart
    PROVE  HeaderInv'
<1>1. /\ ourTip \in Blocks /\ peerTip \in [Servers -> Blocks] /\ OneRun(stored)
      /\ ourTip' = ourTip /\ peerTip' = peerTip /\ stored' = stored /\ session' = NoSession
      /\ tips' = [p \in Servers |-> NoClaim]
  BY DEF HeaderInv, Restart
<1>2. Claimed(tips')
  BY <1>1 DEF Claimed, NoClaim, IsClaim
<1> QED BY <1>1, <1>2 DEF HeaderInv, Keeps

LEMMA HeaderInit == SyncInit => HeaderInv
<1>1. SUFFICES ASSUME SyncInit PROVE HeaderInv
  OBVIOUS
<1>2. ourTip \in Blocks /\ peerTip \in [Servers -> Blocks] /\ OneRun(stored) /\ session = NoSession
  BY <1>1, NoRun, HeaderSyncAssumption DEF SyncInit
<1>3. Claimed(tips)
  BY <1>1 DEF SyncInit, Claimed, NoClaim, IsClaim
<1> QED BY <1>2, <1>3 DEF HeaderInv, Keeps

LEMMA HeaderStep == HeaderInv /\ [SyncNext]_headerVars => HeaderInv'
<1>1. SUFFICES ASSUME HeaderInv, [SyncNext]_headerVars PROVE HeaderInv'
  OBVIOUS
<1>2. ASSUME NEW p \in Servers, HearState(p) PROVE HeaderInv'
  BY <1>1, <1>2, HearKept
<1>3. ASSUME NEW p \in Servers, Unbar(p) PROVE HeaderInv'
  BY <1>1, <1>3, UnmovedKept DEF Unbar, HeaderInv
<1>4. ASSUME NEW p \in Servers, NEW b \in Blocks, PeerGrows(p, b) PROVE HeaderInv'
  BY <1>1, <1>4, GrowsKept
<1>5. ASSUME NEW b \in Blocks, NodeMoves(b) PROVE HeaderInv'
  BY <1>1, <1>5, MovedKept
<1>6. CASE Headers
  BY <1>1, <1>6, AnswerKept
<1>7. CASE HeadersVerified
  BY <1>1, <1>7, VerifiedKept
<1>8. CASE BlocksApplied
  BY <1>1, <1>8, AppliedKept
<1>9. CASE Timeout
  BY <1>1, <1>9, EndsKept DEF Timeout
<1>10. CASE PeerLeaves
  BY <1>1, <1>10, EndsKept DEF PeerLeaves
<1>11. CASE Restart
  BY <1>1, <1>11, RestartedKept
<1>12. CASE UNCHANGED headerVars
  <2>1. UNCHANGED <<ourTip, tips, session, stored>> /\ peerTip' = peerTip /\ excused' = excused
    BY <1>12 DEF headerVars
  <2> QED BY <1>1, <2>1, UnmovedKept DEF HeaderInv
<1> QED BY <1>1, <1>2, <1>3, <1>4, <1>5, <1>6, <1>7, <1>8, <1>9, <1>10, <1>11, <1>12 DEF SyncNext

LEMMA HeaderMeans == HeaderInv => FetchesAhead /\ SessionOnChain
<1>1. SUFFICES ASSUME HeaderInv PROVE FetchesAhead /\ SessionOnChain
  OBVIOUS
<1>2. FetchesAhead
  BY <1>1 DEF HeaderInv, Keeps, Fetching, FetchesAhead, InSession
<1>3. StoredIsOneChain
  BY <1>1, RunIs DEF HeaderInv, StoredIsOneChain
<1>4. ForkIsReal
  <2>1. SUFFICES ASSUME InSession, session.blocks, session.peer \notin excused,
                        session.applied < session.to
                 PROVE  \E b \in Named(session.to - 1) : HeadersLead(b)
    BY DEF ForkIsReal
  <2>2. SessionHolds(session, stored, ourTip, TRUE)
    <3>1. Keeps(session, stored, ourTip, TRUE)
      BY <1>1, <2>1 DEF HeaderInv
    <3> QED BY <2>1, <3>1 DEF Keeps, InSession
  <2>3. TypedSession(session) /\ session.last \in Blocks /\ session.fork >= 0
    BY <2>1, <2>2 DEF SessionHolds, Begun, OnOurs, TypedSession
  <2>4. Consecutive(session) /\ LeavesOurs(session, stored, ourTip, TRUE)
    BY <2>2, <2>3, HeaderSyncAssumption DEF SessionHolds
  <2>5. PICK top \in Blocks : /\ top = TopOf(session) /\ LenOf(top) = session.to
                              /\ Height[top] = session.to - 1
                              /\ \A k \in 0..(session.to - 1) : At(top, k) = At(session.last, k)
    BY <2>3, <2>4, NamedIs
  <2>6. PICK a \in Nat, n \in Nat : a = session.applied /\ n = session.to /\ a < n
    BY <2>1, <2>3 DEF TypedSession
  <2>7. PICK h \in Nat : stored = From(top, h) /\ h <= a
    BY <2>1, <2>4, <2>5, <2>6 DEF LeavesOurs, Base
  <2>8. top \in Named(session.to - 1)
    <3>1. h <= Height[top] /\ Height[top] <= Height[top] /\ At(top, Height[top]) = top
      BY <2>5, <2>6, <2>7, ChainIs
    <3> QED BY <2>5, <2>7, <3>1, FromIs DEF Named
  <2>9. From(top, a) \subseteq stored
    <3>1. ASSUME NEW c \in From(top, a) PROVE c \in From(top, h)
      <4>1. c \in Blocks /\ a <= Height[c] /\ Height[c] <= Height[top] /\ c = At(top, Height[c])
        BY FromIs
      <4>2. h <= Height[c]
        BY <2>6, <2>7, <4>1, TreeIs
      <4> QED BY <4>1, <4>2, FromIs
    <3> QED BY <2>7, <3>1
  <2>10. a <= LenOf(ourTip) /\ \A k \in 0..(a - 1) : At(ourTip, k) = At(top, k)
    <3>1. Shares(ourTip, session.last, a)
      BY <2>1, <2>4, <2>6 DEF LeavesOurs, Base
    <3> QED BY <2>5, <2>6, <3>1 DEF Shares
  <2>11. Below(top, a) = Below(ourTip, a)
    <3>1. Least(a, LenOf(top)) = a /\ Least(a, LenOf(ourTip)) = a
      BY <2>5, <2>6, <2>10 DEF Least
    <3>2. \A i \in 1..a : ChainOf[top][i] = ChainOf[ourTip][i]
      <4>1. ASSUME NEW i \in 1..a PROVE ChainOf[top][i] = ChainOf[ourTip][i]
        <5>1. i - 1 \in 0..(a - 1) /\ i - 1 + 1 = i
          BY <2>6
        <5> QED BY <2>10, <5>1 DEF At
      <4> QED BY <4>1
    <3> QED BY <3>1, <3>2 DEF Below
  <2>12. HeadersLead(top)
    BY <2>5, <2>6, <2>9, <2>11 DEF HeadersLead
  <2> QED BY <2>8, <2>12
<1> QED BY <1>2, <1>3, <1>4 DEF SessionOnChain

(* A session always has its next request on the wire, or its queue full, or
   nothing left to fetch, and never a chunk waiting without a task to verify it
   (request_headers and verify_next_header_chunk at the end of every handler). *)
THEOREM NeverIdle == SyncSpec => []FetchesAhead
<1>1. HeaderInv => FetchesAhead
  BY HeaderMeans
<1> QED BY <1>1, HeaderInit, HeaderStep, PTL DEF SyncSpec

(* Whatever sessions wrote the table of verified headers, it is one piece of one
   chain, and what the block phase starts from (maybe_start_blocks, resume_point)
   leaves our chain where it says, unless our chain moved under the session. *)
THEOREM StaysOnChain == SyncSpec => []SessionOnChain
<1>1. HeaderInv => SessionOnChain
  BY HeaderMeans
<1> QED BY <1>1, HeaderInit, HeaderStep, PTL DEF SyncSpec
=============================================================================
