-------------------------- MODULE PoolServerProofs --------------------------
(***************************************************************************)
(* Proofs about the mining pool's share log and jobs (PoolServer).         *)
(***************************************************************************)
EXTENDS PoolServer, FiniteFacts, SequenceTheorems

Share == [seq : Nat, owner : Miners, job : Nat, run : Nat, nonce : Nonces]
Work == [owner : Miners, job : Nat, run : Nat, nonce : Nonces]
WorkOf(s) == [owner |-> s.owner, job |-> s.job, run |-> s.run, nonce |-> s.nonce]
ProofOf(s) == [id |-> s.job, run |-> s.run]

\* A sequence, whatever is in it.
IsList(q) == q \in Seq({q[i] : i \in 1..Len(q)})
Within(q, S) == \A i \in 1..Len(q) : q[i] \in S
Ascends(q) == \A i, j \in 1..Len(q) : i < j => q[i].seq < q[j].seq
Listed(s, q) == \E i \in 1..Len(q) : q[i] = s
RecentJob(jobs, id) == \E i \in 1..Len(jobs) : jobs[i].id = id

\* Where the log begins, and below what every job taken so far is.
From == IF Len(log) = 0 THEN nextSeq ELSE log[1].seq
Fresh == IF stage = "publish" THEN draft.id ELSE nextJob

TypeInv ==
    /\ log \in Seq(Share) /\ nextSeq \in Nat /\ nextJob \in Nat /\ restarts \in Nat
    /\ disk \in [shares : SUBSET Share, owners : SUBSET Miners,
                 proofs : SUBSET [id : Nat, run : Nat]]
    /\ IsFiniteSet(disk.shares)
    /\ IsList(recent) /\ \A i \in 1..Len(recent) : recent[i].id \in Nat
    /\ verifying \subseteq Work
    /\ stage \in {"poll", "build", "publish", "prune"}

\* The disk holds the log, in the order of its numbers, and beside it only what
\* comes before the log.
LogInv ==
    /\ Within(log, disk.shares) /\ Ascends(log)
    /\ \A s \in disk.shares : s.seq < nextSeq /\ (s.seq >= From => Listed(s, log))
    /\ \A s, t \in disk.shares : s.seq = t.seq => s = t

\* Whoever has a share on the disk is known there.
OwnerInv ==
    /\ Owners(disk.shares) \subseteq disk.owners /\ known \subseteq disk.owners
    /\ \A i \in 1..Len(log) : log[i].owner \in known

\* Jobs are taken in order, and the next one is of no share, proof or job there is.
JobInv ==
    /\ \A i \in 1..Len(recent) : recent[i].id < Fresh /\ recent[i].run = restarts
    /\ \A i, j \in 1..Len(recent) : i < j => recent[i].id < recent[j].id
    /\ \A s \in disk.shares \cup verifying : s.job < Fresh
    /\ \A p \in disk.proofs : p.id < nextJob
    /\ stage \in {"build", "publish"} => draft.id \in Nat /\ draft.run = restarts
    /\ stage = "build" => draft.id = nextJob
    /\ stage = "publish" => nextJob = draft.id + 1
    /\ current # None => \E i \in 1..Len(recent) : recent[i] = current

\* Every job that may still get a share has its proof, and every share has.
ProofInv ==
    /\ \A i \in 1..Len(recent) : [id |-> recent[i].id, run |-> restarts] \in disk.proofs
    /\ \A s \in disk.shares : ProofOf(s) \in disk.proofs
    /\ stage = "publish" => [id |-> draft.id, run |-> restarts] \in disk.proofs

\* What is about to go from the disk is what the log has no use for.
PruneInv ==
    stage = "prune" =>
        /\ prune.from = From /\ prune.owners = known /\ prune.job \in Nat
        /\ \A owner \in known : \E i \in 1..Len(log) : log[i].owner = owner
        /\ \A i \in 1..Len(recent) : prune.job <= recent[i].id
        /\ \A i \in 1..Len(log) : prune.job <= log[i].job

\* Work is in one share at most, and never both there and being verified; while
\* its job is a recent one it is reserved.
WorkInv ==
    /\ \A s \in verifying : s.run = restarts
    /\ \A s, t \in disk.shares : WorkOf(s) = WorkOf(t) => s = t
    /\ \A s \in disk.shares : WorkOf(s) \notin verifying
    /\ \A s \in disk.shares : RecentJob(recent, s.job) => WorkOf(s) \in seen
    /\ \A s \in verifying : RecentJob(recent, s.job) => s \in seen

PoolInv ==
    /\ TypeInv /\ LogInv /\ OwnerInv /\ JobInv /\ ProofInv /\ PruneInv /\ WorkInv /\ up

------------------------------------------------------------------------------
\* A pruned log is the log without some of its oldest shares.
LEMMA PrunedIs ==
    ASSUME NEW S, log \in Seq(S), NEW from, NEW keep
    PROVE  \E n \in 0..Len(log) : Pruned(from, keep) = [i \in 1..(Len(log) - n) |-> log[n + i]]
<1> DEFINE kept == {i \in DOMAIN log : log[i].seq >= from \/ WeightFrom(i + 1) < keep}
<1>1. Len(log) \in Nat /\ DOMAIN log = 1..Len(log)
  OBVIOUS
<1>2. IsFiniteSet(1..Len(log)) /\ Cardinality(1..Len(log)) = Len(log)
  BY <1>1, FS_Interval
<1>3. kept \in SUBSET (1..Len(log))
  BY <1>1
<1>4. PICK k : k = Cardinality(kept)
  OBVIOUS
<1>5. k \in Nat /\ k <= Len(log)
  <2> HIDE DEF kept
  <2> QED BY <1>2, <1>3, <1>4, FS_Subset, FS_CardinalityType
<1>6. Pruned(from, keep) = [i \in 1..k |-> log[Len(log) - k + i]]
  BY <1>4 DEF Pruned
<1>7. PICK n : n = Len(log) - k
  OBVIOUS
<1>8. n \in 0..Len(log) /\ Len(log) - n = k
  BY <1>1, <1>5, <1>7
<1> QED BY <1>6, <1>7, <1>8

\* The least of a set of naturals.
LEMMA MinIs ==
    ASSUME NEW S, S \subseteq Nat, S # {}
    PROVE  Min(S) \in S /\ \A x \in S : Min(S) <= x
BY LeastExists DEF Min

\* The greatest of a set of naturals with a bound.
LEMMA MaxIs ==
    ASSUME NEW N \in Nat, NEW S, \A x \in S : x \in Nat /\ x < N, S # {}
    PROVE  Max(S) \in S /\ \A x \in S : x <= Max(S)
<1>1. S \subseteq 0..N
  OBVIOUS
<1>2. PICK x \in S : \A y \in S : x >= y
  BY <1>1, GreatestExists
<1>3. \A y \in S : y \in Nat
  OBVIOUS
<1> QED BY <1>2, <1>3 DEF Max

\* What is loaded from the disk is all that is there, in the order of its numbers.
Below(S, s) == {t \in S : t.seq < s.seq}
Numbered(S) ==
    /\ IsFiniteSet(S) /\ \A s \in S : s.seq \in Nat
    /\ \A s, t \in S : s.seq = t.seq => s = t

LEMMA RankGrows ==
    ASSUME NEW S, Numbered(S), NEW s \in S
    PROVE  /\ Cardinality(Below(S, s)) \in 0..(Cardinality(S) - 1)
           /\ \A t \in S : s.seq < t.seq => Cardinality(Below(S, s)) < Cardinality(Below(S, t))
<1>1. \A x \in S : Below(S, x) \in SUBSET S
  BY DEF Below
<1>2. IsFiniteSet(S) /\ \A x \in S : x.seq \in Nat
  BY DEF Numbered
<1>3. \A x \in S : IsFiniteSet(Below(S, x)) /\ Cardinality(Below(S, x)) \in Nat
  BY <1>1, <1>2, FS_Subset, FS_CardinalityType
<1>4. Cardinality(Below(S, s)) <= Cardinality(S) - 1
  <2>1. Below(S, s) \in SUBSET (S \ {s})
    BY <1>2 DEF Below
  <2>2. IsFiniteSet(S \ {s}) /\ Cardinality(S \ {s}) = Cardinality(S) - 1
    BY <1>2, FS_RemoveElement
  <2> QED BY <2>1, <2>2, FS_Subset
<1>5. ASSUME NEW t \in S, s.seq < t.seq
      PROVE  Cardinality(Below(S, s)) < Cardinality(Below(S, t))
  <2>1. Below(S, s) \in SUBSET Below(S, t)
    BY <1>2, <1>5 DEF Below
  <2>2. s \in Below(S, t) /\ s \notin Below(S, s)
    BY <1>2, <1>5 DEF Below
  <2>3. Cardinality(Below(S, s)) <= Cardinality(Below(S, t))
        /\ Cardinality(Below(S, t)) # Cardinality(Below(S, s))
    BY <2>1, <2>2, <1>3, FS_Subset
  <2> QED BY <2>3, <1>3
<1>6. Cardinality(S) \in Nat
  BY <1>2, FS_CardinalityType
<1> QED BY <1>3, <1>4, <1>5, <1>6

LEMMA InOrderIs ==
    ASSUME NEW S, Numbered(S)
    PROVE  /\ InOrder(S) \in Seq(S) /\ Ascends(InOrder(S))
           /\ \A s \in S : Listed(s, InOrder(S))
<1> DEFINE rank == [s \in S |-> Cardinality(Below(S, s))]
           n == Cardinality(S)
<1>1. n \in Nat /\ IsFiniteSet(S) /\ \A x \in S : x.seq \in Nat
  BY FS_CardinalityType DEF Numbered
<1>2. rank \in [S -> 0..(n - 1)]
  BY RankGrows
<1>3. ASSUME NEW s \in S, NEW t \in S, rank[s] = rank[t] PROVE s = t
  <2>1. ~(s.seq < t.seq) /\ ~(t.seq < s.seq)
    <3>1. rank[s] \in 0..(n - 1) /\ rank[t] \in 0..(n - 1)
      BY <1>2
    <3>2. s.seq < t.seq => rank[s] < rank[t]
      BY RankGrows
    <3>3. t.seq < s.seq => rank[t] < rank[s]
      BY RankGrows
    <3> QED BY <3>1, <3>2, <3>3, <1>3
  <2> QED BY <2>1, <1>1 DEF Numbered
<1>4. rank \in Surjection(S, 0..(n - 1))
  <2>1. rank \in Injection(S, 0..(n - 1))
    BY <1>2, <1>3 DEF Injection, IsInjective
  <2>2. IsFiniteSet(0..(n - 1)) /\ Cardinality(0..(n - 1)) = n
    BY <1>1, FS_Interval
  <2> HIDE DEF rank
  <2> QED BY <2>1, <2>2, FS_Injection
<1>5. ASSUME NEW i \in 1..n
      PROVE  InOrder(S)[i] \in S /\ rank[InOrder(S)[i]] = i - 1
  <2>1. i - 1 \in 0..(n - 1)
    BY <1>1
  <2>2. PICK s \in S : rank[s] = i - 1
    BY <2>1, <1>4 DEF Surjection
  <2>3. Cardinality({t \in S : t.seq < s.seq}) = i - 1
    BY <2>2 DEF Below
  <2>4. InOrder(S)[i] = CHOOSE x \in S : Cardinality({t \in S : t.seq < x.seq}) = i - 1
    BY <1>1 DEF InOrder
  <2>5. InOrder(S)[i] \in S
        /\ Cardinality({t \in S : t.seq < InOrder(S)[i].seq}) = i - 1
    BY <2>3, <2>4
  <2> QED BY <2>5 DEF Below
<1>6. PICK q : q = [i \in 1..n |->
                      CHOOSE x \in S : Cardinality({t \in S : t.seq < x.seq}) = i - 1]
  OBVIOUS
<1>7. q = InOrder(S)
  BY <1>6 DEF InOrder
<1>8. q \in Seq(S) /\ Len(q) = n
  <2>1. q \in [1..n -> S]
    BY <1>5, <1>6, <1>7
  <2> HIDE DEF n
  <2> QED BY <2>1, <1>1
<1>9. Ascends(q)
  <2>1. ASSUME NEW i \in 1..n, NEW j \in 1..n, i < j PROVE q[i].seq < q[j].seq
    <3>1. PICK a \in S, b \in S : a = q[i] /\ b = q[j]
      BY <1>5, <1>7
    <3>2. rank[a] = i - 1 /\ rank[b] = j - 1
      BY <3>1, <1>5, <1>7
    <3>3. rank[a] < rank[b]
      BY <3>2, <2>1, <1>1
    <3>4. ~(b.seq < a.seq)
      <4>1. rank[a] \in 0..(n - 1) /\ rank[b] \in 0..(n - 1)
        BY <1>2
      <4>2. b.seq < a.seq => rank[b] < rank[a]
        BY RankGrows
      <4> QED BY <4>1, <4>2, <3>3
    <3>5. a # b
      BY <3>2, <2>1, <1>1
    <3>6. a.seq # b.seq
      BY <3>5 DEF Numbered
    <3> QED BY <3>1, <3>4, <3>6, <1>1
  <2> QED BY <2>1, <1>8 DEF Ascends
<1>10. ASSUME NEW s \in S PROVE Listed(s, q)
  <2>1. PICK r \in 0..(n - 1) : r = rank[s]
    BY <1>2
  <2>2. r + 1 \in 1..n /\ (r + 1) - 1 = r
    BY <1>1
  <2>3. rank[q[r + 1]] = r /\ q[r + 1] \in S
    BY <2>2, <1>5, <1>7
  <2>4. q[r + 1] = s
    BY <2>1, <2>3, <1>3
  <2> QED BY <2>2, <2>4, <1>8 DEF Listed
<1> QED BY <1>7, <1>8, <1>9, <1>10

------------------------------------------------------------------------------
\* What the invariant is about.
shareLog == <<log, known, nextSeq, disk>>
jobs == <<nextJob, stage, draft, prune, current, recent>>
works == <<seen, verifying, restarts, up>>

LEMMA InitInv ==
    ASSUME Init
    PROVE  PoolInv
<1>1. TypeInv
  BY FS_EmptySet DEF Init, TypeInv, IsList
<1>2. LogInv /\ OwnerInv /\ JobInv /\ ProofInv /\ PruneInv /\ WorkInv /\ up
  BY DEF Init, LogInv, OwnerInv, JobInv, ProofInv, PruneInv, WorkInv, Within, Ascends, Owners
<1> QED BY <1>1, <1>2 DEF PoolInv

\* Steps of the job loop between its writes.
TurnsTo(from, to) == stage = from /\ stage' = to
LEMMA LoopKeeps ==
    ASSUME PoolInv, UNCHANGED <<shareLog, works, nextJob, recent>>,
           current' \in {current, None},
           \/ UNCHANGED <<stage, draft, prune>>
           \/ TurnsTo("build", "poll") \/ TurnsTo("prune", "poll")
           \/ TurnsTo("poll", "build") /\ draft'.id = nextJob /\ draft'.run = restarts
    PROVE  PoolInv'
<1> USE DEF shareLog, works
<1>1. From' = From /\ Fresh' = Fresh
  BY DEF From, Fresh, TurnsTo
<1>2. TypeInv'
  BY DEF PoolInv, TypeInv, TurnsTo
<1>3. LogInv' /\ OwnerInv'
  BY <1>1 DEF PoolInv, LogInv, OwnerInv, Within, Ascends, Listed, Owners
<1>4. JobInv'
  <2>1. nextJob \in Nat
    BY DEF PoolInv, TypeInv
  <2> QED BY <1>1, <2>1 DEF PoolInv, JobInv, TurnsTo
<1>5. ProofInv' /\ PruneInv' /\ WorkInv'
  BY <1>1 DEF PoolInv, ProofInv, PruneInv, WorkInv, TurnsTo, ProofOf, WorkOf, RecentJob
<1> QED BY <1>2, <1>3, <1>4, <1>5 DEF PoolInv

\* A proof more, of a job no share and no recent job is of.
LEMMA BuildKeeps ==
    ASSUME PoolInv, Build
    PROVE  PoolInv'
<1> USE DEF Build, logVars, shareVars
<1>1. PICK new : new = [id |-> draft.id, run |-> draft.run]
  OBVIOUS
<1>2. /\ stage = "build" /\ stage' = "publish" /\ draft.id = nextJob /\ nextJob \in Nat
      /\ draft.run = restarts /\ nextJob' = nextJob + 1 /\ restarts \in Nat
  BY DEF PoolInv, JobInv, TypeInv
<1>3. /\ disk'.shares = disk.shares /\ disk'.owners = disk.owners
      /\ disk'.proofs = {p \in disk.proofs : p.id # draft.id} \cup {new}
      /\ disk' \in [shares : SUBSET Share, owners : SUBSET Miners,
                    proofs : SUBSET [id : Nat, run : Nat]]
  <2>1. disk \in [shares : SUBSET Share, owners : SUBSET Miners,
                  proofs : SUBSET [id : Nat, run : Nat]]
    BY DEF PoolInv, TypeInv
  <2>2. new \in [id : Nat, run : Nat]
    BY <1>1, <1>2
  <2> QED BY <1>1, <2>1, <2>2
<1>4. From' = From /\ Fresh' = Fresh
  BY <1>2 DEF From, Fresh
<1>5. TypeInv'
  BY <1>2, <1>3 DEF PoolInv, TypeInv
<1>6. LogInv' /\ OwnerInv'
  BY <1>3, <1>4 DEF PoolInv, LogInv, OwnerInv, Within, Ascends, Listed, Owners
<1>7. JobInv'
  <2>1. \A p \in disk'.proofs : p.id < nextJob'
    <3>1. \A p \in disk.proofs : p.id < nextJob /\ p.id \in Nat
      BY DEF PoolInv, JobInv, TypeInv
    <3> QED BY <1>1, <1>2, <1>3, <3>1
  <2> QED BY <1>2, <1>3, <1>4, <2>1 DEF PoolInv, JobInv
<1>8. ProofInv'
  <2>1. \A i \in 1..Len(recent) : recent[i].id # draft.id
    BY <1>2 DEF PoolInv, JobInv, TypeInv, Fresh
  <2>2. \A s \in disk.shares : ProofOf(s).id # draft.id
    <3>1. \A s \in disk.shares : s.job \in Nat /\ s.job < nextJob
      BY <1>2 DEF PoolInv, JobInv, TypeInv, Fresh, Share
    <3> QED BY <1>2, <3>1 DEF ProofOf
  <2> QED BY <1>1, <1>2, <1>3, <2>1, <2>2 DEF PoolInv, ProofInv
<1>9. PruneInv' /\ WorkInv' /\ up'
  BY <1>2, <1>3 DEF PoolInv, PruneInv, WorkInv, RecentJob
<1> QED BY <1>5, <1>6, <1>7, <1>8, <1>9 DEF PoolInv

------------------------------------------------------------------------------
\* The jobs that shares are still taken for.
Latest(q, job) == IF Len(Append(q, job)) > RecentJobs THEN Tail(Append(q, job)) ELSE Append(q, job)
LEMMA LatestIs ==
    ASSUME PoolServerAssumption, NEW q, IsList(q), NEW job
    PROVE  \E n \in 0..Len(q) :
              /\ Latest(q, job) = [i \in 1..(Len(q) - n + 1) |->
                                      IF i = Len(q) - n + 1 THEN job ELSE q[n + i]]
              /\ IsList(Latest(q, job)) /\ Len(Latest(q, job)) = Len(q) - n + 1
<1>1. PICK S : q \in Seq(S) /\ job \in S
  <2>1. q \in Seq({q[i] : i \in 1..Len(q)} \cup {job})
    BY DEF IsList
  <2> QED BY <2>1
<1>2. PICK all : all = Append(q, job)
  OBVIOUS
<1>3. /\ all \in Seq(S) /\ Len(all) = Len(q) + 1 /\ Len(q) \in Nat /\ all[Len(q) + 1] = job
      /\ \A i \in 1..Len(q) : all[i] = q[i]
  BY <1>1, <1>2
<1>4. RecentJobs \in Nat \ {0}
  BY DEF PoolServerAssumption
<1>5. CASE ~(Len(all) > RecentJobs)
  <2>1. Latest(q, job) = all
    BY <1>2, <1>5 DEF Latest
  <2>2. all = [i \in 1..(Len(q) - 0 + 1) |-> IF i = Len(q) - 0 + 1 THEN job ELSE q[0 + i]]
    BY <1>3
  <2>3. IsList(all)
    BY <1>3 DEF IsList
  <2>4. 0 \in 0..Len(q) /\ Len(all) = Len(q) - 0 + 1
    BY <1>3
  <2> USE <2>4
  <2> WITNESS 0 \in 0..Len(q)
  <2> QED BY <2>1, <2>2, <2>3
<1>6. CASE Len(all) > RecentJobs
  <2>1. PICK last : last = Tail(all)
    OBVIOUS
  <2>2. Latest(q, job) = last
    BY <1>2, <1>6, <2>1 DEF Latest
  <2>3. Len(q) >= 1
    BY <1>3, <1>4, <1>6
  <2>4. /\ last \in Seq(S) /\ Len(last) = Len(q)
        /\ \A i \in 1..Len(q) : last[i] = all[i + 1]
    BY <1>3, <2>1, <2>3
  <2>5. last = [i \in 1..(Len(q) - 1 + 1) |-> IF i = Len(q) - 1 + 1 THEN job ELSE q[1 + i]]
    BY <1>3, <2>3, <2>4
  <2>6. IsList(last)
    BY <2>4 DEF IsList
  <2>7. 1 \in 0..Len(q) /\ Len(last) = Len(q) - 1 + 1
    BY <2>3, <2>4, <1>3
  <2> USE <2>7
  <2> WITNESS 1 \in 0..Len(q)
  <2> QED BY <2>2, <2>5, <2>6
<1> QED BY <1>5, <1>6

\* A published job is the newest recent one; the log keeps its newest shares, and
\* what goes from the disk is decided.
LEMMA PublishKeeps ==
    ASSUME PoolServerAssumption, PoolInv, Publish
    PROVE  PoolInv'
<1>1. /\ stage = "publish" /\ stage' = "prune" /\ current' = draft
      /\ nextSeq' = nextSeq /\ disk' = disk /\ nextJob' = nextJob /\ verifying' = verifying
      /\ restarts' = restarts /\ up' = up /\ recent' = Latest(recent, draft)
      /\ seen' = {w \in seen : \E i \in DOMAIN recent' : recent'[i].id = w.job}
  BY DEF Publish, Latest
<1>2. PICK n \in 0..Len(log) : log' = [i \in 1..(Len(log) - n) |-> log[n + i]]
  <2>1. log \in Seq(Share)
    BY DEF PoolInv, TypeInv
  <2> QED BY <2>1, PrunedIs DEF Publish
<1>3. /\ known' = Owners(ToSet(log'))
      /\ prune' = [from |-> IF log' = <<>> THEN nextSeq ELSE log'[1].seq,
                   job |-> FirstJob(ToSet(log'), recent'), owners |-> known']
  BY <1>1 DEF Publish, Latest
<1>4. PICK m \in 0..Len(recent) :
        /\ recent' = [i \in 1..(Len(recent) - m + 1) |->
                         IF i = Len(recent) - m + 1 THEN draft ELSE recent[m + i]]
        /\ IsList(recent') /\ Len(recent') = Len(recent) - m + 1
  <2>1. IsList(recent)
    BY DEF PoolInv, TypeInv
  <2> QED BY <1>1, <2>1, LatestIs
<1>5. Len(recent) \in Nat /\ Len(recent') \in Nat /\ Len(recent') >= 1
      /\ DOMAIN recent' = 1..Len(recent')
  <2>1. Len(recent) \in Nat
    BY DEF PoolInv, TypeInv, IsList
  <2> QED BY <2>1, <1>4
<1>6. draft.id \in Nat /\ draft.run = restarts /\ nextJob = draft.id + 1 /\ nextJob \in Nat
  BY <1>1 DEF PoolInv, JobInv, TypeInv
<1>7. ASSUME NEW i \in 1..Len(recent')
      PROVE  \/ i = Len(recent') /\ recent'[i] = draft
             \/ i < Len(recent') /\ m + i \in 1..Len(recent) /\ recent'[i] = recent[m + i]
  <2>1. PICK k : k = Len(recent) - m + 1
    OBVIOUS
  <2>2. k \in Nat /\ Len(recent') = k /\ i \in 1..k
    BY <2>1, <1>4, <1>5
  <2>3. recent' = [j \in 1..k |-> IF j = k THEN draft ELSE recent[m + j]]
    BY <2>1, <1>4
  <2>4. recent'[i] = IF i = k THEN draft ELSE recent[m + i]
    BY <2>2, <2>3
  <2>5. i # k => i < k /\ m + i \in 1..Len(recent)
    BY <2>1, <2>2, <1>5
  <2> QED BY <2>2, <2>4, <2>5
<1>8. /\ log' \in Seq(Share) /\ Len(log) \in Nat /\ Len(log') = Len(log) - n
      /\ DOMAIN log' = 1..Len(log')
      /\ \A i \in 1..Len(log') : n + i \in 1..Len(log) /\ log'[i] = log[n + i]
  <2>1. log \in Seq(Share)
    BY DEF PoolInv, TypeInv
  <2> QED BY <1>2, <2>1
<1>9. \A i \in 1..Len(recent) : recent[i].id \in Nat /\ recent[i].id < draft.id
  BY <1>1 DEF PoolInv, JobInv, TypeInv, Fresh
<1>10. TypeInv'
  <2>1. \A i \in 1..Len(recent') : recent'[i].id \in Nat
    BY <1>6, <1>7, <1>9
  <2> QED BY <1>1, <1>4, <1>8, <2>1 DEF PoolInv, TypeInv
<1>11. \A s \in disk.shares : s.seq \in Nat /\ s.seq < nextSeq /\ s.job \in Nat
                             /\ s.job < draft.id /\ s.owner \in Miners
  BY <1>1 DEF PoolInv, TypeInv, LogInv, JobInv, Fresh, Share
<1>12. LogInv'
  <2>1. Within(log', disk.shares)
    BY <1>8 DEF PoolInv, LogInv, Within
  <2>2. Ascends(log')
    <3>1. ASSUME NEW i \in 1..Len(log'), NEW j \in 1..Len(log'), i < j
          PROVE  log'[i].seq < log'[j].seq
      <4>1. n + i \in 1..Len(log) /\ n + j \in 1..Len(log) /\ n + i < n + j
        BY <1>8, <3>1
      <4>2. log[n + i].seq < log[n + j].seq
        BY <4>1 DEF PoolInv, LogInv, Ascends
      <4> QED BY <4>2, <1>8
    <3> QED BY <3>1 DEF Ascends
  <2>3. ASSUME NEW s \in disk.shares, s.seq >= From' PROVE Listed(s, log')
    <3>1. Len(log') # 0 /\ From' = log'[1].seq
      <4>1. nextSeq \in Nat /\ s.seq \in Nat /\ s.seq < nextSeq
        BY <1>11 DEF PoolInv, TypeInv
      <4>2. Len(log') = 0 => From' = nextSeq
        BY <1>1 DEF From
      <4>3. Len(log') # 0
        BY <4>1, <4>2, <2>3
      <4> QED BY <4>3 DEF From
    <3>2. 1 \in 1..Len(log') /\ n + 1 \in 1..Len(log) /\ log'[1] = log[n + 1]
      BY <3>1, <1>8
    <3>3. log[n + 1] \in disk.shares
      BY <3>2 DEF PoolInv, LogInv, Within
    <3>4. From = log[1].seq /\ 1 \in 1..Len(log)
      BY <3>2 DEF From
    <3>5. log[1].seq <= log[n + 1].seq
      <4>1. log[1] \in disk.shares
        BY <3>4 DEF PoolInv, LogInv, Within
      <4>2. 1 < n + 1 => log[1].seq < log[n + 1].seq
        BY <3>2, <3>4 DEF PoolInv, LogInv, Ascends
      <4>3. n = 0 \/ 1 < n + 1
        BY <1>8
      <4> QED BY <4>1, <4>2, <4>3, <3>3, <1>11
    <3>6. s.seq >= From
      <4>1. log[1].seq \in Nat /\ log[n + 1].seq \in Nat /\ s.seq \in Nat
        <5>1. log[1] \in disk.shares
          BY <3>4 DEF PoolInv, LogInv, Within
        <5> QED BY <5>1, <3>3, <1>11
      <4>2. s.seq >= log[n + 1].seq /\ From = log[1].seq
        BY <2>3, <3>1, <3>2, <3>4
      <4> QED BY <4>1, <4>2, <3>5
    <3>7. PICK k \in 1..Len(log) : log[k] = s
      BY <3>6 DEF PoolInv, LogInv, Listed
    <3>8. ~(k < n + 1)
      <4>1. k < n + 1 => log[k].seq < log[n + 1].seq
        BY <3>2, <3>7 DEF PoolInv, LogInv, Ascends
      <4> QED BY <4>1, <3>1, <3>2, <3>3, <3>7, <2>3, <1>11
    <3>9. k - n \in 1..Len(log') /\ n + (k - n) = k
      BY <3>7, <3>8, <1>8
    <3>10. log'[k - n] = s
      BY <3>7, <3>9, <1>8
    <3> QED BY <3>9, <3>10 DEF Listed
  <2>4. \A s, t \in disk.shares : s.seq = t.seq => s = t
    BY DEF PoolInv, LogInv
  <2> QED BY <1>1, <1>11, <2>1, <2>2, <2>3, <2>4 DEF LogInv
<1>13. known' = {log'[i].owner : i \in 1..Len(log')}
  BY <1>3, <1>8 DEF Owners, ToSet
<1>14. OwnerInv'
  <2>1. \A i \in 1..Len(log') : log'[i].owner \in known
    BY <1>8 DEF PoolInv, OwnerInv
  <2>2. known' \subseteq known
    BY <1>13, <2>1
  <2>3. \A i \in 1..Len(log') : log'[i].owner \in known'
    BY <1>13
  <2> QED BY <1>1, <2>2, <2>3 DEF PoolInv, OwnerInv
<1>15. JobInv'
  <2>1. Fresh' = draft.id + 1
    BY <1>1, <1>6 DEF Fresh
  <2>2. \A i \in 1..Len(recent') : recent'[i].id < Fresh' /\ recent'[i].run = restarts
    <3>1. \A i \in 1..Len(recent) : recent[i].run = restarts
      BY DEF PoolInv, JobInv
    <3>2. ASSUME NEW i \in 1..Len(recent')
          PROVE  recent'[i].id < Fresh' /\ recent'[i].run = restarts
      <4>1. CASE recent'[i] = draft
        BY <4>1, <2>1, <1>6
      <4>2. CASE m + i \in 1..Len(recent) /\ recent'[i] = recent[m + i]
        <5>1. recent[m + i].id \in Nat /\ recent[m + i].id < draft.id
          BY <4>2, <1>9
        <5> QED BY <4>2, <5>1, <2>1, <3>1, <1>6
      <4> QED BY <4>1, <4>2, <1>7
    <3> QED BY <3>2
  <2>3. ASSUME NEW i \in 1..Len(recent'), NEW j \in 1..Len(recent'), i < j
        PROVE  recent'[i].id < recent'[j].id
    <3>1. i < Len(recent') /\ m + i \in 1..Len(recent) /\ recent'[i] = recent[m + i]
      <4>1. PICK k : k = Len(recent')
        OBVIOUS
      <4>2. k \in Nat /\ j \in 1..k /\ i \in 1..k
        BY <4>1, <1>5
      <4>3. i # k
        BY <2>3, <4>2
      <4> QED BY <4>1, <4>3, <1>7
    <3>2. CASE recent'[j] = draft
      BY <3>1, <3>2, <1>9
    <3>3. CASE m + j \in 1..Len(recent) /\ recent'[j] = recent[m + j]
      <4>1. m + i < m + j
        BY <2>3, <1>5
      <4>2. recent[m + i].id < recent[m + j].id
        BY <3>1, <3>3, <4>1 DEF PoolInv, JobInv
      <4> QED BY <3>1, <3>3, <4>2
    <3> QED BY <3>2, <3>3, <1>7
  <2>4. \A s \in disk.shares \cup verifying : s.job < Fresh'
    <3>1. \A s \in disk.shares \cup verifying : s.job < draft.id /\ s.job \in Nat
      BY <1>1 DEF PoolInv, JobInv, Fresh, TypeInv, Share, Work
    <3> QED BY <2>1, <3>1, <1>6
  <2>5. \E i \in 1..Len(recent') : recent'[i] = current'
    <3>1. Len(recent') \in 1..Len(recent')
      BY <1>5
    <3>2. recent'[Len(recent')] = draft
      BY <3>1, <1>4
    <3> QED BY <3>1, <3>2, <1>1
  <2>6. \A p \in disk.proofs : p.id < nextJob
    BY DEF PoolInv, JobInv
  <2> QED BY <1>1, <2>2, <2>3, <2>4, <2>5, <2>6 DEF JobInv
<1>16. ProofInv'
  <2>1. \A i \in 1..Len(recent') : [id |-> recent'[i].id, run |-> restarts] \in disk.proofs
    <3>1. \A i \in 1..Len(recent) : [id |-> recent[i].id, run |-> restarts] \in disk.proofs
      BY DEF PoolInv, ProofInv
    <3>2. [id |-> draft.id, run |-> restarts] \in disk.proofs
      BY <1>1 DEF PoolInv, ProofInv
    <3> QED BY <3>1, <3>2, <1>7
  <2> QED BY <1>1, <2>1 DEF PoolInv, ProofInv
<1>17. PruneInv'
  <2>1. log' = <<>> <=> Len(log') = 0
    BY <1>8
  <2>2. prune'.from = From' /\ prune'.owners = known' /\ prune'.job = FirstJob(ToSet(log'), recent')
    BY <1>1, <1>3, <2>1 DEF From
  <2>3. PICK ids : ids = {s.job : s \in ToSet(log')} \cup {recent'[1].id}
    OBVIOUS
  <2>4. \A i \in 1..Len(log') : log'[i].job \in ids
    BY <2>3, <1>8 DEF ToSet
  <2>5. ids \subseteq Nat /\ ids # {}
    <3>1. \A i \in 1..Len(log') : log'[i].job \in Nat
      <4>1. \A i \in 1..Len(log') : log'[i] \in disk.shares
        BY <1>1, <1>12 DEF LogInv, Within
      <4> QED BY <4>1, <1>11
    <3>2. recent'[1].id \in Nat
      BY <1>5, <1>10 DEF TypeInv
    <3> QED BY <2>3, <3>1, <3>2, <1>8 DEF ToSet
  <2>6. prune'.job \in ids /\ \A x \in ids : prune'.job <= x
    BY <2>2, <2>3, <2>5, MinIs DEF FirstJob
  <2>7. ASSUME NEW i \in 1..Len(recent') PROVE prune'.job <= recent'[i].id
    <3>1. prune'.job <= recent'[1].id /\ prune'.job \in Nat
      BY <2>3, <2>5, <2>6
    <3>2. i = 1 \/ recent'[1].id < recent'[i].id
      <4>1. 1 \in 1..Len(recent') /\ (i = 1 \/ 1 < i)
        BY <1>5
      <4> QED BY <4>1, <1>15 DEF JobInv
    <3>3. recent'[1].id \in Nat /\ recent'[i].id \in Nat
      BY <1>5, <1>10 DEF TypeInv
    <3> QED BY <3>1, <3>2, <3>3
  <2>8. \A owner \in known' : \E i \in 1..Len(log') : log'[i].owner = owner
    BY <1>13
  <2>9. prune'.job \in Nat /\ \A i \in 1..Len(log') : prune'.job <= log'[i].job
    BY <2>4, <2>5, <2>6
  <2> QED BY <2>2, <2>7, <2>8, <2>9 DEF PruneInv
<1>18. WorkInv'
  <2>1. \A s \in disk.shares \cup verifying : s.job # draft.id
    <3>1. \A s \in disk.shares \cup verifying : s.job < draft.id /\ s.job \in Nat
      BY <1>1 DEF PoolInv, JobInv, Fresh, TypeInv, Share, Work
    <3> QED BY <3>1, <1>6
  <2>2. ASSUME NEW s \in disk.shares \cup verifying, RecentJob(recent', s.job)
        PROVE  RecentJob(recent, s.job)
    <3>1. PICK i \in 1..Len(recent') : recent'[i].id = s.job
      BY <2>2 DEF RecentJob
    <3>2. m + i \in 1..Len(recent) /\ recent'[i] = recent[m + i]
      BY <3>1, <2>1, <1>7
    <3> QED BY <3>1, <3>2 DEF RecentJob
  <2>3. \A w \in seen : RecentJob(recent', w.job) => w \in seen'
    BY <1>1, <1>5 DEF RecentJob
  <2>4. ASSUME NEW s \in disk.shares, RecentJob(recent', s.job) PROVE WorkOf(s) \in seen'
    <3>1. WorkOf(s) \in seen /\ WorkOf(s).job = s.job
      BY <2>2, <2>4 DEF PoolInv, WorkInv, WorkOf
    <3> QED BY <3>1, <2>3, <2>4
  <2>5. ASSUME NEW s \in verifying, RecentJob(recent', s.job) PROVE s \in seen'
    <3>1. s \in seen
      BY <2>2, <2>5 DEF PoolInv, WorkInv
    <3> QED BY <3>1, <2>3, <2>5
  <2> QED BY <1>1, <2>4, <2>5 DEF PoolInv, WorkInv
<1> QED BY <1>1, <1>10, <1>12, <1>14, <1>15, <1>16, <1>17, <1>18 DEF PoolInv

\* Pruning the disk leaves the log's shares there, and what they need.
LEMMA PruneKeeps ==
    ASSUME PoolInv, PruneDisk
    PROVE  PoolInv'
<1> USE DEF PruneDisk, logVars, shareVars
<1>1. CASE UNCHANGED disk
  <2>1. TurnsTo("prune", "poll")
    BY DEF TurnsTo
  <2> QED BY <1>1, <2>1, LoopKeeps DEF shareLog, works
<1>2. CASE disk' = [shares |-> {s \in disk.shares : s.seq >= prune.from},
                    owners |-> disk.owners \cap prune.owners,
                    proofs |-> {p \in disk.proofs : p.id >= prune.job}]
  <2>1. /\ stage = "prune" /\ stage' = "poll" /\ From' = From /\ Fresh' = Fresh
        /\ prune.from = From /\ prune.owners = known /\ prune.job \in Nat
    BY DEF From, Fresh, PoolInv, PruneInv
  <2>2. /\ disk'.shares \subseteq disk.shares /\ disk'.owners = disk.owners \cap known
        /\ disk'.proofs = {p \in disk.proofs : p.id >= prune.job}
        /\ \A s \in disk'.shares : s.seq >= From
        /\ \A s \in disk.shares : s.seq >= From => s \in disk'.shares
    BY <1>2, <2>1
  <2>3. disk \in [shares : SUBSET Share, owners : SUBSET Miners,
                  proofs : SUBSET [id : Nat, run : Nat]]
    BY DEF PoolInv, TypeInv
  <2>4. TypeInv'
    <3>1. disk' \in [shares : SUBSET Share, owners : SUBSET Miners,
                     proofs : SUBSET [id : Nat, run : Nat]]
      BY <1>2, <2>3
    <3>2. IsFiniteSet(disk'.shares)
      BY <2>2, FS_Subset DEF PoolInv, TypeInv
    <3> QED BY <2>1, <3>1, <3>2 DEF PoolInv, TypeInv
  <2>5. \A s \in disk'.shares : Listed(s, log)
    BY <2>2 DEF PoolInv, LogInv
  <2>6. \A i \in 1..Len(log) : log[i].seq >= From /\ log[i] \in disk.shares
    <3>1. ASSUME NEW i \in 1..Len(log) PROVE log[i].seq >= From /\ log[i] \in disk.shares
      <4>1. log[i] \in disk.shares /\ Len(log) # 0 /\ 1 \in 1..Len(log)
        BY DEF PoolInv, LogInv, Within, TypeInv
      <4>2. log[1] \in disk.shares /\ From = log[1].seq
        BY <4>1 DEF PoolInv, LogInv, Within, From
      <4>3. log[i].seq \in Nat /\ log[1].seq \in Nat
        BY <4>1, <4>2, <2>3 DEF Share
      <4>4. i = 1 \/ log[1].seq < log[i].seq
        <5>1. i = 1 \/ 1 < i
          OBVIOUS
        <5> QED BY <4>1, <5>1 DEF PoolInv, LogInv, Ascends
      <4> QED BY <4>1, <4>2, <4>3, <4>4
    <3> QED BY <3>1
  <2>7. LogInv'
    <3>1. Within(log, disk'.shares)
      BY <2>2, <2>6 DEF Within
    <3>2. \A s \in disk'.shares : s.seq < nextSeq /\ Listed(s, log)
      BY <2>2, <2>5 DEF PoolInv, LogInv
    <3>3. \A s, t \in disk'.shares : s.seq = t.seq => s = t
      BY <2>2 DEF PoolInv, LogInv
    <3>4. Ascends(log)
      BY DEF PoolInv, LogInv
    <3> QED BY <3>1, <3>2, <3>3, <3>4 DEF LogInv
  <2>8. OwnerInv'
    <3>1. known \subseteq disk.owners /\ \A i \in 1..Len(log) : log[i].owner \in known
      BY DEF PoolInv, OwnerInv
    <3>2. \A s \in disk'.shares : s.owner \in known
      BY <2>5, <3>1 DEF Listed
    <3> QED BY <2>2, <3>1, <3>2 DEF OwnerInv, Owners
  <2>9. JobInv'
    BY <2>1, <2>2 DEF PoolInv, JobInv
  <2>10. ProofInv'
    <3>1. ASSUME NEW i \in 1..Len(recent)
          PROVE  [id |-> recent[i].id, run |-> restarts] \in disk'.proofs
      <4>1. [id |-> recent[i].id, run |-> restarts] \in disk.proofs
            /\ recent[i].id >= prune.job
        <5>1. prune.job <= recent[i].id /\ recent[i].id \in Nat
          BY <2>1 DEF PoolInv, PruneInv, TypeInv
        <5> QED BY <2>1, <5>1 DEF PoolInv, ProofInv
      <4> QED BY <4>1, <2>2
    <3>2. ASSUME NEW s \in disk'.shares PROVE ProofOf(s) \in disk'.proofs
      <4>1. PICK i \in 1..Len(log) : log[i] = s
        BY <2>5 DEF Listed
      <4>2. prune.job <= s.job /\ s.job \in Nat
        BY <4>1, <2>1, <2>2, <2>3 DEF PoolInv, PruneInv, Share
      <4>3. ProofOf(s) \in disk.proofs /\ ProofOf(s).id = s.job
        BY <2>2 DEF PoolInv, ProofInv, ProofOf
      <4> QED BY <4>2, <4>3, <2>1, <2>2
    <3> QED BY <2>1, <3>1, <3>2 DEF ProofInv
  <2>11. PruneInv' /\ WorkInv' /\ up'
    BY <2>1, <2>2 DEF PoolInv, PruneInv, WorkInv
  <2> QED BY <2>4, <2>7, <2>8, <2>9, <2>10, <2>11 DEF PoolInv
<1> QED BY <1>1, <1>2

------------------------------------------------------------------------------
\* Work is reserved that no share has.
LEMMA SubmitKeeps ==
    ASSUME PoolInv, NEW m \in Miners, NEW nonce \in Nonces, Submit(m, nonce)
    PROVE  PoolInv'
<1>1. PICK work : work = [owner |-> m, job |-> current.id, run |-> current.run, nonce |-> nonce]
  OBVIOUS
<1>2. /\ current # None /\ work \notin seen
      /\ seen' = seen \cup {work} /\ verifying' = verifying \cup {work}
      /\ UNCHANGED <<shareLog, jobs, restarts, up>>
  BY <1>1 DEF Submit, New, logVars, loopVars, shareLog, jobs
<1> USE DEF shareLog, jobs
<1>3. PICK i \in 1..Len(recent) : recent[i] = current
  BY <1>2 DEF PoolInv, JobInv
<1>4. From' = From /\ Fresh' = Fresh
  BY <1>2 DEF From, Fresh
<1>5. /\ work \in Work /\ work.run = restarts /\ work.job < Fresh /\ work.job \in Nat
      /\ RecentJob(recent, work.job)
  <2>1. recent[i].id \in Nat /\ recent[i].run = restarts /\ restarts \in Nat
        /\ recent[i].id < Fresh
    BY DEF PoolInv, TypeInv, JobInv
  <2> QED BY <2>1, <1>1, <1>3 DEF Work, RecentJob
<1>6. TypeInv'
  BY <1>2, <1>5 DEF PoolInv, TypeInv
<1>7. LogInv' /\ OwnerInv' /\ ProofInv' /\ PruneInv'
  BY <1>2, <1>4 DEF PoolInv, LogInv, OwnerInv, ProofInv, PruneInv
<1>8. JobInv'
  BY <1>2, <1>4, <1>5 DEF PoolInv, JobInv
<1>9. WorkInv'
  <2>1. ASSUME NEW s \in disk.shares PROVE WorkOf(s) # work
    <3>1. WorkOf(s) = work => RecentJob(recent, s.job)
      BY <1>5 DEF WorkOf
    <3>2. RecentJob(recent, s.job) => WorkOf(s) \in seen
      BY DEF PoolInv, WorkInv
    <3> QED BY <3>1, <3>2, <1>2
  <2> QED BY <1>2, <1>5, <2>1 DEF PoolInv, WorkInv
<1> QED BY <1>2, <1>6, <1>7, <1>8, <1>9 DEF PoolInv

\* A verification that ends without a share; what was invalid may be sent again.
LEMMA DropKeeps ==
    ASSUME PoolInv, NEW s \in verifying, verifying' = verifying \ {s},
           seen' = seen \/ seen' = seen \ {s}, UNCHANGED <<shareLog, jobs, restarts, up>>
    PROVE  PoolInv'
<1> USE DEF shareLog, jobs
<1>1. From' = From /\ Fresh' = Fresh
  BY DEF From, Fresh
<1>2. TypeInv'
  BY DEF PoolInv, TypeInv
<1>3. LogInv' /\ OwnerInv' /\ ProofInv' /\ PruneInv'
  BY <1>1 DEF PoolInv, LogInv, OwnerInv, ProofInv, PruneInv
<1>4. JobInv'
  BY <1>1 DEF PoolInv, JobInv
<1>5. WorkInv'
  BY DEF PoolInv, WorkInv
<1> QED BY <1>2, <1>3, <1>4, <1>5 DEF PoolInv

\* A verified share is credited.
LEMMA AppendKeeps ==
    ASSUME Raced = FALSE, PoolInv, NEW s \in verifying, Creditable(s),
           AppendShare(ShareOf(s)), verifying' = verifying \ {s},
           UNCHANGED <<jobs, seen, restarts, up>>
    PROVE  PoolInv'
<1> USE DEF jobs
<1>1. PICK share : share = ShareOf(s)
  OBVIOUS
<1>2. /\ s \in Work /\ nextSeq \in Nat /\ s.run = restarts /\ s.job < Fresh
      /\ disk \in [shares : SUBSET Share, owners : SUBSET Miners,
                   proofs : SUBSET [id : Nat, run : Nat]]
      /\ log \in Seq(Share) /\ Len(log) \in Nat
  BY DEF PoolInv, TypeInv, WorkInv, JobInv
<1>3. /\ share \in Share /\ share.seq = nextSeq /\ share.owner = s.owner /\ share.job = s.job
      /\ WorkOf(share) = s /\ ProofOf(share) = [id |-> s.job, run |-> restarts]
  BY <1>1, <1>2 DEF ShareOf, WorkOf, ProofOf, Share, Work
<1>4. /\ log' = Append(log, share) /\ known' = known \cup {share.owner}
      /\ nextSeq' = nextSeq + 1
      /\ disk'.shares = disk.shares \cup {share} /\ disk'.proofs = disk.proofs
      /\ disk'.owners = IF share.owner \in known THEN disk.owners
                        ELSE disk.owners \cup {share.owner}
      /\ disk' \in [shares : SUBSET Share, owners : SUBSET Miners,
                    proofs : SUBSET [id : Nat, run : Nat]]
  <2>1. share.owner \in Miners
    BY <1>3 DEF Share
  <2> QED BY <1>1, <1>2, <1>3, <2>1 DEF AppendShare
<1>5. /\ log' \in Seq(Share) /\ Len(log') = Len(log) + 1 /\ log'[Len(log) + 1] = share
      /\ \A i \in 1..Len(log) : log'[i] = log[i]
  BY <1>2, <1>3, <1>4
<1>6. From' = From /\ Fresh' = Fresh
  BY <1>2, <1>3, <1>5 DEF From, Fresh
<1>7. ASSUME NEW i \in 1..Len(log')
      PROVE  \/ i = Len(log) + 1 /\ log'[i] = share
             \/ i \in 1..Len(log) /\ log'[i] = log[i]
  BY <1>2, <1>5
<1>8. \A d \in disk.shares : d.seq \in Nat /\ d.seq < nextSeq
  BY <1>2 DEF PoolInv, LogInv, Share
<1>9. TypeInv'
  <2>1. IsFiniteSet(disk'.shares)
    <3>1. IsFiniteSet(disk.shares)
      BY DEF PoolInv, TypeInv
    <3>2. IsFiniteSet(disk.shares \cup {share})
      BY <3>1, FS_AddElement
    <3> QED BY <3>2, <1>4
  <2> QED BY <1>2, <1>4, <1>5, <2>1 DEF PoolInv, TypeInv
<1>10. LogInv'
  <2>1. Within(log', disk'.shares)
    BY <1>4, <1>7 DEF PoolInv, LogInv, Within
  <2>2. ASSUME NEW i \in 1..Len(log'), NEW j \in 1..Len(log'), i < j
        PROVE  log'[i].seq < log'[j].seq
    <3>1. i \in 1..Len(log) /\ log'[i] = log[i] /\ log[i] \in disk.shares
      <4>1. i \in 1..Len(log)
        BY <2>2, <1>2, <1>5
      <4> QED BY <4>1, <1>5 DEF PoolInv, LogInv, Within
    <3>2. CASE log'[j] = share
      BY <3>1, <3>2, <1>3, <1>8
    <3>3. CASE j \in 1..Len(log) /\ log'[j] = log[j]
      BY <2>2, <3>1, <3>3 DEF PoolInv, LogInv, Ascends
    <3> QED BY <3>2, <3>3, <1>7
  <2>3. ASSUME NEW d \in disk'.shares
        PROVE  d.seq < nextSeq' /\ (d.seq >= From' => Listed(d, log'))
    <3>1. CASE d = share
      <4>1. Len(log) + 1 \in 1..Len(log')
        BY <1>2, <1>5
      <4> QED BY <3>1, <4>1, <1>2, <1>3, <1>4, <1>5 DEF Listed
    <3>2. CASE d \in disk.shares
      <4>1. d.seq < nextSeq'
        BY <3>2, <1>2, <1>4, <1>8
      <4>2. ASSUME d.seq >= From PROVE Listed(d, log')
        <5>1. PICK i \in 1..Len(log) : log[i] = d
          BY <3>2, <4>2 DEF PoolInv, LogInv, Listed
        <5>2. i \in 1..Len(log') /\ log'[i] = d
          BY <5>1, <1>2, <1>5
        <5> QED BY <5>2 DEF Listed
      <4> QED BY <4>1, <4>2, <1>6
    <3> QED BY <3>1, <3>2, <1>4
  <2>4. ASSUME NEW d \in disk'.shares, NEW e \in disk'.shares, d.seq = e.seq PROVE d = e
    <3>1. d \in disk.shares /\ e \in disk.shares => d = e
      BY <2>4 DEF PoolInv, LogInv
    <3>2. \A x \in disk.shares : x.seq # share.seq
      BY <1>2, <1>3, <1>8
    <3> QED BY <2>4, <3>1, <3>2, <1>4
  <2>5. Ascends(log')
    BY <2>2 DEF Ascends
  <2> QED BY <2>1, <2>3, <2>4, <2>5 DEF LogInv
<1>11. OwnerInv'
  <2>1. known \subseteq disk.owners /\ \A d \in disk.shares : d.owner \in disk.owners
    BY DEF PoolInv, OwnerInv, Owners
  <2>2. known' \subseteq disk'.owners /\ share.owner \in disk'.owners
    BY <1>4, <2>1
  <2>3. \A d \in disk'.shares : d.owner \in disk'.owners
    BY <1>4, <2>1, <2>2
  <2>4. \A i \in 1..Len(log') : log'[i].owner \in known'
    BY <1>4, <1>7 DEF PoolInv, OwnerInv
  <2> QED BY <2>2, <2>3, <2>4 DEF OwnerInv, Owners
<1>12. JobInv'
  <2>1. \A d \in disk'.shares \cup verifying' : d.job < Fresh
    BY <1>2, <1>3, <1>4 DEF PoolInv, JobInv
  <2> QED BY <1>4, <1>6, <2>1 DEF PoolInv, JobInv
<1>13. RecentJob(recent, s.job)
  <2>1. Len(recent) \in Nat /\ DOMAIN recent = 1..Len(recent)
    BY DEF PoolInv, TypeInv, IsList
  <2> QED BY <2>1 DEF Creditable, RecentJob
<1>14. ProofInv'
  <2>1. ProofOf(share) \in disk.proofs
    BY <1>3, <1>13 DEF PoolInv, ProofInv, RecentJob
  <2> QED BY <1>4, <2>1 DEF PoolInv, ProofInv
<1>15. PruneInv'
  BY DEF Creditable, PruneInv
<1>16. WorkInv'
  <2>1. \A d \in disk.shares : WorkOf(d) # s
    BY DEF PoolInv, WorkInv
  <2>2. s \in seen
    BY <1>13 DEF PoolInv, WorkInv
  <2>3. \A d, e \in disk'.shares : WorkOf(d) = WorkOf(e) => d = e
    <3>1. \A d, e \in disk.shares : WorkOf(d) = WorkOf(e) => d = e
      BY DEF PoolInv, WorkInv
    <3> QED BY <3>1, <1>3, <1>4, <2>1
  <2>4. \A d \in disk'.shares : WorkOf(d) \notin verifying'
    BY <1>3, <1>4 DEF PoolInv, WorkInv
  <2>5. \A d \in disk'.shares : RecentJob(recent, d.job) => WorkOf(d) \in seen
    BY <1>3, <1>4, <2>2 DEF PoolInv, WorkInv
  <2> QED BY <2>3, <2>4, <2>5 DEF PoolInv, WorkInv
<1> QED BY <1>9, <1>10, <1>11, <1>12, <1>14, <1>15, <1>16 DEF PoolInv

\* The pool starts again from its disk, whatever it was doing.
LEMMA RestartKeeps ==
    ASSUME PoolInv, Restart
    PROVE  PoolInv'
<1>1. PICK S, ids : S = disk.shares /\ ids = {s.job : s \in S} \cup {p.id : p \in disk.proofs}
  OBVIOUS
<1>2. /\ restarts' = restarts + 1 /\ up' = Loads /\ log' = InOrder(S) /\ known' = disk.owners
      /\ nextSeq' = IF S = {} THEN 0 ELSE Max({s.seq : s \in S}) + 1
      /\ nextJob' = IF ids = {} THEN 1 ELSE Max(ids) + 1
      /\ stage' = "poll" /\ current' = None /\ recent' = <<>> /\ seen' = {}
      /\ verifying' = {} /\ disk' = disk
  BY <1>1 DEF Restart
<1>3. /\ nextSeq \in Nat /\ nextJob \in Nat /\ restarts \in Nat /\ IsFiniteSet(S)
      /\ S \subseteq Share
      /\ disk \in [shares : SUBSET Share, owners : SUBSET Miners,
                   proofs : SUBSET [id : Nat, run : Nat]]
  BY <1>1 DEF PoolInv, TypeInv
<1>4. \A s \in S : s.seq \in Nat /\ s.seq < nextSeq /\ s.job \in Nat /\ s.job < nextJob
                   /\ s.owner \in Miners
  <2>1. \A s \in S : s.seq \in Nat /\ s.seq < nextSeq /\ s.job \in Nat /\ s.owner \in Miners
    BY <1>1, <1>3 DEF PoolInv, LogInv, Share
  <2>2. Fresh <= nextJob /\ Fresh \in Nat
    BY <1>3 DEF Fresh, PoolInv, JobInv
  <2>3. \A s \in S : s.job < Fresh
    BY <1>1 DEF PoolInv, JobInv
  <2> QED BY <1>3, <2>1, <2>2, <2>3
<1>5. Numbered(S)
  BY <1>1, <1>3, <1>4 DEF Numbered, PoolInv, LogInv
<1>6. log' \in Seq(S) /\ Ascends(log') /\ \A s \in S : Listed(s, log')
  BY <1>2, <1>5, InOrderIs
<1>7. nextSeq' \in Nat /\ \A s \in S : s.seq < nextSeq'
  <2>1. CASE S = {}
    BY <2>1, <1>2
  <2>2. CASE S # {}
    <3>1. PICK seqs : seqs = {s.seq : s \in S}
      OBVIOUS
    <3>2. (\A x \in seqs : x \in Nat /\ x < nextSeq) /\ seqs # {}
      BY <2>2, <3>1, <1>4
    <3>3. Max(seqs) \in seqs /\ \A x \in seqs : x <= Max(seqs)
      BY <3>2, <1>3, MaxIs
    <3>4. nextSeq' = Max(seqs) + 1 /\ Max(seqs) \in Nat
      BY <2>2, <3>1, <3>2, <3>3, <1>2
    <3>5. \A s \in S : s.seq \in seqs
      BY <3>1
    <3> QED BY <3>3, <3>4, <3>5, <1>4
  <2> QED BY <2>1, <2>2
<1>8. /\ nextJob' \in Nat /\ \A s \in S : s.job < nextJob'
      /\ \A p \in disk.proofs : p.id < nextJob'
  <2>1. \A x \in ids : x \in Nat /\ x < nextJob
    <3>1. \A p \in disk.proofs : p.id \in Nat /\ p.id < nextJob
      BY <1>3 DEF PoolInv, JobInv
    <3> QED BY <3>1, <1>1, <1>4
  <2>2. (\A s \in S : s.job \in ids) /\ (\A p \in disk.proofs : p.id \in ids)
    BY <1>1
  <2>3. CASE ids = {}
    BY <2>2, <2>3, <1>2
  <2>4. CASE ids # {}
    <3>1. Max(ids) \in ids /\ \A x \in ids : x <= Max(ids)
      BY <2>1, <2>4, <1>3, MaxIs
    <3>2. nextJob' = Max(ids) + 1 /\ Max(ids) \in Nat
      BY <2>1, <2>4, <3>1, <1>2
    <3> QED BY <2>1, <2>2, <3>1, <3>2
  <2> QED BY <2>3, <2>4
<1>9. Len(recent') = 0 /\ 1..Len(recent') = {} /\ IsList(recent') /\ Fresh' = nextJob'
  BY <1>2 DEF IsList, Fresh
<1>10. log' \in Seq(Share) /\ Len(log') \in Nat
  BY <1>3, <1>6
<1>11. TypeInv'
  <2>1. IsFiniteSet(disk'.shares)
    BY <1>1, <1>2, <1>3
  <2>2. restarts' \in Nat
    BY <1>2, <1>3
  <2>3. \A i \in 1..Len(recent') : recent'[i].id \in Nat
    BY <1>9
  <2>4. disk' \in [shares : SUBSET Share, owners : SUBSET Miners,
                   proofs : SUBSET [id : Nat, run : Nat]]
    BY <1>2, <1>3
  <2> QED BY <1>2, <1>7, <1>8, <1>9, <1>10, <2>1, <2>2, <2>3, <2>4 DEF TypeInv
<1>12. LogInv'
  <2>1. Within(log', S)
    BY <1>6 DEF Within
  <2>2. \A s, t \in S : s.seq = t.seq => s = t
    BY <1>5 DEF Numbered
  <2> QED BY <1>1, <1>2, <1>6, <1>7, <2>1, <2>2 DEF LogInv
<1>13. OwnerInv' /\ up'
  <2>1. Owners(S) \subseteq disk.owners
    BY <1>1 DEF PoolInv, OwnerInv
  <2>2. \A i \in 1..Len(log') : log'[i].owner \in disk.owners
    BY <1>6, <2>1 DEF Owners
  <2> QED BY <1>1, <1>2, <2>1, <2>2 DEF OwnerInv, Loads
<1>14. JobInv'
  BY <1>1, <1>2, <1>8, <1>9 DEF JobInv
<1>15. ProofInv' /\ PruneInv' /\ WorkInv'
  <2>1. \A s, t \in disk.shares : WorkOf(s) = WorkOf(t) => s = t
    BY DEF PoolInv, WorkInv
  <2>2. \A s \in disk.shares : ProofOf(s) \in disk.proofs
    BY DEF PoolInv, ProofInv
  <2> QED BY <1>2, <1>9, <2>1, <2>2 DEF ProofInv, PruneInv, WorkInv, RecentJob
<1> QED BY <1>11, <1>12, <1>13, <1>14, <1>15 DEF PoolInv

------------------------------------------------------------------------------
LEMMA StepInv ==
    ASSUME PoolServerAssumption, Raced = FALSE, PoolInv, [Next]_vars
    PROVE  PoolInv'
<1> USE DEF logVars, loopVars, shareVars, shareLog, jobs, works
<1>1. CASE PollSyncing \/ (\E m \in Watched : Connect(m) \/ Audit(m))
           \/ (\E j \in sealed : BlockRejected(j)) \/ (\E t \in Tips : TipMoves(t))
           \/ UNCHANGED vars
  <2>1. UNCHANGED <<shareLog, works, nextJob, recent, stage, draft, prune>>
        /\ current' \in {current, None}
    BY <1>1 DEF PollSyncing, Connect, Audit, BlockRejected, TipMoves, vars
  <2> QED BY <2>1, LoopKeeps
<1>2. CASE Poll
  BY <1>2, LoopKeeps DEF Poll, TurnsTo
<1>3. CASE Build
  BY <1>3, BuildKeeps
<1>4. CASE BuildFails
  BY <1>4, LoopKeeps DEF BuildFails, TurnsTo
<1>5. CASE Publish
  BY <1>5, PublishKeeps
<1>6. CASE PruneDisk
  BY <1>6, PruneKeeps
<1>7. CASE Restart
  BY <1>7, RestartKeeps
<1>8. ASSUME NEW m \in Miners, NEW n \in Nonces, Submit(m, n) PROVE PoolInv'
  BY <1>8, SubmitKeeps
<1>9. ASSUME NEW s \in verifying, Invalid(s) PROVE PoolInv'
  BY <1>9, DropKeeps DEF Invalid
<1>10. ASSUME NEW s \in verifying, CutOff(s) PROVE PoolInv'
  <2>1. CASE UNCHANGED <<logVars, disk>>
    BY <1>10, <2>1, DropKeeps DEF CutOff
  <2>2. CASE Creditable(s) /\ AppendShare(ShareOf(s))
    BY <1>10, <2>2, AppendKeeps DEF CutOff
  <2> QED BY <1>10, <2>1, <2>2 DEF CutOff
<1>11. ASSUME NEW s \in verifying, NEW b \in BOOLEAN, Credit(s, b) PROVE PoolInv'
  BY <1>11, AppendKeeps DEF Credit
<1> QED BY <1>1, <1>2, <1>3, <1>4, <1>5, <1>6, <1>7, <1>8, <1>9, <1>10, <1>11 DEF Next

\* The invariant says what is promised.
LEMMA InvPromises ==
    ASSUME PoolInv
    PROVE  SharesOutliveRestart /\ CountedOnce
<1>1. Len(log) \in Nat /\ DOMAIN log = 1..Len(log)
  BY DEF PoolInv, TypeInv
<1>2. \A i \in 1..Len(log) : log[i] \in disk.shares /\ log[i].seq \in Nat
  BY DEF PoolInv, TypeInv, LogInv, Within, Share
<1>3. SharesOutliveRestart
  <2>1. \A s \in ToSet(log) : s \in disk.shares
    BY <1>1, <1>2 DEF ToSet
  <2> QED BY <2>1 DEF PoolInv, OwnerInv, ProofInv, ProofOf, SharesOutliveRestart, Loads
<1>4. CountedOnce
  <2>1. ASSUME NEW i \in 1..Len(log), NEW j \in 1..Len(log), i # j,
               <<log[i].owner, log[i].job, log[i].run, log[i].nonce>>
                   = <<log[j].owner, log[j].job, log[j].run, log[j].nonce>>
        PROVE  FALSE
    <3>1. WorkOf(log[i]) = WorkOf(log[j])
      BY <2>1 DEF WorkOf
    <3>2. log[i] = log[j]
      BY <3>1, <1>2 DEF PoolInv, WorkInv
    <3>3. i < j \/ j < i
      BY <2>1
    <3>4. log[i].seq < log[j].seq \/ log[j].seq < log[i].seq
      BY <3>3 DEF PoolInv, LogInv, Ascends
    <3> QED BY <3>2, <3>4, <1>2
  <2> QED BY <1>1, <2>1 DEF CountedOnce
<1> QED BY <1>3, <1>4

\* Whatever stops the pool, it starts again with every share it still counts, on
\* the disk with the proof of the job it was mined on, and no work is counted
\* twice, while no share is credited between a pruning of the log and that of the
\* disk (ShareLog, prune_db, open_db, precheck_share, finish_share).
THEOREM SharesStay ==
    ASSUME PoolServerAssumption, Raced = FALSE
    PROVE  Spec => []SharesKept
<1>1. Init => PoolInv
  BY InitInv
<1>2. PoolInv /\ [Next]_vars => PoolInv'
  BY StepInv
<1>3. PoolInv => SharesKept
  BY InvPromises DEF SharesKept
<1> QED BY <1>1, <1>2, <1>3, PTL DEF Spec

------------------------------------------------------------------------------
(***************************************************************************)
(* A miner that keeps up: it audits each job before the next is published. *)
(***************************************************************************)
\* A tip's windows are a record, which None is not.
NoneIsNothing == \A t, p, n : [tip |-> t, paying |-> p, next |-> n] # None

\* A window on trial: its shares are in the log, and so is whatever a connected
\* miner was credited with between its ends.
WindowOk(w) ==
    /\ w.start \in Nat /\ w.end \in Nat /\ w.end <= nextSeq
    /\ \A s \in w.shares : Listed(s, log) /\ w.start <= s.seq
    /\ \A m \in Watched : Credits(m, w)

\* What a miner counts on is in the log, or older than the log.
MineInv ==
    \A m \in Watched : \A n \in conn[m].mine :
        /\ n \in Nat /\ n < nextSeq
        /\ n >= From => \E i \in 1..Len(log) : log[i].seq = n /\ log[i].owner = m

\* The job being made moves its windows on from what is published.
MovesOn(old, job) ==
    IF old.tip = job.tip THEN job.paying = old.paying /\ job.next = old.next
    ELSE job.paying = old.next
Making == stage \in {"build", "publish"}
WindowInv ==
    /\ published # None => WindowOk(published.paying) /\ WindowOk(published.next)
    /\ Making => /\ WindowOk(draft.paying) /\ WindowOk(draft.next)
                 /\ published # None => MovesOn(published, draft)

\* What a miner was sent last, or has yet to audit, is of the published windows.
AsPublished(job) ==
    /\ published # None /\ published.tip = job.tip
    /\ published.paying = job.paying /\ published.next = job.next
Awaits(m) ==
    /\ Len(conn[m].queue) = 1 /\ AsPublished(conn[m].queue[1])
    /\ Chained(conn[m].last, conn[m].queue[1])
    /\ \E i \in 1..Len(recent) : recent[i] = conn[m].queue[1]
IsLine(c) ==
    /\ c = [queue |-> c.queue, last |-> c.last, mine |-> c.mine, failed |-> c.failed, on |-> c.on]
    /\ IsList(c.queue)
LineInv(m) ==
    /\ IsLine(conn[m]) /\ ~conn[m].failed
    /\ ~conn[m].on => conn[m].queue = <<>> /\ conn[m].last = None
    /\ conn[m].queue # <<>> => Awaits(m)
    /\ conn[m].queue = <<>> /\ conn[m].last # None => AsPublished(conn[m].last)
IsConn(c) == c = [m \in Watched |-> c[m]]
ConnInv ==
    /\ IsConn(conn) /\ \A m \in Watched : LineInv(m)
    /\ current # None => AsPublished(current)

AuditInv == PoolInv /\ MineInv /\ WindowInv /\ ConnInv

\* The windows stay good while the log keeps their shares and miners are credited
\* with new ones.
LEMMA WindowStays ==
    ASSUME NEW w, WindowOk(w), nextSeq \in Nat, nextSeq' \in Nat, nextSeq <= nextSeq',
           \A s \in w.shares : Listed(s, log'),
           \A m \in Watched : \A n \in conn'[m].mine : n \in conn[m].mine \/ n = nextSeq
    PROVE  WindowOk(w)'
<1>1. w.start \in Nat /\ w.end \in Nat /\ w.end <= nextSeq'
  BY DEF WindowOk
<1>2. \A s \in w.shares : Listed(s, log') /\ w.start <= s.seq
  BY DEF WindowOk
<1>3. ASSUME NEW m \in Watched, NEW n \in conn'[m].mine, n \in w.start..w.end - 1
      PROVE  \E s \in w.shares : s.seq = n /\ s.owner = m
  <2>1. n # nextSeq
    BY <1>3 DEF WindowOk
  <2> QED BY <1>3, <2>1 DEF WindowOk, Credits
<1> QED BY <1>1, <1>2, <1>3 DEF WindowOk, Credits

\* The newest shares are such a window.
LEMMA WindowIs ==
    ASSUME PoolInv, MineInv, NEW w, w = Window
    PROVE  WindowOk(w)
<1> DEFINE full == {i \in DOMAIN log : WeightFrom(i) >= WindowSize}
           first == IF full = {} THEN 1 ELSE Max(full)
<1>1. log \in Seq(Share) /\ Len(log) \in Nat /\ DOMAIN log = 1..Len(log) /\ nextSeq \in Nat
  BY DEF PoolInv, TypeInv
<1>2. \A i \in 1..Len(log) : log[i].seq \in Nat /\ log[i].seq < nextSeq
  BY <1>1 DEF PoolInv, LogInv, TypeInv, Within, Share
<1>3. /\ w.start = IF log = <<>> THEN nextSeq ELSE SubSeq(log, first, Len(log))[1].seq
      /\ w.end = nextSeq /\ w.shares = ToSet(SubSeq(log, first, Len(log)))
  BY DEF Window
<1>4. CASE log = <<>>
  <2>1. Len(log) = 0
    BY <1>4
  <2>2. first = 1
    <3>1. full = {}
      BY <1>1, <2>1
    <3> QED BY <3>1
  <2>3. SubSeq(log, 1, 0) = <<>>
    BY <1>1, <2>1
  <2>4. w.shares = {} /\ w.start = nextSeq
    BY <1>3, <1>4, <2>1, <2>2, <2>3 DEF ToSet
  <2>5. w.start = nextSeq /\ w.end = nextSeq /\ nextSeq \in Nat
    BY <1>1, <1>3, <2>4
  <2>6. \A n \in w.start..w.end - 1 : FALSE
    BY ONLY <2>5
  <2>7. \A m \in Watched : Credits(m, w)
    BY <2>6 DEF Credits
  <2> QED BY ONLY <2>4, <2>5, <2>7 DEF WindowOk
<1>5. CASE log # <<>>
  <2>1. Len(log) >= 1
    BY <1>1, <1>5
  <2>2. PICK f \in 1..Len(log) : f = first
    <3>1. full \subseteq 1..Len(log)
      BY <1>1
    <3>2. CASE full = {}
      BY <2>1, <3>2, <1>1
    <3>3. CASE full # {}
      <4>1. \A x \in full : x \in Nat /\ x < Len(log) + 1
        BY <3>1, <1>1
      <4>2. Max(full) \in full
        <5> HIDE DEF full
        <5> QED BY <3>3, <4>1, <1>1, MaxIs
      <4> QED BY <3>1, <3>3, <4>2
    <3> QED BY <3>2, <3>3
  <2>3. PICK q : q = SubSeq(log, f, Len(log))
    OBVIOUS
  <2>4. /\ q \in Seq(Share) /\ Len(q) = Len(log) - f + 1
        /\ \A i \in 1..Len(q) : q[i] = log[f + i - 1]
    <3>1. f \in 1..Len(log) + 1 /\ Len(log) \in f - 1..Len(log)
      BY <1>1, <2>2
    <3> QED BY <1>1, <2>3, <3>1, SubSeqProperties
  <2>5. w.start = log[f].seq /\ w.end = nextSeq /\ w.shares = ToSet(q)
    <3>1. 1 \in 1..Len(q) /\ f + 1 - 1 = f
      BY <1>1, <2>2, <2>4
    <3>2. q[1] = log[f]
      BY <2>4, <3>1
    <3> QED BY <1>3, <1>5, <2>2, <2>3, <3>2
  <2>6. \A i \in 1..Len(log) : i >= f => log[i] \in w.shares
    <3>1. ASSUME NEW i \in 1..Len(log), i >= f PROVE log[i] \in ToSet(q)
      <4>1. i - f + 1 \in 1..Len(q) /\ f + (i - f + 1) - 1 = i
        BY <1>1, <2>2, <2>4, <3>1
      <4>2. q[i - f + 1] = log[i]
        BY <2>4, <4>1
      <4> QED BY <2>4, <4>1, <4>2 DEF ToSet
    <3> QED BY <2>5, <3>1
  <2>7. \A s \in w.shares : \E i \in 1..Len(log) : i >= f /\ log[i] = s
    <3>1. ASSUME NEW i \in 1..Len(q)
          PROVE  f + i - 1 \in 1..Len(log) /\ f + i - 1 >= f /\ q[i] = log[f + i - 1]
      <4>1. PICK k : k = Len(q)
        OBVIOUS
      <4>2. k = Len(log) - f + 1 /\ i \in 1..k
        BY <2>4, <4>1
      <4>3. f \in Nat /\ f >= 1 /\ f <= Len(log) /\ Len(log) \in Nat
        BY <1>1, <2>2
      <4>4. f + i - 1 \in 1..Len(log) /\ f + i - 1 >= f
        BY ONLY <4>2, <4>3
      <4> QED BY <2>4, <4>4
    <3> QED BY <2>4, <2>5, <3>1 DEF ToSet
  <2>8. ASSUME NEW i \in 1..Len(log), i >= f PROVE log[f].seq <= log[i].seq
    <3>1. i = f \/ f < i
      BY <1>1, <2>2, <2>8
    <3>2. f < i => log[f].seq < log[i].seq
      BY <2>2 DEF PoolInv, LogInv, Ascends
    <3> QED BY <3>1, <3>2, <1>2, <2>2
  <2>9. \A s \in w.shares : Listed(s, log) /\ w.start <= s.seq
    BY <2>5, <2>7, <2>8 DEF Listed
  <2>10. ASSUME NEW m \in Watched, NEW n \in conn[m].mine, n \in w.start..w.end - 1
         PROVE  \E s \in w.shares : s.seq = n /\ s.owner = m
    <3>1. From = log[1].seq /\ 1 \in 1..Len(log)
      BY <1>1, <2>1 DEF From
    <3>2. From <= log[f].seq /\ From \in Nat
      <4>1. f = 1 \/ 1 < f
        BY <2>2
      <4>2. 1 < f => log[1].seq < log[f].seq
        BY <2>2, <3>1 DEF PoolInv, LogInv, Ascends
      <4> QED BY <3>1, <4>1, <4>2, <1>2, <2>2
    <3>3. n \in Nat /\ n >= log[f].seq /\ n >= From
      BY <2>10, <3>2, <2>5, <1>1, <1>2, <2>2
    <3>4. PICK i \in 1..Len(log) : log[i].seq = n /\ log[i].owner = m
      BY <3>3, <2>10 DEF MineInv
    <3>5. i >= f
      <4>1. i < f => log[i].seq < log[f].seq
        BY <2>2 DEF PoolInv, LogInv, Ascends
      <4> QED BY <3>3, <3>4, <4>1, <1>2, <2>2
    <3> QED BY <3>4, <3>5, <2>6
  <2>11. \A m \in Watched : Credits(m, w)
    BY <2>10 DEF Credits
  <2>12. w.start \in Nat /\ w.end \in Nat /\ w.end <= nextSeq
    BY <1>1, <1>2, <2>2, <2>5
  <2> QED BY <2>9, <2>11, <2>12 DEF WindowOk
<1> QED BY <1>4, <1>5

\* Windows decided before stay so.
WindowsStand == \A w : WindowOk(w) => WindowOk(w)'
LEMMA WindowsStay ==
    ASSUME WindowInv, WindowsStand, published' = published, Making' => Making /\ draft' = draft
    PROVE  WindowInv'
<1>1. published' # None => WindowOk(published.paying)' /\ WindowOk(published.next)'
  <2>1. PICK old : old = published
    OBVIOUS
  <2>2. published' # None => WindowOk(old.paying) /\ WindowOk(old.next)
    BY <2>1 DEF WindowInv
  <2>3. published' # None => WindowOk(old.paying)' /\ WindowOk(old.next)'
    BY <2>2 DEF WindowsStand
  <2> QED BY <2>1, <2>3
<1>2. Making' => WindowOk(draft.paying)' /\ WindowOk(draft.next)'
  <2>1. PICK job : job = draft
    OBVIOUS
  <2>2. Making' => WindowOk(job.paying) /\ WindowOk(job.next) /\ draft' = job
    BY <2>1 DEF WindowInv
  <2>3. Making' => WindowOk(job.paying)' /\ WindowOk(job.next)'
    BY <2>2 DEF WindowsStand
  <2> QED BY <2>2, <2>3
<1>3. Making' /\ published' # None => MovesOn(published', draft')
  BY DEF WindowInv
<1> QED BY <1>1, <1>2, <1>3 DEF WindowInv

\* Steps that leave the log and what is published alone.
LEMMA StaysFor ==
    ASSUME AuditInv, PoolInv', UNCHANGED <<log, nextSeq, published>>,
           Making' => Making /\ draft' = draft,
           current' \in {current, None}, IsConn(conn'),
           \A m \in Watched : LineInv(m)' /\ conn'[m].mine \subseteq conn[m].mine
    PROVE  AuditInv'
<1>1. From' = From /\ nextSeq \in Nat
  BY DEF From, AuditInv, PoolInv, TypeInv
<1>2. MineInv'
  BY <1>1 DEF AuditInv, MineInv
<1>3. WindowsStand
  <2>1. ASSUME NEW w, WindowOk(w) PROVE WindowOk(w)'
    <3>1. \A s \in w.shares : Listed(s, log')
      BY <2>1 DEF WindowOk
    <3>2. \A m \in Watched : \A n \in conn'[m].mine : n \in conn[m].mine
      OBVIOUS
    <3> QED BY <1>1, <2>1, <3>1, <3>2, WindowStays
  <2> QED BY <2>1 DEF WindowsStand
<1>4. WindowInv'
  BY <1>3, WindowsStay DEF AuditInv
<1>5. ConnInv'
  <2>1. current' # None => AsPublished(current)'
    BY DEF AuditInv, ConnInv, AsPublished
  <2>2. \A m \in Watched : LineInv(m)'
    OBVIOUS
  <2> QED BY <2>1, <2>2 DEF ConnInv
<1> QED BY <1>2, <1>4, <1>5 DEF AuditInv

\* Lines nobody touches, and lines that end.
LEMMA LineStays ==
    ASSUME NEW m, LineInv(m), UNCHANGED <<published, recent>>, conn'[m] = conn[m]
    PROVE  LineInv(m)'
BY DEF LineInv, Awaits, AsPublished
LEMMA LineEnds ==
    ASSUME NEW m, conn'[m] = Offline
    PROVE  LineInv(m)'
<1>1. /\ Offline.queue = <<>> /\ Offline.last = None /\ Offline.failed = FALSE
      /\ IsList(Offline.queue) /\ IsLine(Offline)
  BY DEF Offline, IsList, IsLine
<1> QED BY <1>1 DEF LineInv
LEMMA OneLine ==
    ASSUME IsConn(conn), NEW m \in Watched, NEW line, conn' = [conn EXCEPT ![m] = line]
    PROVE  /\ IsConn(conn') /\ conn'[m] = line
           /\ \A c \in Watched : c # m => conn'[c] = conn[c]
BY DEF IsConn

LEMMA UntouchedKeeps ==
    ASSUME AuditInv, PoolInv', UNCHANGED <<log, nextSeq, published, recent, conn>>,
           Making' => Making /\ draft' = draft, current' \in {current, None}
    PROVE  AuditInv'
<1>1. IsConn(conn') /\ \A m \in Watched : LineInv(m) /\ conn'[m].mine \subseteq conn[m].mine
  BY DEF AuditInv, ConnInv
<1>2. ASSUME NEW m \in Watched PROVE LineInv(m)'
  BY <1>1, LineStays
<1> QED BY <1>1, <1>2, StaysFor

LEMMA EndedIs ==
    ASSUME AuditInv, NEW owner, conn' = Ended(owner), UNCHANGED <<published, recent>>
    PROVE  /\ IsConn(conn')
           /\ \A m \in Watched : LineInv(m)' /\ conn'[m].mine \subseteq conn[m].mine
<1>1. IsConn(conn')
  BY DEF Ended, IsConn
<1>2. \A m \in Watched : conn'[m] = IF m = owner THEN Offline ELSE conn[m]
  BY DEF Ended
<1>3. ASSUME NEW m \in Watched PROVE LineInv(m)' /\ conn'[m].mine \subseteq conn[m].mine
  <2>1. CASE m = owner
    <3>1. conn'[m] = Offline /\ Offline.mine = {}
      BY <1>2, <2>1 DEF Offline
    <3> QED BY <3>1, LineEnds
  <2>2. CASE m # owner
    <3>1. conn'[m] = conn[m] /\ LineInv(m)
      BY <1>2, <2>2 DEF AuditInv, ConnInv
    <3> QED BY <3>1, LineStays
  <2> QED BY <2>1, <2>2
<1> QED BY <1>1, <1>3

LEMMA ConnectKeeps ==
    ASSUME AuditInv, PoolInv', NEW m \in Watched, Connect(m)
    PROVE  AuditInv'
<1>1. /\ IsConn(conn) /\ \A c \in Watched : LineInv(c)
      /\ current # None => AsPublished(current)
  BY DEF AuditInv, ConnInv
<1>2. current # None => \E i \in 1..Len(recent) : recent[i] = current
  BY DEF AuditInv, PoolInv, JobInv
<1>3. UNCHANGED <<log, nextSeq, published, recent, current, stage, draft>>
  BY DEF Connect, logVars, loopVars
<1>4. PICK queue : queue = IF current = None THEN <<>> ELSE <<current>>
  OBVIOUS
<1>5. PICK line : line = [Offline EXCEPT !.on = TRUE, !.queue = queue]
  OBVIOUS
<1>6. /\ line = [queue |-> line.queue, last |-> line.last, mine |-> line.mine,
                 failed |-> line.failed, on |-> line.on]
      /\ line.queue = queue /\ line.last = None /\ line.mine = {} /\ line.failed = FALSE /\ line.on
  BY <1>5 DEF Offline
<1>7. IsConn(conn') /\ conn'[m] = line /\ \A c \in Watched : c # m => conn'[c] = conn[c]
  <2>1. conn' = [conn EXCEPT ![m] = line]
    BY <1>4, <1>5 DEF Connect
  <2> QED BY <1>1, <2>1, OneLine
<1>8. IsList(queue)
  <2>1. CASE current = None
    BY <1>4, <2>1 DEF IsList
  <2>2. CASE current # None
    <3>1. queue = <<current>> /\ Len(queue) = 1 /\ queue[1] = current
      BY <1>4, <2>2
    <3>2. current \in {queue[i] : i \in 1..Len(queue)}
      BY <3>1
    <3> QED BY <3>1, <3>2 DEF IsList
  <2> QED BY <2>1, <2>2
<1>9. LineInv(m)'
  <2>1. IsLine(line)
    BY <1>6, <1>8 DEF IsLine
  <2>2. line.queue # <<>> => Awaits(m)'
    <3>1. ASSUME line.queue # <<>> PROVE Awaits(m)'
      <4>1. current # None /\ Len(queue) = 1 /\ queue[1] = current
        BY <1>4, <1>6, <3>1
      <4>2. AsPublished(current)'
        BY <1>1, <1>3, <4>1 DEF AsPublished
      <4>3. conn'[m].queue = queue /\ conn'[m].last = None
        BY <1>6, <1>7
      <4>4. \E i \in 1..Len(recent') : recent'[i] = current
        BY <1>2, <1>3, <4>1
      <4>5. conn'[m].queue[1] = current /\ Len(conn'[m].queue) = 1
        BY <4>1, <4>3
      <4>6. AsPublished(conn[m].queue[1])'
        BY <1>3, <4>2, <4>5 DEF AsPublished
      <4>7. Chained(conn[m].last, conn[m].queue[1])'
        BY <4>3 DEF Chained
      <4> QED BY <4>4, <4>5, <4>6, <4>7 DEF Awaits
    <3> QED BY <3>1
  <2>3. line.failed = FALSE /\ line.on /\ line.last = None
    BY <1>6
  <2> QED BY <1>7, <2>1, <2>2, <2>3 DEF LineInv
<1>10. \A c \in Watched : LineInv(c)' /\ conn'[c].mine \subseteq conn[c].mine
  <2>1. ASSUME NEW c \in Watched, c # m PROVE LineInv(c)' /\ conn'[c] = conn[c]
    BY <2>1, <1>1, <1>3, <1>7, LineStays
  <2>2. conn'[m].mine = {}
    BY <1>6, <1>7
  <2> QED BY <2>1, <2>2, <1>9
<1> QED BY <1>3, <1>7, <1>10, StaysFor DEF Making

\* The audit itself: every check passes.
LEMMA AuditKeeps ==
    ASSUME AuditInv, PoolInv', NEW m \in Watched, Audit(m)
    PROVE  AuditInv'
<1>1. PICK job : job = Head(conn[m].queue)
  OBVIOUS
<1>2. PICK failed : failed = ~(/\ job \in ToSet(recent) /\ Chained(conn[m].last, job)
                               /\ Credits(m, job.paying) /\ Provable(job.paying))
  OBVIOUS
<1>3. IsConn(conn) /\ \A c \in Watched : LineInv(c)
  BY DEF AuditInv, ConnInv
<1>4. conn[m].queue # <<>> /\ UNCHANGED <<log, nextSeq, published, recent, stage, draft, current>>
  BY DEF Audit, logVars, loopVars
<1>5. IsLine(conn[m]) /\ Awaits(m) /\ conn[m].on
  BY <1>3, <1>4 DEF LineInv
<1>6. PICK queue, mine : queue = conn[m].queue /\ mine = conn[m].mine
  OBVIOUS
<1>7. job = queue[1] /\ Tail(queue) = <<>>
  <2>1. PICK S : queue \in Seq(S)
    BY <1>5, <1>6 DEF IsLine, IsList
  <2>2. Len(queue) = 1
    BY <1>5, <1>6 DEF Awaits
  <2>3. Tail(queue) \in Seq(S) /\ Len(Tail(queue)) = 0
    BY <2>1, <2>2
  <2>4. Tail(queue) = <<>>
    BY <2>3, EmptySeq
  <2> QED BY <1>1, <1>6, <2>1, <2>2, <2>4
<1>8. AsPublished(job) /\ Chained(conn[m].last, job) /\ \E i \in 1..Len(recent) : recent[i] = job
  BY <1>5, <1>6, <1>7 DEF Awaits
<1>9. WindowOk(job.paying)
  BY <1>8 DEF AsPublished, AuditInv, WindowInv
<1>10. job \in ToSet(recent)
  <2>1. DOMAIN recent = 1..Len(recent)
    BY DEF AuditInv, PoolInv, TypeInv, IsList
  <2> QED BY <1>8, <2>1 DEF ToSet
<1>11. Provable(job.paying)
  <2>1. ASSUME NEW s \in job.paying.shares PROVE [id |-> s.job, run |-> s.run] \in disk.proofs
    <3>1. PICK i \in 1..Len(log) : log[i] = s
      BY <1>9 DEF WindowOk, Listed
    <3>2. s \in disk.shares
      BY <3>1 DEF AuditInv, PoolInv, LogInv, Within
    <3> QED BY <3>2 DEF AuditInv, PoolInv, ProofInv, ProofOf
  <2> QED BY <2>1 DEF Provable
<1>12. failed = FALSE
  BY <1>2, <1>8, <1>9, <1>10, <1>11 DEF WindowOk
<1>13. PICK line : line = [conn[m] EXCEPT !.queue = Tail(@), !.last = job, !.failed = failed,
                                !.mine = {n \in @ : n >= job.paying.start}]
  OBVIOUS
<1>14. /\ line = [queue |-> line.queue, last |-> line.last, mine |-> line.mine,
                  failed |-> line.failed, on |-> line.on]
       /\ line.queue = <<>> /\ line.last = job /\ line.failed = FALSE /\ line.on
       /\ line.mine \subseteq mine
  <2>1. PICK left : left = {n \in mine : n >= job.paying.start}
    OBVIOUS
  <2>2. line = [conn[m] EXCEPT !.queue = <<>>, !.last = job, !.failed = FALSE, !.mine = left]
    BY <1>6, <1>7, <1>12, <1>13, <2>1
  <2>3. left \subseteq mine
    BY <2>1
  <2> QED BY <1>5, <2>2, <2>3 DEF IsLine
<1>15. conn' = [conn EXCEPT ![m] = line]
  <2>1. conn' = [conn EXCEPT ![m].queue = Tail(@), ![m].last = job, ![m].failed = failed,
                             ![m].mine = {n \in @ : n >= job.paying.start}]
    BY <1>1, <1>2 DEF Audit
  <2>2. DOMAIN conn = Watched
    BY <1>3 DEF IsConn
  <2> QED BY <1>13, <2>1, <2>2
<1>16. IsConn(conn') /\ conn'[m] = line /\ \A c \in Watched : c # m => conn'[c] = conn[c]
  BY <1>3, <1>15, OneLine
<1>17. LineInv(m)'
  <2>1. IsList(<<>>)
    BY DEF IsList
  <2>2. IsLine(line) /\ line.queue = <<>> /\ line.last = job /\ line.failed = FALSE /\ line.on
    BY <1>14, <2>1 DEF IsLine
  <2>3. AsPublished(job)'
    BY <1>4, <1>8 DEF AsPublished
  <2> QED BY <1>16, <2>2, <2>3 DEF LineInv, AsPublished
<1>18. \A c \in Watched : LineInv(c)' /\ conn'[c].mine \subseteq conn[c].mine
  <2>1. ASSUME NEW c \in Watched, c # m PROVE LineInv(c)' /\ conn'[c] = conn[c]
    BY <2>1, <1>3, <1>4, <1>16, LineStays
  <2>2. line.mine \subseteq conn[m].mine
    BY <1>6, <1>14
  <2> QED BY <2>1, <2>2, <1>16, <1>17
<1> QED BY <1>4, <1>16, <1>18, StaysFor DEF Making

\* With its windows good, a job being made disturbs nothing else.
LEMMA PollRest ==
    ASSUME AuditInv, PoolInv', WindowInv',
           UNCHANGED <<log, nextSeq, conn, published, recent, current>>
    PROVE  AuditInv'
<1>1. MineInv'
  BY DEF AuditInv, MineInv, From
<1>2. ConnInv'
  <2>1. \A m \in Watched : LineInv(m)'
    BY LineStays DEF AuditInv, ConnInv
  <2>2. IsConn(conn') /\ (current' # None => AsPublished(current)')
    BY DEF AuditInv, ConnInv, AsPublished
  <2> QED BY <2>1, <2>2 DEF ConnInv
<1> QED BY <1>1, <1>2 DEF AuditInv

\* Making a job decides its windows: those of the last job, or the newest shares.
LEMMA PollAudits ==
    ASSUME AuditInv, PoolInv', Poll
    PROVE  AuditInv'
<1>1. /\ UNCHANGED <<log, nextSeq, conn, published, recent, current>> /\ Making'
      /\ draft'.paying = Windows(tip)[1] /\ draft'.next = Windows(tip)[2] /\ draft'.tip = tip
  BY DEF Poll, logVars, Making
<1>2. PICK w : w = Window
  OBVIOUS
<1>3. WindowOk(w)
  BY <1>2, WindowIs DEF AuditInv
<1>4. ASSUME NEW v, WindowOk(v) PROVE WindowOk(v)'
  BY <1>1, <1>4 DEF WindowOk, Credits
<1>5. PICK pays, freezes : pays = draft'.paying /\ freezes = draft'.next
  OBVIOUS
<1>6. CASE published = None
  <2>1. pays = w /\ freezes = w
    BY <1>1, <1>2, <1>5, <1>6 DEF Windows
  <2>2. WindowInv'
    BY <1>1, <1>3, <1>4, <1>5, <1>6, <2>1 DEF WindowInv
  <2> QED BY <1>1, <2>2, PollRest
<1>7. CASE published # None /\ published.tip = tip
  <2>1. pays = published.paying /\ freezes = published.next
    BY <1>1, <1>5, <1>7 DEF Windows
  <2>2. WindowOk(pays) /\ WindowOk(freezes)
    BY <1>7, <2>1 DEF AuditInv, WindowInv
  <2>3. WindowOk(pays)' /\ WindowOk(freezes)'
    BY <1>4, <2>2
  <2>4. WindowInv'
    BY <1>1, <1>5, <1>7, <2>1, <2>3 DEF WindowInv, MovesOn
  <2> QED BY <1>1, <2>4, PollRest
<1>8. CASE published # None /\ published.tip # tip
  <2>1. pays = published.next /\ freezes = w
    BY <1>1, <1>2, <1>5, <1>8 DEF Windows
  <2>2. PICK old : old = published.paying
    OBVIOUS
  <2>3. WindowOk(old) /\ WindowOk(pays)
    BY <1>8, <2>1, <2>2 DEF AuditInv, WindowInv
  <2>4. WindowOk(old)' /\ WindowOk(pays)' /\ WindowOk(freezes)'
    BY <1>3, <1>4, <2>1, <2>3
  <2>5. WindowInv'
    BY <1>1, <1>5, <1>8, <2>1, <2>2, <2>4 DEF WindowInv, MovesOn
  <2> QED BY <1>1, <2>5, PollRest
<1> QED BY <1>6, <1>7, <1>8

\* A share more in the log, and on the line of its owner if that is still there.
LEMMA AppendAudits ==
    ASSUME AuditInv, PoolInv', NEW s \in verifying, AppendShare(ShareOf(s)),
           UNCHANGED <<published, stage, draft, current>>, IsConn(conn'),
           \A m \in Watched :
              /\ LineInv(m)'
              /\ \A n \in conn'[m].mine : n \in conn[m].mine \/ (n = nextSeq /\ m = s.owner)
    PROVE  AuditInv'
<1>1. PICK share : share = ShareOf(s)
  OBVIOUS
<1>2. log' = Append(log, share) /\ nextSeq' = nextSeq + 1
  BY <1>1 DEF AppendShare
<1>3. share.seq = nextSeq /\ share.owner = s.owner
  BY <1>1 DEF ShareOf
<1>4. log \in Seq(Share) /\ Len(log) \in Nat /\ nextSeq \in Nat
  BY DEF AuditInv, PoolInv, TypeInv
<1>5. /\ Len(log') = Len(log) + 1 /\ log'[Len(log) + 1] = share
      /\ \A i \in 1..Len(log) : log'[i] = log[i]
  BY <1>2, <1>4
<1>6. From' = From
  BY <1>2, <1>3, <1>4, <1>5 DEF From
<1>7. MineInv'
  <2>1. ASSUME NEW m \in Watched, NEW n \in conn'[m].mine
        PROVE  /\ n \in Nat /\ n < nextSeq'
               /\ n >= From' => \E i \in 1..Len(log') : log'[i].seq = n /\ log'[i].owner = m
    <3>1. CASE n \in conn[m].mine
      <4>1. n \in Nat /\ n < nextSeq
            /\ (n >= From => \E i \in 1..Len(log) : log[i].seq = n /\ log[i].owner = m)
        BY <3>1 DEF AuditInv, MineInv
      <4>2. \A i \in 1..Len(log) : i \in 1..Len(log')
        BY <1>4, <1>5
      <4> QED BY <4>1, <4>2, <1>2, <1>4, <1>5, <1>6
    <3>2. CASE n = nextSeq /\ m = s.owner
      <4>1. Len(log) + 1 \in 1..Len(log')
        BY <1>4, <1>5
      <4> QED BY <3>2, <4>1, <1>2, <1>3, <1>4, <1>5
    <3> QED BY <3>1, <3>2
  <2> QED BY <2>1 DEF MineInv
<1>8. WindowsStand
  <2>1. ASSUME NEW w, WindowOk(w) PROVE WindowOk(w)'
    <3>1. ASSUME NEW t \in w.shares PROVE Listed(t, log')
      <4>1. PICK i \in 1..Len(log) : log[i] = t
        BY <2>1 DEF WindowOk, Listed
      <4>2. i \in 1..Len(log') /\ log'[i] = t
        BY <4>1, <1>4, <1>5
      <4> QED BY <4>2 DEF Listed
    <3>2. nextSeq' \in Nat /\ nextSeq <= nextSeq'
      BY <1>2, <1>4
    <3>3. \A m \in Watched : \A n \in conn'[m].mine : n \in conn[m].mine \/ n = nextSeq
      OBVIOUS
    <3> QED BY <1>4, <2>1, <3>1, <3>2, <3>3, WindowStays
  <2> QED BY <2>1 DEF WindowsStand
<1>9. WindowInv'
  BY <1>8, WindowsStay DEF AuditInv, Making
<1>10. ConnInv'
  <2>1. current' # None => AsPublished(current)'
    BY DEF AuditInv, ConnInv, AsPublished
  <2>2. \A m \in Watched : LineInv(m)'
    OBVIOUS
  <2> QED BY <2>1, <2>2 DEF ConnInv
<1> QED BY <1>7, <1>9, <1>10 DEF AuditInv

LEMMA CreditAudits ==
    ASSUME AuditInv, PoolInv', NEW s \in verifying, NEW b, Credit(s, b)
    PROVE  AuditInv'
<1>1. UNCHANGED <<published, recent, stage, draft, current>> /\ AppendShare(ShareOf(s))
  BY DEF Credit, loopVars
<1>2. conn' = [m \in Watched |-> IF m # s.owner THEN conn[m]
                                 ELSE [conn[m] EXCEPT !.mine = @ \cup {nextSeq}]]
  BY DEF Credit
<1>3. IsConn(conn')
  BY <1>2 DEF IsConn
<1>4. ASSUME NEW m \in Watched
      PROVE  /\ LineInv(m)'
             /\ \A n \in conn'[m].mine : n \in conn[m].mine \/ (n = nextSeq /\ m = s.owner)
  <2>1. LineInv(m)
    BY DEF AuditInv, ConnInv
  <2>2. CASE m # s.owner
    <3>1. conn'[m] = conn[m]
      BY <1>2, <2>2
    <3> QED BY <3>1, <2>1, <1>1, LineStays
  <2>3. CASE m = s.owner
    <3>1. PICK c, mine : c = conn[m] /\ mine = c.mine \cup {nextSeq}
      OBVIOUS
    <3>2. c = [queue |-> c.queue, last |-> c.last, mine |-> c.mine, failed |-> c.failed, on |-> c.on]
          /\ IsList(c.queue)
      BY <2>1, <3>1 DEF LineInv, IsLine
    <3>3. PICK line : line = [c EXCEPT !.mine = mine]
      OBVIOUS
    <3>4. /\ line = [queue |-> line.queue, last |-> line.last, mine |-> line.mine,
                     failed |-> line.failed, on |-> line.on]
          /\ line.queue = c.queue /\ line.last = c.last /\ line.mine = mine
          /\ line.failed = c.failed /\ line.on = c.on
      BY <3>2, <3>3
    <3>5. conn'[m] = line
      BY <1>2, <2>3, <3>1, <3>3
    <3>6. IsLine(line)
      BY <3>2, <3>4 DEF IsLine
    <3>7. Awaits(m) => Awaits(m)'
      BY <1>1, <3>1, <3>4, <3>5 DEF Awaits, AsPublished, Chained
    <3>8. LineInv(m)'
      BY <1>1, <2>1, <3>1, <3>4, <3>5, <3>6, <3>7 DEF LineInv, AsPublished
    <3>9. \A n \in conn'[m].mine : n \in conn[m].mine \/ n = nextSeq
      BY <3>1, <3>4, <3>5
    <3> QED BY <2>3, <3>8, <3>9
  <2> QED BY <2>2, <2>3
<1> QED BY <1>1, <1>3, <1>4, AppendAudits

LEMMA CutOffAudits ==
    ASSUME AuditInv, PoolInv', NEW s \in verifying, CutOff(s)
    PROVE  AuditInv'
<1>1. UNCHANGED <<published, recent, stage, draft, current>> /\ conn' = Ended(s.owner)
  BY DEF CutOff, loopVars
<1>2. IsConn(conn') /\ \A m \in Watched : LineInv(m)' /\ conn'[m].mine \subseteq conn[m].mine
  BY <1>1, EndedIs
<1>3. CASE UNCHANGED <<logVars, disk>>
  BY <1>1, <1>2, <1>3, StaysFor DEF logVars, Making
<1>4. CASE AppendShare(ShareOf(s))
  BY <1>1, <1>2, <1>4, AppendAudits
<1> QED BY <1>3, <1>4 DEF CutOff

\* Pruning keeps what is numbered from `from` on.
LEMMA PrunedKeeps ==
    ASSUME log \in Seq(Share), Ascends(log), NEW from \in Nat, NEW keep,
           NEW i \in 1..Len(log), log[i].seq >= from
    PROVE  Listed(log[i], Pruned(from, keep))
<1> DEFINE kept == {j \in DOMAIN log : log[j].seq >= from \/ WeightFrom(j + 1) < keep}
<1>1. Len(log) \in Nat /\ DOMAIN log = 1..Len(log) /\ \A j \in 1..Len(log) : log[j].seq \in Nat
  <2> HIDE DEF kept
  <2>1. Len(log) \in Nat /\ DOMAIN log = 1..Len(log) /\ \A j \in 1..Len(log) : log[j] \in Share
    OBVIOUS
  <2>2. \A s \in Share : s.seq \in Nat
    BY DEF Share
  <2> QED BY ONLY <2>1, <2>2
<1>2. PICK n, k : n = Len(log) /\ k = Cardinality(kept)
  OBVIOUS
<1>3. n \in Nat /\ i \in 1..n /\ kept \in SUBSET (1..n)
  BY <1>1, <1>2
<1>4. (i..n) \in SUBSET kept
  <2>1. ASSUME NEW j \in i..n PROVE j \in 1..n /\ log[j].seq >= from
    <3>1. j \in 1..n /\ (j = i \/ i < j)
      BY <1>3
    <3>2. i < j => log[i].seq < log[j].seq
      BY <1>2, <1>3, <3>1 DEF Ascends
    <3>3. log[i].seq \in Nat /\ log[j].seq \in Nat
      BY <1>1, <1>2, <3>1
    <3> QED BY <3>1, <3>2, <3>3
  <2> QED BY <2>1, <1>1, <1>2
<1>5. IsFiniteSet(1..n) /\ Cardinality(1..n) = n
  <2>1. 1 \in Int /\ n \in Int /\ (1 > n <=> n = 0)
    BY <1>3
  <2> QED BY ONLY <2>1, <1>3, FS_Interval
<1>6. IsFiniteSet(i..n) /\ Cardinality(i..n) = n - i + 1
  <2>1. i \in Int /\ n \in Int /\ ~(i > n)
    BY <1>3
  <2> QED BY ONLY <2>1, FS_Interval
<1>7. k \in Nat /\ k <= n /\ k >= n - i + 1
  <2> HIDE DEF kept
  <2>1. IsFiniteSet(kept) /\ k \in Nat /\ k <= n
    BY <1>2, <1>3, <1>5, FS_Subset, FS_CardinalityType
  <2>2. Cardinality(i..n) <= k
    BY <1>2, <1>4, <2>1, FS_Subset
  <2> QED BY <1>6, <2>1, <2>2
<1>8. PICK q : q = [j \in 1..k |-> log[n - k + j]]
  OBVIOUS
<1>9. q = Pruned(from, keep)
  BY <1>2, <1>8 DEF Pruned
<1>10. PICK j : j = i - (n - k)
  OBVIOUS
<1>11. j \in 1..k /\ n - k + j = i
  BY <1>3, <1>7, <1>10
<1>12. q[j] = log[i] /\ Len(q) = k
  BY <1>7, <1>8, <1>11
<1> QED BY <1>9, <1>11, <1>12 DEF Listed

\* The job goes out to miners that have audited the last one, and what is pruned is
\* of neither of its windows.
LEMMA PublishAudits ==
    ASSUME PoolServerAssumption, Lag = 1, NoneIsNothing, AuditInv, PoolInv', Publish
    PROVE  AuditInv'
<1>1. PICK job, from : job = draft /\ from = Min({job.paying.start, job.next.start})
  OBVIOUS
<1>2. /\ stage = "publish" /\ stage' = "prune" /\ current' = job /\ nextSeq' = nextSeq
      /\ published' = [tip |-> job.tip, paying |-> job.paying, next |-> job.next]
      /\ log' = Pruned(from, KeepWindows * WindowSize)
      /\ conn' = [m \in Watched |-> IF conn[m].on
                                    THEN [conn[m] EXCEPT !.queue = Append(@, job)] ELSE conn[m]]
      /\ \A m \in Watched : Len(conn[m].queue) < 1
  BY <1>1 DEF Publish
<1>3. recent' = Latest(recent, job)
  BY <1>1 DEF Publish, Latest
<1>4. WindowOk(job.paying) /\ WindowOk(job.next) /\ (published # None => MovesOn(published, job))
  BY <1>1, <1>2 DEF AuditInv, WindowInv, Making
<1>5. from \in Nat /\ from <= job.paying.start /\ from <= job.next.start
  <2>1. PICK a, b : a = job.paying.start /\ b = job.next.start
    OBVIOUS
  <2>2. a \in Nat /\ b \in Nat
    BY <1>4, <2>1 DEF WindowOk
  <2>3. PICK S : S = {a, b}
    OBVIOUS
  <2>4. Min(S) \in S /\ \A x \in S : Min(S) <= x
    BY <2>2, <2>3, MinIs
  <2> QED BY <1>1, <2>1, <2>2, <2>3, <2>4
<1>6. log \in Seq(Share) /\ Len(log) \in Nat /\ nextSeq \in Nat /\ Ascends(log)
  BY DEF AuditInv, PoolInv, TypeInv, LogInv
<1>7. \A i \in 1..Len(log) : log[i].seq \in Nat /\ log[i].seq < nextSeq
  BY <1>6 DEF AuditInv, PoolInv, LogInv, Within, TypeInv, Share
<1>8. PICK cut \in 0..Len(log) : log' = [i \in 1..(Len(log) - cut) |-> log[cut + i]]
  <2>1. PICK keep : keep = KeepWindows * WindowSize
    OBVIOUS
  <2>2. log \in Seq(Share)
    BY <1>6
  <2>3. \E n \in 0..Len(log) : Pruned(from, keep) = [i \in 1..(Len(log) - n) |-> log[n + i]]
    BY ONLY <2>2, PrunedIs
  <2>4. log' = Pruned(from, keep)
    BY <1>2, <2>1
  <2> QED BY <2>3, <2>4
<1>9. /\ Len(log') = Len(log) - cut
      /\ \A i \in 1..Len(log') : cut + i \in 1..Len(log) /\ log'[i] = log[cut + i]
  BY <1>6, <1>8
<1>10. ASSUME NEW m \in Watched PROVE conn'[m].mine = conn[m].mine
  <2>1. PICK c : c = conn[m]
    OBVIOUS
  <2>2. IsLine(c)
    BY <2>1 DEF AuditInv, ConnInv, LineInv
  <2>3. [c EXCEPT !.queue = Append(@, job)].mine = c.mine
    BY <2>2 DEF IsLine
  <2> QED BY <1>2, <2>1, <2>3
<1>11. MineInv'
  <2>1. ASSUME NEW m \in Watched, NEW n \in conn'[m].mine
        PROVE  /\ n \in Nat /\ n < nextSeq'
               /\ n >= From' => \E i \in 1..Len(log') : log'[i].seq = n /\ log'[i].owner = m
    <3>1. /\ n \in Nat /\ n < nextSeq
          /\ n >= From => \E i \in 1..Len(log) : log[i].seq = n /\ log[i].owner = m
      BY <1>10, <2>1 DEF AuditInv, MineInv
    <3>2. ASSUME n >= From' PROVE \E i \in 1..Len(log') : log'[i].seq = n /\ log'[i].owner = m
      <4>1. Len(log') # 0
        <5>1. Len(log') = 0 => From' = nextSeq
          BY <1>2 DEF From
        <5> QED BY <3>1, <3>2, <5>1, <1>6
      <4>2. 1 \in 1..Len(log') /\ From' = log'[1].seq
        BY <4>1, <1>6, <1>9 DEF From
      <4>3. cut + 1 \in 1..Len(log) /\ From' = log[cut + 1].seq
        BY <4>2, <1>9
      <4>4. From = log[1].seq /\ 1 \in 1..Len(log)
        BY <4>3, <1>6 DEF From
      <4>5. From <= From' /\ From' \in Nat /\ From \in Nat
        <5>1. cut = 0 \/ 1 < cut + 1
          OBVIOUS
        <5>2. 1 < cut + 1 => log[1].seq < log[cut + 1].seq
          BY <4>3, <4>4, <1>6 DEF Ascends
        <5> QED BY <4>3, <4>4, <5>1, <5>2, <1>7
      <4>6. PICK i \in 1..Len(log) : log[i].seq = n /\ log[i].owner = m
        BY <3>1, <3>2, <4>5
      <4>7. i >= cut + 1
        <5>1. i < cut + 1 => log[i].seq < log[cut + 1].seq
          BY <4>3, <4>6, <1>6 DEF Ascends
        <5> QED BY <5>1, <3>1, <3>2, <4>3, <4>5, <4>6
      <4>8. i - cut \in 1..Len(log') /\ cut + (i - cut) = i
        BY <4>6, <4>7, <1>6, <1>9
      <4>9. log'[i - cut] = log[i]
        BY <4>8, <1>9
      <4> QED BY <4>6, <4>8, <4>9
    <3> QED BY <3>1, <3>2, <1>2
  <2> QED BY <2>1 DEF MineInv
<1>12. ASSUME NEW w, WindowOk(w), from <= w.start PROVE WindowOk(w)'
  <2>1. ASSUME NEW s \in w.shares PROVE Listed(s, log')
    <3>1. PICK i \in 1..Len(log) : log[i] = s
      BY <1>12 DEF WindowOk, Listed
    <3>2. w.start \in Nat /\ w.start <= s.seq /\ s.seq \in Nat
      BY <1>7, <1>12, <3>1 DEF WindowOk
    <3>3. log[i].seq >= from
      BY <1>5, <1>12, <3>1, <3>2
    <3> QED BY <1>2, <1>5, <1>6, <3>1, <3>3, PrunedKeeps
  <2>2. \A m \in Watched : \A n \in conn'[m].mine : n \in conn[m].mine
    BY <1>10
  <2> QED BY <1>2, <1>6, <1>12, <2>1, <2>2, WindowStays
<1>13. WindowInv'
  <2>1. PICK p, f : p = job.paying /\ f = job.next
    OBVIOUS
  <2>2. WindowOk(p)' /\ WindowOk(f)'
    BY <1>4, <1>5, <1>12, <2>1
  <2>3. published'.paying = p /\ published'.next = f
    BY <1>2, <2>1
  <2>4. WindowOk(published.paying)' /\ WindowOk(published.next)'
    BY <2>2, <2>3
  <2>5. ~Making'
    BY <1>2 DEF Making
  <2> QED BY <2>4, <2>5 DEF WindowInv
<1>14. AsPublished(job)'
  <2>1. published' # None
    BY <1>2 DEF NoneIsNothing
  <2> QED BY <1>2, <2>1 DEF AsPublished
<1>15. \E i \in 1..Len(recent') : recent'[i] = job
  <2>1. IsList(recent) /\ Len(recent) \in Nat
    BY DEF AuditInv, PoolInv, TypeInv, IsList
  <2>2. PICK m \in 0..Len(recent) :
          /\ recent' = [i \in 1..(Len(recent) - m + 1) |->
                           IF i = Len(recent) - m + 1 THEN job ELSE recent[m + i]]
          /\ Len(recent') = Len(recent) - m + 1
    BY <1>3, <2>1, LatestIs
  <2>3. PICK k : k = Len(recent) - m + 1
    OBVIOUS
  <2>4. k \in 1..k
    BY <2>1, <2>3
  <2>5. recent'[k] = job /\ Len(recent') = k
    BY <2>2, <2>3, <2>4
  <2> QED BY <2>4, <2>5
<1>16. ConnInv'
  <2>1. IsConn(conn')
    BY <1>2 DEF IsConn
  <2>2. ASSUME NEW m \in Watched PROVE LineInv(m)'
    <3>1. PICK c : c = conn[m]
      OBVIOUS
    <3>2. LineInv(m) /\ IsLine(c) /\ IsList(c.queue)
      BY <3>1 DEF AuditInv, ConnInv, LineInv, IsLine
    <3>3. c.queue = <<>>
      <4>1. PICK S : c.queue \in Seq(S)
        BY <3>2 DEF IsList
      <4>2. Len(c.queue) = 0
        BY <1>2, <3>1, <4>1
      <4> QED BY <4>1, <4>2, EmptySeq
    <3>4. c.last # None => AsPublished(c.last)
      BY <3>1, <3>2, <3>3 DEF LineInv
    <3>5. CASE ~c.on
      <4>1. conn'[m] = c /\ c.last = None
        BY <1>2, <3>1, <3>2, <3>5 DEF LineInv
      <4> QED BY <3>1, <3>2, <3>3, <4>1 DEF LineInv
    <3>6. CASE c.on
      <4>1. PICK line : line = [c EXCEPT !.queue = <<job>>]
        OBVIOUS
      <4>2. conn'[m] = line
        <5>1. Append(c.queue, job) = <<job>>
          BY <3>3
        <5> QED BY <1>2, <3>1, <3>6, <4>1, <5>1
      <4>3. /\ line = [queue |-> line.queue, last |-> line.last, mine |-> line.mine,
                       failed |-> line.failed, on |-> line.on]
            /\ line.queue = <<job>> /\ line.last = c.last /\ line.failed = c.failed
            /\ line.on
        BY <3>2, <3>6, <4>1 DEF IsLine
      <4>4. IsList(<<job>>) /\ Len(<<job>>) = 1 /\ <<job>>[1] = job /\ <<job>> # <<>>
        <5>1. job \in {<<job>>[i] : i \in 1..Len(<<job>>)}
          OBVIOUS
        <5> QED BY <5>1 DEF IsList
      <4>5. IsLine(line)
        BY <4>3, <4>4 DEF IsLine
      <4>6. Chained(c.last, job)
        <5>1. CASE c.last = None
          BY <5>1 DEF Chained
        <5>2. CASE c.last # None
          <6>1. /\ published # None /\ published.tip = c.last.tip
                /\ published.paying = c.last.paying /\ published.next = c.last.next
            BY <3>4, <5>2 DEF AsPublished
          <6> QED BY <6>1, <1>4 DEF Chained, MovesOn
        <5> QED BY <5>1, <5>2
      <4>7. conn'[m].queue[1] = job /\ Len(conn'[m].queue) = 1 /\ conn'[m].last = c.last
        BY <4>2, <4>3, <4>4
      <4>8. AsPublished(conn[m].queue[1])'
        BY <1>14, <4>7 DEF AsPublished
      <4>9. Chained(conn[m].last, conn[m].queue[1])'
        BY <4>6, <4>7 DEF Chained
      <4>10. Awaits(m)'
        BY <1>15, <4>7, <4>8, <4>9 DEF Awaits
      <4>11. ~c.failed
        BY <3>1, <3>2 DEF LineInv
      <4> QED BY <4>2, <4>3, <4>4, <4>5, <4>10, <4>11 DEF LineInv
    <3> QED BY <3>5, <3>6
  <2>3. AsPublished(current)'
    BY <1>2, <1>14 DEF AsPublished
  <2> QED BY <2>1, <2>2, <2>3 DEF ConnInv
<1> QED BY <1>11, <1>13, <1>16 DEF AuditInv

\* Nothing is sent and nothing is promised after a restart.
LEMMA RestartAudits ==
    ASSUME PoolInv', Restart
    PROVE  AuditInv'
<1>1. /\ published' = None /\ stage' = "poll" /\ current' = None
      /\ conn' = [m \in Watched |-> Offline]
  BY DEF Restart
<1>2. IsConn(conn') /\ \A m \in Watched : conn'[m] = Offline
  BY <1>1 DEF IsConn
<1>3. MineInv'
  BY <1>2 DEF MineInv, Offline
<1>4. WindowInv'
  BY <1>1 DEF WindowInv, Making
<1>5. ConnInv'
  BY <1>1, <1>2, LineEnds DEF ConnInv
<1> QED BY <1>3, <1>4, <1>5 DEF AuditInv

LEMMA InitAudits ==
    ASSUME Init
    PROVE  AuditInv
<1>1. /\ published = None /\ stage = "poll" /\ current = None /\ PoolInv
      /\ conn = [m \in Watched |-> Offline]
  BY InitInv DEF Init
<1>2. IsConn(conn) /\ \A m \in Watched : conn[m] = Offline
  BY <1>1 DEF IsConn
<1>3. /\ Offline.queue = <<>> /\ Offline.last = None /\ Offline.failed = FALSE
      /\ Offline.mine = {} /\ IsLine(Offline)
  BY DEF Offline, IsList, IsLine
<1>4. MineInv /\ WindowInv
  BY <1>1, <1>2, <1>3 DEF MineInv, WindowInv, Making
<1>5. ConnInv
  BY <1>1, <1>2, <1>3 DEF ConnInv, LineInv
<1> QED BY <1>1, <1>4, <1>5 DEF AuditInv

LEMMA StepAudits ==
    ASSUME PoolServerAssumption, Raced = FALSE, Lag = 1, NoneIsNothing, AuditInv, [Next]_vars
    PROVE  AuditInv'
<1>1. PoolInv'
  BY StepInv DEF AuditInv
<1>2. CASE PollSyncing \/ Build \/ BuildFails \/ PruneDisk \/ UNCHANGED vars
           \/ (\E m \in Miners, n \in Nonces : Submit(m, n))
           \/ (\E j \in sealed : BlockRejected(j)) \/ (\E t \in Tips : TipMoves(t))
  <2>1. UNCHANGED <<log, nextSeq, published, recent, conn>> /\ current' \in {current, None}
    BY <1>2 DEF PollSyncing, Build, BuildFails, PruneDisk, Submit, BlockRejected, TipMoves,
                vars, logVars, loopVars
  <2>2. Making' => Making /\ draft' = draft
    BY <1>2 DEF PollSyncing, Build, BuildFails, PruneDisk, Submit, BlockRejected, TipMoves,
                vars, loopVars, Making
  <2> QED BY <1>1, <2>1, <2>2, UntouchedKeeps
<1>3. CASE Poll
  BY <1>1, <1>3, PollAudits
<1>4. CASE Publish
  BY <1>1, <1>4, PublishAudits
<1>5. CASE Restart
  BY <1>1, <1>5, RestartAudits
<1>6. ASSUME NEW m \in Watched, Connect(m) \/ Audit(m) PROVE AuditInv'
  BY <1>1, <1>6, ConnectKeeps, AuditKeeps
<1>7. ASSUME NEW s \in verifying, Invalid(s) PROVE AuditInv'
  <2>1. UNCHANGED <<log, nextSeq, published, recent, stage, draft, current>>
        /\ conn' = Ended(s.owner)
    BY <1>7 DEF Invalid, logVars, loopVars
  <2>2. IsConn(conn') /\ \A m \in Watched : LineInv(m)' /\ conn'[m].mine \subseteq conn[m].mine
    BY <2>1, EndedIs
  <2> QED BY <1>1, <2>1, <2>2, StaysFor DEF Making
<1>8. ASSUME NEW s \in verifying, CutOff(s) PROVE AuditInv'
  BY <1>1, <1>8, CutOffAudits
<1>9. ASSUME NEW s \in verifying, NEW b \in BOOLEAN, Credit(s, b) PROVE AuditInv'
  BY <1>1, <1>9, CreditAudits
<1> QED BY <1>2, <1>3, <1>4, <1>5, <1>6, <1>7, <1>8, <1>9 DEF Next

\* A miner that stays connected and audits each job before the next one goes out
\* never has cause to leave: the windows of its jobs follow each other, cover the
\* shares it was credited with and can be proved, while templates fail, the tip
\* moves to and fro, shares are cut off and the log is pruned (job_loop,
\* check_window_chain, audit_job_with_fee_limit, verify_sample).
THEOREM MinersStay ==
    ASSUME PoolServerAssumption, Raced = FALSE, Lag = 1, NoneIsNothing
    PROVE  Spec => []AuditsPass
<1>1. Init => AuditInv
  BY InitAudits
<1>2. AuditInv /\ [Next]_vars => AuditInv'
  BY StepAudits
<1>3. AuditInv => AuditsPass
  BY DEF AuditInv, ConnInv, LineInv, AuditsPass
<1> QED BY <1>1, <1>2, <1>3, PTL DEF Spec
=============================================================================
