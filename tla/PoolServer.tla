----------------------------- MODULE PoolServer -----------------------------
(***************************************************************************)
(* The mining pool (src/src/pool.rs): its share log in memory and on disk, *)
(* the loop that makes jobs, the shares of its miners, restarts, and the   *)
(* check every miner makes of the jobs it is sent.                         *)
(*                                                                         *)
(* A job pays one window of shares and freezes the next; both are decided  *)
(* when a new tip is seen.  Crediting a share writes it to disk and to the *)
(* log under the log's lock; pruning takes the lock for the log only and   *)
(* writes the disk later.  `run` tells the templates of one run of the     *)
(* pool from those of another: they are built at other times.  Binding a   *)
(* job to its miners is left out, and a share's difficulty is its miner's. *)
(***************************************************************************)
EXTENDS Integers, FiniteSets, Sequences, SequencesExt, FiniteSetsExt

CONSTANTS Miners,
          Watched,      \* the miners whose connections are followed
          Weight, Nonces, Tips, WindowSize, KeepWindows, RecentJobs,
          Lag,          \* how many jobs a miner may be behind
          Raced,        \* whether shares are credited while the disk is pruned
          MaxShares, MaxMoves, None

PoolServerAssumption ==
    /\ Weight \in [Miners -> Nat \ {0}] /\ WindowSize \in Nat \ {0}
    /\ KeepWindows \in Nat \ {0} /\ RecentJobs \in Nat \ {0} /\ Raced \in BOOLEAN

VARIABLES
    log,        \* credited shares, oldest first
    known,      \* the owners whose address is in memory
    nextSeq,
    disk,       \* shares, owners and the proofs of jobs
    tip,        \* the node's tip
    lastTip, forced, nextJob, published,    \* the job loop
    stage, draft, prune,
    current, recent, submitted,
    seen,       \* work reserved or counted, of any job
    verifying,  \* shares whose proof of work is being recomputed
    sealed,     \* blocks being submitted
    conn,       \* each miner's connection
    moves,      \* of the tip, pauses of the node to sync, and restarts
    restarts, up

logVars == <<log, known, nextSeq>>
loopVars == <<lastTip, nextJob, published, stage, draft, prune, current, recent>>
shareVars == <<seen, verifying, submitted, sealed>>
vars == <<logVars, disk, tip, forced, loopVars, shareVars, conn, moves, restarts, up>>

Offline == [queue |-> <<>>, last |-> None, mine |-> {}, failed |-> FALSE, on |-> FALSE]

Init ==
    /\ lastTip = None /\ forced = FALSE /\ published = None
    /\ stage = "poll" /\ draft = None /\ prune = None
    /\ current = None /\ recent = <<>> /\ submitted = 0
    /\ seen = {} /\ verifying = {} /\ sealed = {}
    /\ conn = [m \in Watched |-> Offline]
    /\ log = <<>> /\ known = {} /\ nextSeq = 0 /\ nextJob = 1
    /\ disk = [shares |-> {}, owners |-> {}, proofs |-> {}]
    /\ tip \in Tips /\ moves = 0 /\ restarts = 0 /\ up = TRUE

(***************************************************************************)
(* The share log                                                           *)
(***************************************************************************)
WeightFrom(i) == FoldSeq(LAMBDA s, sum : sum + Weight[s.owner], 0, SubSeq(log, i, Len(log)))

\* The newest shares whose weights add up to the window's size, or every share.
Window ==
    LET full == {i \in DOMAIN log : WeightFrom(i) >= WindowSize}
        first == IF full = {} THEN 1 ELSE Max(full)
        shares == SubSeq(log, first, Len(log))
    IN  [start |-> IF log = <<>> THEN nextSeq ELSE shares[1].seq,
         end |-> nextSeq, shares |-> ToSet(shares)]

\* What is kept of the log: the shares from `from` on, and the newest `keep` weight.
Pruned(from, keep) ==
    LET kept == {i \in DOMAIN log : log[i].seq >= from \/ WeightFrom(i + 1) < keep}
    IN  [i \in 1..Cardinality(kept) |-> log[Len(log) - Cardinality(kept) + i]]

Owners(shares) == {s.owner : s \in shares}

\* Appending a share: on disk first, with its owner if that is new, then in memory.
AppendShare(share) ==
    /\ disk' = [disk EXCEPT !.shares = @ \cup {share},
                            !.owners = IF share.owner \in known THEN @ ELSE @ \cup {share.owner}]
    /\ log' = Append(log, share)
    /\ known' = known \cup {share.owner}
    /\ nextSeq' = nextSeq + 1

(***************************************************************************)
(* The job loop                                                            *)
(***************************************************************************)
WindowsAfresh(new) ==
    IF published = None THEN <<Window, Window>> ELSE <<published.next, Window>>
\* The window a job pays and the one it freezes: what the last tip's jobs froze
\* is what the new tip's pay.
Windows(new) ==
    CASE published = None -> <<Window, Window>>
      [] published # None /\ published.tip = new -> <<published.paying, published.next>>
      [] OTHER -> <<published.next, Window>>

\* The node says it is syncing.
PollSyncing ==
    /\ up /\ stage = "poll" /\ current # None /\ moves < MaxMoves
    /\ moves' = moves + 1 /\ current' = None /\ lastTip' = None
    /\ UNCHANGED <<logVars, disk, tip, forced, nextJob, published, stage, draft, prune, recent,
                   shareVars, conn, restarts, up>>

DueByWindows == forced \/ IF published = None THEN TRUE ELSE published.tip # tip
Due == tip # lastTip \/ forced

\* A new tip, or a job asked for: the windows are decided at once.
Poll ==
    /\ up /\ stage = "poll" /\ Due
    /\ forced' = FALSE
    /\ draft' = [id |-> nextJob, run |-> restarts, tip |-> tip,
                 paying |-> Windows(tip)[1], next |-> Windows(tip)[2]]
    /\ stage' = "build"
    /\ UNCHANGED <<logVars, disk, tip, lastTip, nextJob, published, prune, current, recent,
                   shareVars, conn, moves, restarts, up>>

\* The node makes the template, of its tip by then, and the job's proof is kept.
Build ==
    /\ up /\ stage = "build" /\ draft.tip = tip
    /\ disk' = [disk EXCEPT !.proofs = {p \in @ : p.id # draft.id}
                                       \cup {[id |-> draft.id, run |-> draft.run]}]
    /\ nextJob' = draft.id + 1
    /\ stage' = "publish"
    /\ UNCHANGED <<logVars, tip, forced, lastTip, published, draft, prune, current, recent,
                   shareVars, conn, moves, restarts, up>>

\* The tip moved meanwhile, the node does not answer, or the proof is not written.
BuildFails ==
    /\ up /\ stage = "build" /\ stage' = "poll" /\ draft' = None
    /\ UNCHANGED <<logVars, disk, tip, forced, lastTip, nextJob, published, prune, current,
                   recent, shareVars, conn, moves, restarts, up>>

\* The oldest job a kept share or a recent job needs the proof of.
FirstRecent(shares, jobs) == jobs[1].id
FirstJob(shares, jobs) == Min({s.job : s \in shares} \cup {jobs[1].id})

\* The job becomes current and is sent to every connection.  Pruning the log
\* follows at once: a share credited in between might as well come before.
Publish ==
    LET job == draft
        kept == Pruned(Min({job.paying.start, job.next.start}), KeepWindows * WindowSize)
        latest == LET all == Append(recent, job)
                  IN  IF Len(all) > RecentJobs THEN Tail(all) ELSE all
    IN  /\ up /\ stage = "publish"
        /\ \A m \in Watched : Len(conn[m].queue) < Lag
        /\ lastTip' = job.tip /\ recent' = latest /\ current' = job
        /\ seen' = {w \in seen : \E i \in DOMAIN latest : latest[i].id = w.job}
        /\ published' = [tip |-> job.tip, paying |-> job.paying, next |-> job.next]
        /\ conn' = [m \in Watched |-> IF conn[m].on
                                     THEN [conn[m] EXCEPT !.queue = Append(@, job)] ELSE conn[m]]
        /\ log' = kept /\ known' = Owners(ToSet(kept))
        /\ prune' = [from |-> IF kept = <<>> THEN nextSeq ELSE kept[1].seq,
                     job |-> FirstJob(ToSet(kept), latest),
                     owners |-> known']
        /\ stage' = "prune" /\ draft' = None
        /\ UNCHANGED <<nextSeq, disk, tip, forced, nextJob, verifying, submitted, sealed, moves,
                       restarts, up>>

\* What was pruned from the log goes from the disk, or the write fails.
PruneDisk ==
    /\ up /\ stage = "prune"
    /\ \/ disk' = [shares |-> {s \in disk.shares : s.seq >= prune.from},
                   owners |-> disk.owners \cap prune.owners,
                   proofs |-> {p \in disk.proofs : p.id >= prune.job}]
       \/ UNCHANGED disk
    /\ stage' = "poll" /\ prune' = None
    /\ UNCHANGED <<logVars, tip, forced, lastTip, nextJob, published, draft, current, recent,
                   shareVars, conn, moves, restarts, up>>

(***************************************************************************)
(* Miners and their shares                                                 *)
(***************************************************************************)
Connect(m) ==
    /\ up /\ ~conn[m].on
    /\ conn' = [conn EXCEPT ![m] = [Offline EXCEPT !.on = TRUE,
                    !.queue = IF current = None THEN <<>> ELSE <<current>>]]
    /\ UNCHANGED <<logVars, disk, tip, forced, loopVars, shareVars, moves, restarts, up>>

\* check_window_chain: on one tip the windows stay, on the next they move on by one.
Chained(last, job) ==
    last = None \/ IF last.tip = job.tip
                   THEN <<last.paying, last.next>> = <<job.paying, job.next>>
                   ELSE job.paying = last.next

\* Every share the pool accepted from us is in the window that covers it.
Credits(m, window) ==
    \A n \in conn[m].mine : n \in window.start..window.end - 1
        => \E s \in window.shares : s.seq = n /\ s.owner = m

\* The pool can prove the window it asks to be trusted on, share by share.
Provable(window) ==
    \A s \in window.shares : [id |-> s.job, run |-> s.run] \in disk.proofs

\* A miner audits the next job it was sent, and leaves if anything is amiss.
Audit(m) ==
    LET job == Head(conn[m].queue)
        passes == /\ job \in ToSet(recent) /\ Chained(conn[m].last, job)
                  /\ Credits(m, job.paying) /\ Provable(job.paying)
    IN  /\ up /\ conn[m].queue # <<>> /\ ~conn[m].failed
        /\ conn' = [conn EXCEPT ![m].queue = Tail(@), ![m].last = job, ![m].failed = ~passes,
                        ![m].mine = {n \in @ : n >= job.paying.start}]
        /\ UNCHANGED <<logVars, disk, tip, forced, loopVars, shareVars, moves, restarts, up>>

\* Each piece of work is reserved once, and freed only when it is invalid.
New(work) == work \notin seen

\* The cheap checks of a share: the current job, and work not seen before.
Submit(m, nonce) ==
    LET work == [owner |-> m, job |-> current.id, run |-> current.run, nonce |-> nonce]
    IN  /\ up /\ current # None
        /\ m \in Watched => /\ ~conn[m].failed /\ conn[m].last # None
                           /\ conn[m].last.id = current.id
        /\ \A s \in verifying : s.owner # m
        /\ New(work)
        /\ seen' = seen \cup {work} /\ verifying' = verifying \cup {work}
        /\ UNCHANGED <<logVars, disk, tip, forced, loopVars, submitted, sealed, conn, moves,
                       restarts, up>>

Ended(m) == [c \in Watched |-> IF c = m THEN Offline ELSE conn[c]]

\* The share fails its proof of work: the sender is banned, the work is free again.
Invalid(s) ==
    /\ up /\ s \in verifying
    /\ verifying' = verifying \ {s} /\ seen' = seen \ {s}
    /\ conn' = Ended(s.owner)
    /\ UNCHANGED <<logVars, disk, tip, forced, loopVars, submitted, sealed, moves, restarts, up>>

\* RecentJobs outlast a verification.
Creditable(s) ==
    /\ nextSeq < MaxShares
    /\ \E j \in DOMAIN recent : recent[j].id = s.job
    /\ Raced \/ stage # "prune"
ShareOf(s) == [seq |-> nextSeq, owner |-> s.owner, job |-> s.job, run |-> s.run,
               nonce |-> s.nonce]

\* The share is credited to its job, whichever is current by now; the first block
\* of a job is submitted.
Credit(s, block) ==
    LET first == block /\ submitted # s.job
    IN  /\ up /\ s \in verifying /\ Creditable(s)
        /\ AppendShare(ShareOf(s))
        /\ verifying' = verifying \ {s}
        /\ conn' = [m \in Watched |-> IF m # s.owner THEN conn[m]
                                     ELSE [conn[m] EXCEPT !.mine = @ \cup {nextSeq}]]
        /\ submitted' = IF block THEN s.job ELSE submitted
        /\ sealed' = IF first THEN sealed \cup {s.job} ELSE sealed
        /\ UNCHANGED <<tip, forced, loopVars, seen, moves, restarts, up>>

\* The connection ends first, or the share cannot be written.  What the log has
\* begun to write is credited all the same, but a block in it is not submitted.
CutOff(s) ==
    /\ up /\ s \in verifying
    /\ verifying' = verifying \ {s}
    /\ conn' = Ended(s.owner)
    /\ UNCHANGED <<tip, forced, loopVars, seen, submitted, sealed, moves, restarts, up>>
    /\ \/ UNCHANGED <<logVars, disk>>
       \/ Creditable(s) /\ AppendShare(ShareOf(s))

\* The node refuses the block: a fresh job is asked for.
BlockRejected(j) ==
    /\ up /\ j \in sealed
    /\ sealed' = sealed \ {j} /\ forced' = TRUE
    /\ UNCHANGED <<logVars, disk, tip, loopVars, seen, verifying, submitted, conn, moves,
                   restarts, up>>

(***************************************************************************)
(* The node, and restarts                                                  *)
(***************************************************************************)
\* The tip moves, with a block of the pool or another.
TipMoves(t) ==
    /\ t # tip /\ moves < MaxMoves
    /\ tip' = t /\ moves' = moves + 1
    /\ \E j \in SUBSET sealed : Cardinality(j) <= 1 /\ sealed' = sealed \ j
    /\ UNCHANGED <<logVars, disk, forced, loopVars, seen, verifying, submitted, conn, restarts, up>>

\* The log is what the disk holds; a share whose owner is unknown stops the pool.
Loads == Owners(disk.shares) \subseteq disk.owners
InOrder(shares) ==
    [i \in 1..Cardinality(shares) |->
        CHOOSE s \in shares : Cardinality({t \in shares : t.seq < s.seq}) = i - 1]

Restart ==
    LET ids == {s.job : s \in disk.shares} \cup {p.id : p \in disk.proofs}
    IN  /\ up /\ moves < MaxMoves /\ moves' = moves + 1
        /\ restarts' = restarts + 1
        /\ up' = Loads
        /\ log' = InOrder(disk.shares)
        /\ known' = disk.owners
        /\ nextSeq' = IF disk.shares = {} THEN 0 ELSE Max({s.seq : s \in disk.shares}) + 1
        /\ nextJob' = IF ids = {} THEN 1 ELSE Max(ids) + 1
        /\ lastTip' = None /\ forced' = FALSE /\ published' = None
        /\ stage' = "poll" /\ draft' = None /\ prune' = None
        /\ current' = None /\ recent' = <<>> /\ submitted' = 0
        /\ seen' = {} /\ verifying' = {} /\ sealed' = {}
        /\ conn' = [m \in Watched |-> Offline]
        /\ UNCHANGED <<disk, tip>>

Next ==
    \/ PollSyncing \/ Poll \/ Build \/ BuildFails \/ Publish
    \/ PruneDisk \/ Restart
    \/ \E m \in Watched : Connect(m) \/ Audit(m)
    \/ \E m \in Miners, n \in Nonces : Submit(m, n)
    \/ \E s \in verifying : Invalid(s) \/ CutOff(s) \/ \E b \in BOOLEAN : Credit(s, b)
    \/ \E j \in sealed : BlockRejected(j)
    \/ \E t \in Tips : TipMoves(t)

Spec == Init /\ [][Next]_vars

(***************************************************************************)
(* Properties                                                              *)
(***************************************************************************)
\* Whatever a crash interrupts, the pool starts again with its shares, and a
\* job id is never taken twice: every share still counted has the proof of the
\* very job it was mined on (open_db, ShareLog::load, prune_db).
SharesOutliveRestart ==
    /\ up /\ Loads
    /\ \A s \in ToSet(log) : s \in disk.shares /\ [id |-> s.job, run |-> s.run] \in disk.proofs

\* One piece of work is counted once, however often it is submitted, verified
\* beside other jobs or cut off (precheck_share, finish_share).
CountedOnce ==
    \A i, j \in DOMAIN log : i # j =>
        <<log[i].owner, log[i].job, log[i].run, log[i].nonce>>
            # <<log[j].owner, log[j].job, log[j].run, log[j].nonce>>

\* What a miner was credited with stays, and is counted once.
SharesKept == SharesOutliveRestart /\ CountedOnce

\* A miner that stays connected to this pool never has cause to leave: the
\* windows of its jobs follow each other, cover its accepted shares and can be
\* proved, while jobs fail, the tip moves to and fro and the log is pruned
\* (job_loop, check_window_chain, audit_job_with_fee_limit, verify_sample).
AuditsPass == \A m \in Watched : ~conn[m].failed

\* The pool's job is of the node's tip in the end, although templates and storing
\* fail now and then, and stays so until the tip moves on (job_loop).
JobFollowsTip == <>[](current # None /\ current.tip = tip)
=============================================================================
