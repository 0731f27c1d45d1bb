---------------------------- MODULE MCMiningPool ----------------------------
(***************************************************************************)
(* A pool of two miners, one of them watched, whose node sees two tips and *)
(* whose window is two units of work; and windows of up to four shares or  *)
(* four owners, three of them paid.                                        *)
(***************************************************************************)
EXTENDS MCPart

CONSTANT Raced

VARIABLES log, known, nextSeq, disk, nodeTip, lastTip, forced, nextJob, published, stage,
          draft, pruning, current, recent, submitted, reserved, verifying, sealed, conn,
          moves, runs, up
serverVars == <<log, known, nextSeq, disk, nodeTip, lastTip, forced, nextJob, published,
                stage, draft, pruning, current, recent, submitted, reserved, verifying,
                sealed, conn, moves, runs, up>>

Jobs == INSTANCE PoolServer WITH
    Miners <- {"m", "n"}, Watched <- {"m"}, Weight <- [m |-> 1, n |-> 2], Nonces <- {1},
    Tips <- {"s", "t"}, WindowSize <- 2, KeepWindows <- 1, RecentJobs <- 2, Lag <- 1,
    MaxShares <- 2, MaxMoves <- 1, tip <- nodeTip, prune <- pruning, seen <- reserved,
    restarts <- runs
\* One share, and the tip moving or the pool restarting twice.
Moving == INSTANCE PoolServer WITH
    Miners <- {"m", "n"}, Watched <- {"m"}, Weight <- [m |-> 1, n |-> 2], Nonces <- {1},
    Tips <- {"s", "t"}, WindowSize <- 2, KeepWindows <- 1, RecentJobs <- 2, Lag <- 1,
    MaxShares <- 1, MaxMoves <- 2, tip <- nodeTip, prune <- pruning, seen <- reserved,
    restarts <- runs
Loop == INSTANCE PoolServer WITH
    Miners <- {"m", "n"}, Watched <- {}, Weight <- [m |-> 1, n |-> 2], Nonces <- {},
    Tips <- {"s", "t"}, WindowSize <- 2, KeepWindows <- 1, RecentJobs <- 2, Lag <- 1,
    MaxShares <- 0, MaxMoves <- 3, tip <- nodeTip, prune <- pruning, seen <- reserved,
    restarts <- runs

VARIABLES shares, owners
windowVars == <<shares, owners>>

Paying == INSTANCE PoolWindow WITH
    Works <- 1..4, Weights <- {1, 2}, Easiest <- 4, MaxShares <- 4, MaxOwners <- 4,
    OwnerWeights <- {1, 2, 5}, MaxPaid <- 3, Scale <- 100, FeeScale <- 100, Fees <- {0, 3}

ASSUME Jobs!PoolServerAssumption /\ Loop!PoolServerAssumption /\ Paying!PoolWindowAssumption

minerVars == <<serverVars, windowVars>>
\* The two tips are alike.
MinerInit == Jobs!Init /\ nodeTip = "s" /\ Paying!Init
MinerNext ==
    \/ Pick("jobs") /\ Jobs!Next /\ UNCHANGED windowVars
    \/ Pick("moves") /\ Moving!Next /\ UNCHANGED windowVars
    \/ Pick("tips") /\ Loop!Next /\ UNCHANGED windowVars
    \/ Pick("window") /\ Paying!Next /\ UNCHANGED serverVars

\* The loop goes on, and the node makes a template in the end.
MinerFairness ==
    LET On(A) == part = "tips" /\ A
    IN  /\ WF_serverVars(On(Loop!Poll)) /\ WF_serverVars(On(Loop!PruneDisk))
        /\ WF_serverVars(On(Loop!Build \/ Loop!BuildFails)) /\ SF_serverVars(On(Loop!Build))
        /\ WF_serverVars(On(Loop!Publish))

\* What a miner was credited with survives jobs, pruning and restarts, with the
\* proof it needs, and is counted once (ShareLog, prune_db, open_db, precheck_share).
SharesKept == part \in {"jobs", "moves"} => Jobs!SharesKept

\* The pool starts again whatever a restart interrupts (open_db, ShareLog::load).
PoolStarts == up

\* Miners have no cause to leave this pool, and would have one if it counted work
\* twice or paid by anything but weight (job_loop, check_window_chain, verify_sample,
\* allocate).
WindowsHold ==
    /\ part \in {"jobs", "moves"} => Jobs!AuditsPass
    /\ part = "window" => Paying!WindowsFair

\* The pool's job follows the node's tip (job_loop).
JobFollowsTip == <>[](part = "tips" => current # None /\ current.tip = nodeTip)
=============================================================================
