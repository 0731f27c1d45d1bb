----------------------------- MODULE MCSessions -----------------------------
\* Sessions, pruning, the transaction pool and the mining pool, each in a part of its own.
EXTENDS MCHeaders, MCTxPool, MCMoreSync, MCMiningPool

sessionVars == <<headerVars, txVars, vars, floorVars, minerVars>>

SessionsInit == HeaderInit /\ PoolInit /\ BlockInit /\ Pruned!Init /\ MinerInit

SessionsNext ==
    \/ HeaderNext /\ UNCHANGED <<txVars, vars, floorVars, minerVars>>
    \/ TxNext /\ UNCHANGED <<headerVars, vars, floorVars, minerVars>>
    \/ BlockNext /\ UNCHANGED <<headerVars, txVars, floorVars, minerVars>>
    \/ FloorNext /\ UNCHANGED <<headerVars, txVars, vars, minerVars>>
    \/ MinerNext /\ UNCHANGED <<headerVars, txVars, vars, floorVars>>

PartsInit == part \in Checked /\ SessionsInit
SessionsSpec == PartsInit /\ [][SessionsNext]_<<part, sessionVars>>
FairSessions == SessionsSpec /\ HeaderFairness /\ TxFairness /\ BlockFairness /\ MinerFairness

\* A peer that answers in time with what it has is never struck or banned, the
\* exceptions named apart (on_headers, on_headers_verified), nor one whose
\* deliveries are cut short or requests fail (on_batches, on_batches_applied).
HonestNotBlamed ==
    (part = "headers" => BlamesFairly) /\ (part = "fetch" => HonestNotBanned)
=============================================================================
