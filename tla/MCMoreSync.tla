----------------------------- MODULE MCMoreSync -----------------------------
(***************************************************************************)
(* Three instances of the block phase: one helper and deliveries cut       *)
(* short, with the cfg's constants; helpers that serve an invalid body;    *)
(* and, under fairness, a session that has to end.  And the pruning of     *)
(* bodies by tasks that work from a stale record.                          *)
(***************************************************************************)
EXTENDS MCPart, BlockSync

Refetch == INSTANCE BlockSync WITH
    SessionPeer <- "s", Helpers <- {"p", "q"}, Bodies <- TRUE, Cuts <- FALSE,
    Failures <- TRUE, End <- 9, VerifiedAtStart <- 7, OutweighsAt <- 0, ChunkLimit <- 3,
    InFlightLimit <- 3, Lookahead <- 9, BufferLimit <- 20, NoChunk <- None
Arrive == INSTANCE BlockSync WITH
    SessionPeer <- "s", Helpers <- {"p"}, Bodies <- FALSE, Cuts <- TRUE,
    Failures <- FALSE, End <- 6, VerifiedAtStart <- 4, OutweighsAt <- 3, ChunkLimit <- 2,
    InFlightLimit <- 2, Lookahead <- 4, BufferLimit <- 20, NoChunk <- None

ASSUME BlockSyncAssumption /\ Refetch!BlockSyncAssumption /\ Arrive!BlockSyncAssumption

BlockInit ==
    CASE part = "arrive" -> Arrive!Init [] part = "refetch" -> Refetch!Init
      [] OTHER -> Init
BlockNext ==
    \/ Pick("fetch") /\ Next
    \/ Pick("refetch") /\ Refetch!Next
    \/ Pick("arrive") /\ Arrive!Next

BlockFairness ==
    LET On(A) == part = "arrive" /\ A
    IN  /\ WF_vars(On(Arrive!Ask \/ Arrive!EndLoop)) /\ SF_vars(On(Arrive!Tick))
        /\ SF_vars(On(Arrive!MoreHeaders)) /\ SF_vars(On(Arrive!ForkState))
        /\ SF_vars(On(Arrive!Applied \/ Arrive!AppliedInPart))
        /\ \A k \in 0..6 : SF_vars(On(k \in DOMAIN inFlight
              /\ (Arrive!AnswerGood(k) \/ Arrive!AnswerUseless(k)
                  \/ Arrive!AnswerUnmatched(k) \/ Arrive!Expire(k))))

VARIABLES chain, undo, bodies, fin, records, finalized, floor, floorTip, forks,
          refreshing, prunes, restarts, settled, peak
floorVars == <<chain, undo, bodies, fin, records, finalized, floor, floorTip, forks,
               refreshing, prunes, restarts, settled, peak>>

PrunedHeight == [g |-> 0, a1 |-> 1, a2 |-> 2, a3 |-> 3, a4 |-> 4, b2 |-> 2]
PrunedBlocks == DOMAIN PrunedHeight
PrunedParent == [a1 |-> "g", a2 |-> "a1", a3 |-> "a2", a4 |-> "a3", b2 |-> "a1"]
PrunedWeight == [b \in PrunedBlocks |-> PrunedHeight[b] + 1]
Pruned == INSTANCE FinalityFloor WITH
    Blocks <- PrunedBlocks, Genesis <- "g", Parent <- PrunedParent,
    Height <- PrunedHeight, Weight <- PrunedWeight, Checkpoints <- {"a1", "a2", "b2"},
    FinalityDepth <- 1, Retained <- 2, UndoKeep <- 2, MaxRecords <- 3, Prune <- TRUE,
    StorageFails <- TRUE, MaxRestarts <- 1, Never <- 100, tip <- floorTip,
    NoBlock <- None, NoInfo <- None, NoRead <- None

FloorNext == Pick("prune") /\ Pruned!Next

\* With peers that answer, the session ends with the peer's chain adopted.
SessionEnds == part = "arrive" => Arrive!Finishes

\* Pruning takes no body of a block that could still be replaced, whatever the
\* task that prunes has read (prune_bodies_below).
BodiesAboveFloor == part = "prune" => Pruned!BodiesAboveFloor
=============================================================================
