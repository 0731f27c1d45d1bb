SPECIFICATION Spec
CONSTANTS
  Blocks <- WideBlocks
  Genesis = "g"
  Parent <- WideParent
  Height <- WideHeight
  Weight <- WideWeight
  PowOk = {"a1", "a2", "b2", "c1", "c2"}
  TargetOk = {"a1", "a2", "b2", "c1", "c2"}
  BodyOk = {"a1", "a2", "b2", "c1", "c2"}
  Early = {}
  TooEasy = {}
  Mined = {}
  Peers = {p1}
  Own = Own
  OrphanLimit = 2
  OrphansPerParent = 1
  MaxPendingBlocks = 1
  MaxOrphanChecks = 2
  MaxForkChecks = 2
  MaxOrphanDepth = 2
  MaxReorgDepth = 3
  RecentLimit = 2
  FinalityDepth = 2
  TornReads = TRUE
  Sessions = FALSE
  StorageFails = FALSE
  MaxSent = 5
  NoBlock = NoBlock
  NoSync = NoSync
INVARIANT HonestNotBanned
