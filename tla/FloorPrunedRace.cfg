SPECIFICATION Spec
CONSTANTS
  Blocks <- MCBlocks
  Genesis = "g"
  Parent <- MCParent
  Height <- MCHeight
  Weight <- MCWeight
  Checkpoints = {"a1", "a2", "a3"}
  FinalityDepth = 1
  Retained = 2
  UndoKeep = 2
  MaxRecords = 3
  Prune = TRUE
  StorageFails = FALSE
  MaxRestarts = 1
  Never = 100
  NoBlock = NoBlock
  NoInfo = NoInfo
  NoRead = NoRead
INVARIANT SettledStays
\* Nothing is left to do once the tree is exhausted.
CHECK_DEADLOCK FALSE
