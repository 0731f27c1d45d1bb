SPECIFICATION FairSteps
CONSTANTS
  Blocks <- MCBlocks
  Genesis = "g"
  Parent <- MCParent
  Height <- MCHeight
  Weight <- MCWeight
  Checkpoints = {"a1", "a2", "a3", "b2"}
  FinalityDepth = 1
  Retained = 2
  UndoKeep = 2
  MaxRecords = 2
  Prune = FALSE
  StorageFails = TRUE
  MaxRestarts = 2
  Never = 100
  NoBlock = NoBlock
  NoInfo = NoInfo
  NoRead = NoRead
INVARIANTS TypeOK SettledStays UndoWindow
PROPERTIES QualifiedIsRecorded
\* Nothing is left to do once the tree is exhausted.
CHECK_DEADLOCK FALSE
