SPECIFICATION NodeSpec
CONSTANTS
  Checked = {"wallet"}
  None = None
  Contacts = {"p", "q"}
  Addrs <- PAddrs
  PeerOf <- PPeerOf
  SubnetOf <- PSubnetOf
  Subnets = {"s", "t"}
  Pinned = {"pa"}
  Foreign = {"q"}
  MaxPerSubnet = 1
  MaxInbound = 1
  TargetOutbound = 2
  PickAtOnce = 3
  FailuresToDrop = 2
  MaxProven = 1
  MaxHeard = 1
  BaseBan = 1
  ForeignBan = 2
  MaxBan = 2
  ForgetAfter = 1
  MaxTimes = 2
  MaxConns = 2
  MaxEvents = 3
  Nobody = Nobody
  Unset = Unset
  Given <- TheirTxs
  Spends <- TheirSpends
  Pays <- TheirPays
  Birth = 0
  Window = 2
  Back = 1
  Page = 3
  Rounds = 2
  MaxRollbacks = 4
  MaxPayments = 2
  MaxPerBlock = 1
  Prunes = FALSE
  Meets = {}
  MaxBlocks = 4
  MaxCommands = 3
  MaxMoves = 7
  Blocks <- RivalBlocks
  Genesis = "g"
  Parent <- RivalParent
  Height <- RivalHeight
  Weight <- RivalWeight
  PowOk = {"a1", "a2", "a3", "c1", "c2"}
  TargetOk = {"a1", "a2", "c1", "c2", "b2"}
  BodyOk = {"a1", "a2", "a3", "b2", "c1"}
  Early = {"a2"}
  TooEasy = {}
  Mined = {}
  Peers = {p1}
  Own = Own
  OrphanLimit = 2
  OrphansPerParent = 1
  MaxPendingBlocks = 2
  MaxOrphanChecks = 2
  MaxForkChecks = 1
  MaxOrphanDepth = 2
  MaxReorgDepth = 3
  RecentLimit = 1
  FinalityDepth = 1
  TornReads = FALSE
  Sessions = TRUE
  StorageFails = TRUE
  MaxSent = 3
  NoBlock = NoBlock
  NoSync = NoSync
INVARIANT FailedIsLost
