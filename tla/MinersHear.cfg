SPECIFICATION FairNode
CONSTANTS
  Checked = {"chain", "peers"}
  None = None
  Contacts = {"p", "q"}
  Addrs <- OneEach
  PeerOf <- PeerOfEach
  SubnetOf <- SubnetOfEach
  Subnets = {"s"}
  Pinned = {"pa"}
  Foreign = {}
  MaxPerSubnet = 1
  MaxInbound = 1
  TargetOutbound = 1
  PickAtOnce = 3
  FailuresToDrop = 1
  MaxProven = 1
  MaxHeard = 0
  BaseBan = 1
  ForeignBan = 1
  MaxBan = 1
  ForgetAfter = 1
  MaxTimes = 1
  MaxConns = 2
  MaxEvents = 2
  Nobody = Nobody
  Unset = Unset
  Given <- TheirTxs
  Spends <- TheirSpends
  Pays <- TheirPays
  Birth = 0
  Window = 2
  Back = 1
  Page = 3
  Rounds = 2
  MaxRollbacks = 4
  MaxPayments = 2
  MaxPerBlock = 1
  Prunes = FALSE
  Meets = {}
  MaxBlocks = 0
  MaxCommands = 0
  MaxMoves = 0
  Blocks <- HearBlocks
  Genesis = "g"
  Parent <- HearParent
  Height <- HearHeight
  Weight <- HearWeight
  PowOk = {"a1", "a2", "x2", "c1"}
  TargetOk = {"a1", "a2", "x2", "c1"}
  BodyOk = {"a1", "a2", "c1"}
  Early = {}
  TooEasy = {"a2"}
  Mined = {"a1", "c1"}
  Peers = {p1}
  Own = Own
  OrphanLimit = 2
  OrphansPerParent = 1
  MaxPendingBlocks = 1
  MaxOrphanChecks = 1
  MaxForkChecks = 2
  MaxOrphanDepth = 2
  MaxReorgDepth = 3
  RecentLimit = 2
  FinalityDepth = 2
  TornReads = TRUE
  Sessions = FALSE
  StorageFails = FALSE
  MaxSent = 1
  NoBlock = NoBlock
  NoSync = NoSync
INVARIANT NoOrphanOnTip
PROPERTIES MinersHear PinnedConnected
