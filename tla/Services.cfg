SPECIFICATION Spec
CONSTANTS
  NoSigner = "none"
  EarlyUntil = 2
  EarlyMinBond = 1
  EarlyMinLock = 0
  MinBond = 2
  MinLock = 1
  ClockMargin = 0
  BlockSeconds = 1
  MaxHorizon = 9
  RetargetFrom = 4
  MaxDoublings = 1
  PerDoubling = 1
  GenesisBits = 2
  WorkBlocks = 1
  MinHeaders = 1
  BondedFrom = 1
  CapWindow = 2
  CapK = 2
  WorkCapWindow = 2
  Headroom = 4
  SliverDivisor = 4
  RefreshMargin = 1
  Links <- MCLinks
  RootLink = "r"
  LinkPrev <- MCPrev
  LinkWork <- MCLinkWork
  LinkTime <- MCLinkTime
  MeetsTarget <- MCLinks
  OnTarget <- MCLinks
  RelayWindow = 2
  MaxRelay = 2
  RelayMaxFuture = 1
  GenesisWork = 6
  TargetWork <- MCTargetWork
  RewardAt <- MCReward
  IssuedBefore <- MCIssued
  Maturity = 1
  MedianWindow = 3
  MaxRegistrations = 1
  NoRun = NoRun
  Contents <- MCContents
  UndoKeep = 3
  MaxHeight = 6
  MaxBlockWeight = 12
  InputWeight = 1
  OutputWeight = 3
  KernelWeight = 1
  HeaderWeight = 1
  RegistrationWeight = 2
  Producers <- MCProducers
  Feeds <- MCFeeds
  PoolTxs <- MCPoolTxs
  Payouts <- MCPayouts
  Delays = {0, 2}
  OrphanDepth = 2
INVARIANTS
  NeverRefused UndoneIsReplayed BondsProven WeighedByTheBook
  GroupsHoldUnspent
  TemplatesApply PoolNeverStopsMining OrphansOnlySlivers
PROPERTIES
  KeepsPromise
\* A session, a chain or a tree of blocks comes to its end.
CHECK_DEADLOCK FALSE
