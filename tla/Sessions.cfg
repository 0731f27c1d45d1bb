SPECIFICATION SessionsSpec
CONSTANTS
    SessionPeer = "s"
    Helpers = {"p"}
    Bodies = FALSE
    Cuts = TRUE
    Failures = TRUE
    End = 10
    VerifiedAtStart = 9
    OutweighsAt = 3
    ChunkLimit = 2
    InFlightLimit = 3
    Lookahead = 10
    BufferLimit = 3
    NoChunk = None
  Checked = {"fetch", "refetch", "headers", "prune", "pool", "jobs", "moves", "window"}
  Parts <- TParts
  WellFormed <- TParts
  InsOf <- TIns
  OutsOf <- TOuts
  FeeOf <- TFee
  SizeOf <- TSize
  LockOf <- TLock
  FirstCoins <- TCoins
  MaxPool = 2
  MaxTx = 2
  CacheBlocks = 2
  MaxStem = 1
  MaxValidations = 1
  SeenLimit = 2
  MaxHeard = 2
  MaxConfirmed = 2
  Raced = FALSE
  Blocks <- HSmall
  Genesis = "g"
  Parent <- HParents
  Height <- HHeights
  Weight <- HWeights
  ChainOf <- HChains
  Servers = {"h", "l"}
  Liars = {"l"}
  Prompt = {"h"}
  Outbound = {"h"}
  FirstTip = "a2"
  PeerTips <- HTips
  Forged = {"f4"}
  Unsound = {"u2"}
  PerRequest = 2
  QueueLimit = 1
  InitialStep = 1
  StepLimit = 8
  ReorgLimit = 2
  StrikesToBan = 2
  MaxDisturbed = 2
  NoSession = None
  NoBlock = None
  None = None
INVARIANTS
  NothingLost BufferKept HonestNotBlamed FetchesAhead SessionOnChain BodiesAboveFloor
  PoolSound CacheOnChain SharesKept WindowsHold
PROPERTY ReorgReturns
\* A session or a tree of blocks comes to its end.
CHECK_DEADLOCK FALSE
