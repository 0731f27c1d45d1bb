SPECIFICATION FairSpec
CONSTANTS
    SessionPeer = s
    Helpers = {p}
    Bodies = FALSE
    Cuts = TRUE
    Failures = FALSE
    End = 6
    VerifiedAtStart = 4
    OutweighsAt = 0
    ChunkLimit = 2
    InFlightLimit = 2
    Lookahead = 4
    BufferLimit = 2
    NoChunk = NoChunk
PROPERTY Finishes
