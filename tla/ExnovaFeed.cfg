SPECIFICATION FairSpec
CONSTANTS
    CapS = 3
    FloatBits = 3
    Ticks = 2
    LastWindow = 3
    MaxWire = 2
    Noise = {"timeSync", "front", "garbage", "malformed"}
    MAX_AUTH_SKIP = 2
    MaxGaps = 3
    None = None
INVARIANTS
    TypeOK
    YieldedCandlesAreClosed
    OverflowNeedsSilence
    NoOrphanSocket
PROPERTIES
    ImplementsCandleStream
    BackoffGrowsWhileSilent
    LossIsResolved
    EveryWindowCloses
CHECK_DEADLOCK FALSE
