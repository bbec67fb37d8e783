SPECIFICATION Spec
CONSTANTS
    CapS = 3
    FloatBits = 3
    Ticks = 2
    LastWindow = 3
    MaxWire = 2
    Noise = {"timeSync", "front", "garbage", "malformed"}
    MAX_AUTH_SKIP = 2
    MaxGaps = 1
    None = None
INVARIANT
    DropsAreRetried
CHECK_DEADLOCK FALSE
