SPECIFICATION FairSpec
CONSTANTS
    DayStartBalance = 3
    StartingBalance = 3
    MaxDailyLossPct = 70
    MaxConsecutiveLosses = 2
    PayoutPct = 80
    EntryPrice = 100
    None = None
    Stakes = {0, 1, 2, 3}
    Expiries = {60, 90, 300}
    Prices = {99, 100, 101}
    TimeframeS = 60
    MaxSkip = 2
    Horizon = 300
    LastCandle = 660
INVARIANTS
    TypeOK
    LedgersAgree
    AllowedOrdersAreAccepted
    LossesAreBounded
    HaltedMeansFlat
    NoOverduePosition
    EveryOrderAccountedFor
PROPERTIES
    NoEntryOnceHalted
    ImplementsContract
    PositionsAreSettled
CHECK_DEADLOCK FALSE
