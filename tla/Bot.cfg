SPECIFICATION BotSpec
CONSTANTS
    DayStartBalance = 3
    StartingBalance = 3
    MaxDailyLossPct = 50
    MaxConsecutiveLosses = 2
    PayoutPct = 80
    EntryPrice = 100
    None = None
    NoSignal = None
    FastPeriod = 1
    SlowPeriod = 2
    Stakes = {1}
    Expiries = {60, 120}
    Prices = {99, 100, 101}
    TimeframeS = 60
    MaxSkip = 2
    Horizon = 360
    LastCandle = 360
INVARIANT
    BotTypeOK
PROPERTIES
    OrdersFollowContiguousBars
    HeldForItsExpiry
    ImplementsSession
CHECK_DEADLOCK FALSE
