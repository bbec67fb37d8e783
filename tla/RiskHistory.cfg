SPECIFICATION Spec
CONSTANTS
    DayStartBalance = 10
    MaxDailyLossPct = 40
    MaxConsecutiveLosses = 3
    None = None
    Stakes = {1, 2}
    WinPct = 80
    MaxTrades = 6
INVARIANTS
    TotalsMatchHistory
    HaltedAtFirstBreach
CHECK_DEADLOCK FALSE
