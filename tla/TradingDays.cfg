SPECIFICATION Spec
CONSTANTS
    DayStartBalance = 2
    StartingBalance = 2
    MaxDailyLossPct = 50
    MaxConsecutiveLosses = 2
    PayoutPct = 80
    EntryPrice = 100
    None = None
    Stake = 1
    Prices = {99, 100, 101}
    MaxSessions = 2
    MaxTrades = 3
    LastDay = 1
INVARIANTS
    TypeOK
    TornWritesCostOneRecordEach
    DyingCostsOneTrade
    ReportMatchesTrades
    DateFilterFindsTrades
    DayLossGrowsWithRuns
PROPERTY
    OnlyAppended
CHECK_DEADLOCK FALSE
