SPECIFICATION Spec
CONSTANTS
    StartingBalance = 3
    PayoutPct = 80
    EntryPrice = 100
    Stakes = {0, 1, 2}
    Expiries = {60, 90}
    Prices = {99, 100, 101}
    MaxOrders = 3
INVARIANTS
    TypeOK
    Conservation
    NeverOverdrawn
PROPERTY
    SettleIsIdempotent
