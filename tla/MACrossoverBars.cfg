SPECIFICATION Spec
CONSTANTS
    FastPeriod = 2
    SlowPeriod = 3
    NoSignal = None
    Prices = {1, 2, 4}
    MaxBars = 7
INVARIANTS
    SignalIsACrossing
    MirroredPricesMirrorSignals
