SPECIFICATION CapSpec
CONSTANTS
    sA = sA
    sB = sB
    Sources <- MCSources
    Tokens = {t1, t2, t3}
    Concurrency <- MCConcurrency
    StarvationSeconds = 2
    MaxLag = 1
    NoSource = NoSource
INVARIANTS
    CounterMatchesLeases
    NoOversubscription
PROPERTIES
    DrainBeforeSwap
    StarvationStopsActive
