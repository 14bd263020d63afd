SPECIFICATION Spec
CONSTANTS
    EndBlock = 3
    MaxBlock = 4
    MaxTrades = 2
    Grads = {}
    PerBlock = 1
    Lag = 1
    Grace = 1
    HttpLag = 0
    RecoveryMax = 3
    Chunk = 2
    Span = 2
    QueueMax = 1
    Windows = {3}
    MaxLosses = 1
    MaxCrashes = 1
    MaxFailures = 1
INVARIANTS
    CursorProved
    FeatureTruth
    MissingIsVisible
PROPERTIES
    GapsCloseByProof
CHECK_DEADLOCK FALSE
