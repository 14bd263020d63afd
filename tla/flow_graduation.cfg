SPECIFICATION FairSpec
CONSTANTS
    EndBlock = 3
    MaxBlock = 4
    MaxTrades = 1
    Grads = {2}
    PerBlock = 1
    Lag = 1
    Grace = 1
    HttpLag = 1
    RecoveryMax = 3
    Chunk = 2
    Span = 2
    QueueMax = 1
    Windows = {}
    MaxLosses = 1
    MaxCrashes = 0
    MaxFailures = 0
INVARIANTS
    CursorProved
PROPERTIES
    Retires
CHECK_DEADLOCK FALSE
