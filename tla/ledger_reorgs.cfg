SPECIFICATION Spec
CONSTANTS
    Launches = {1, 2}
    None = None
    Trades <- MCTrades
    Owner <- MCOwner
    Home <- MCHome
    Start <- MCStart
    Cut <- MCCut
    End <- MCEnd
    Born = {2}
    Lag = 1
    Overlap = 2
    Depth = 2
    MaxBlock = 4
    MaxReorgs = 1
    MaxStops = 1
INVARIANTS
    RowsMatchStore
    LedgerAgrees
    CompleteIsCanonical
CHECK_DEADLOCK FALSE
