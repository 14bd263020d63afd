SPECIFICATION Spec
CONSTANTS
    Overlap = 0
    HttpLag = 0
    MaxBlock = 3
    MaxFaults = 2
INVARIANT ReadyMeansProved
PROPERTY KeepsPromise
CHECK_DEADLOCK FALSE
