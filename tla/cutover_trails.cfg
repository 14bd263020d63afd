SPECIFICATION Spec
CONSTANTS
    Overlap = 0
    HttpLag = 1
    MaxBlock = 3
    MaxFaults = 1
PROPERTY KeepsPromise
CHECK_DEADLOCK FALSE
