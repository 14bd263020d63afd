SPECIFICATION FairSpec
CONSTANTS
    MaxBlock = 3
    MaxFaults = 2
INVARIANT
    HealthyIsProved
PROPERTIES
    KeepsPromise
    BoundaryFixed
    SwitchSettles
CHECK_DEADLOCK FALSE
