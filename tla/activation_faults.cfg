SPECIFICATION ASpec
CONSTANTS
  a = a
  b = b
  Filters <- MCFilters
  Base <- MCBase
  MaxBlock = 3
  Span = 2
  HttpLag = 1
  MaxFaults = 2
INVARIANTS HealthyMeansWhole PublishedIsWhole
PROPERTIES KeepsPromise ActivationSettles
CHECK_DEADLOCK FALSE
