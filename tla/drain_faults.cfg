SPECIFICATION DSpec
CONSTANTS
  Grad = 1
  EndBlock = 3
  MaxTip = 5
  MaxGaps = 2
  Span = 2
  DebtMax = 2
  Overlap = 0
  HttpLag = 1
  MaxRounds = 2
  FirstHead = 2
INVARIANTS HealthyMeansWhole SafeIsStored
PROPERTY KeepsPromise
CHECK_DEADLOCK FALSE
