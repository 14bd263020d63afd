SPECIFICATION MarketSpec
CONSTANTS
  a = a
  b = b
  Launches <- MCLaunches
  Ages = {0, 1}
  Stuck <- MCStuck
  MinuteLimit = 4
  DailyLimit = 7
  PassLimit = 2
  MaxLaunch = 1
  MaxTime = 2
  MaxMishaps = 2
INVARIANTS MarketTypeOK BudgetBounded
PROPERTIES OutcomesFinal TargetsSettle
