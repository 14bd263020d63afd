\* A connection that holds and calls that answer: crashes and a full queue remain.
SPECIFICATION FairSpec
CONSTANTS
  Logs = {l1, l2}
  Confirmations = 0
  LiveOverlap = 1
  StartupRecoveryMax = 2
  RecoveryMax = 2
  QueueSize = 1
  MaxBlock = 6
  MaxPerBlock = 2
  MaxCrashes = 1
  MaxDrops = 0
  MaxFailures = 0
  MaxReorgs = 0
  MaxFaults = 1
  RpcLag = 0
INVARIANTS
  NothingSilentlyMissing
  EveryBlockAccounted
PROPERTIES
  EventSettled
  OverflowRepaired
