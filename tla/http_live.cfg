\* Reorganisations of any depth, a crash, a failing call, a lagging read and a reconnection.
SPECIFICATION FairSpec
CONSTANTS
  Logs = {l1}
  Confirmations = 0
  LiveOverlap = 2
  RecoveryMax = 3
  Batch = 2
  Retention = 4
  ReorgDepth = 3
  RetryAttempts = 4
  MaxBlock = 5
  MaxReorgs = 2
  MaxCrashes = 1
  MaxFailures = 1
  MaxLags = 1
  RpcLag = 1
  MaxLinks = 2
  MaxBackfills = 1
  MaxRestarts = 1
  MaxFaults = 2
INVARIANTS
  TypeOK
  NoHoles
  CheckpointCertifies
PROPERTIES
  OnlyDeepForksStop
  EventuallySynced
CHECK_DEADLOCK FALSE
