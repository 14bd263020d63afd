\* Every fault once: one crash, lost connection, failing call and reorganisation.
SPECIFICATION Spec
CONSTANTS
  Logs = {l1, l2}
  Confirmations = 0
  LiveOverlap = 1
  StartupRecoveryMax = 2
  RecoveryMax = 2
  QueueSize = 1
  MaxBlock = 4
  MaxPerBlock = 1
  MaxCrashes = 1
  MaxDrops = 1
  MaxFailures = 1
  MaxReorgs = 1
  MaxFaults = 2
  RpcLag = 2
SYMMETRY LogSymmetry
INVARIANTS
  TypeOK
  SegmentBehindCheckpoint
  CoverageCanonical
  StoredIsCovered
