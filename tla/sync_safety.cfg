SPECIFICATION Spec
CONSTANTS
  Cluster = {c1, c2}
  MaxTime = 3
  Scenarios <- SafetyScenarios
  MaxRetries = 1
INVARIANTS
  OneBackupPerRun
PROPERTIES
  SyncAdvances
  CancelHolds
CHECK_DEADLOCK FALSE
