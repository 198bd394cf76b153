SPECIFICATION Spec
CONSTANTS
  Cluster = {c1, c2}
  MaxTime = 2
  Scenarios <- ShortScenarios
  MaxRetries = 0
PROPERTIES
  SyncIsCurrent
CHECK_DEADLOCK FALSE
