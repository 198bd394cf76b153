SPECIFICATION FairSpec
CONSTANTS
  Cluster = {c1, c2}
  MaxTime = 2
  Scenarios <- CalmScenarios
  MaxRetries = 1
PROPERTIES
  SyncEnds
  TriggerAnswered
  OperationEnds
CHECK_DEADLOCK FALSE
