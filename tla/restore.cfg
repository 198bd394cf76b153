SPECIFICATION FairSpec
CONSTANTS
  Lifecycles = {TRUE, FALSE}
  RetryLimit = 1
  Faults = {"lostWrite", "client", "call", "stall", "restart", "vanish", "noCluster"}
  MaxFaults = 2
  MaxEdits = 2
INVARIANTS
  CancelledMeansStopped
  DeletedMeansCleaned
PROPERTIES
  RerunOnlyOnRequest
  RestoreEnds
CHECK_DEADLOCK FALSE
