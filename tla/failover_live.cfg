CONSTANTS
  Workload = {w1}
  Op = {o1, o2}
  Source = Source
  Target = Target
  NoCluster = NoCluster
  Faults = {"timeout", "sync", "config"}
  Mixes <- LiveMixes
  MaxTime = 4
  Starts = {"target"}
  ManualSync = FALSE
  AllowSkip = FALSE
  AllowDelete = TRUE
SPECIFICATION FairSpec
CHECK_DEADLOCK FALSE
INVARIANTS ConfigErrorRemembers
PROPERTIES OperationsEnd SwitchesEnd
