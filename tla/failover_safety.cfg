CONSTANTS
  Workload = {w1, w2}
  Op = {o1, o2}
  Source = Source
  Target = Target
  NoCluster = NoCluster
  Faults = {"lostWrite", "stepError", "timeout"}
  Mixes <- SafetyMixes
  MaxTime = 5
  Starts = {"fresh"}
  ManualSync = FALSE
  AllowSkip = TRUE
  AllowDelete = FALSE
SPECIFICATION Spec
SYMMETRY Symmetry
CHECK_DEADLOCK FALSE
INVARIANTS TypeOK NoDualActive RolesDistinct FailoverExclusive
PROPERTIES RollbackRestores SwitchServes UndoOfSwitchRestores OperationsFollowLifecycle
