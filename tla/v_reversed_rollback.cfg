CONSTANTS
  Workload = {w1, w2}
  Op = {o1}
  Source = Source
  Target = Target
  NoCluster = NoCluster
  Faults = {"timeout"}
  Mixes <- JustFailover
  MaxTime = 3
  Starts = {"target"}
  ManualSync = FALSE
  AllowSkip = FALSE
  AllowDelete = FALSE
SPECIFICATION Spec
SYMMETRY Symmetry
CHECK_DEADLOCK FALSE
PROPERTIES RollbackRestores
