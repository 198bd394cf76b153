SPECIFICATION FairSpec
CONSTANTS
  Source = src
  Standby = dst
  Requests <- MCRequests
  Faults = {"lostWrite", "callError", "switch", "backup", "cluster", "deleteInstance", "deleteOp", "deleteRestore", "cancelRestore", "pods", "deleteDrill"}
  MaxFaults = 2
  MaxEdits = 4
  MaxOps = 4
CHECK_DEADLOCK FALSE
INVARIANTS OneDrillInFlight EveryRunConfirmed
PROPERTIES CompletedMeansRestored CleanedUpMeansDown DrillEnds
