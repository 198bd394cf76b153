SPECIFICATION Spec
CONSTANTS
  Source = src
  Standby = dst
  Requests <- PlainRequest
  Faults = {}
  MaxFaults = 0
  MaxEdits = 6
  MaxOps = 4
CHECK_DEADLOCK FALSE
INVARIANTS EveryCleanupScalesDown
