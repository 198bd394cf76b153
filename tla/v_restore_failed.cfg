SPECIFICATION Spec
CONSTANTS
  Lifecycles = {TRUE}
  RetryLimit = 1
  Faults = {}
  MaxFaults = 0
  MaxEdits = 0
PROPERTIES
  ConfirmedMeansFailed
CHECK_DEADLOCK FALSE
