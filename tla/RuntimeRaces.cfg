SPECIFICATION RuntimeSpec
CONSTANTS
  Executions = {e1}
  LegacyQueued = {}
  Dispatchers = {w1, w2}
  NoOne = NoOne
  StepCount = 1
  MaxAttempts <- OneAttempt
  Concurrency = 1
  MaxFaults = 3
PROPERTIES
  DispatchedAfterPublication
SYMMETRY ProcessSymmetry
CHECK_DEADLOCK FALSE
