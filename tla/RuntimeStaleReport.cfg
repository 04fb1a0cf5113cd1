SPECIFICATION RuntimeSpec
CONSTANTS
  Executions = {e1}
  LegacyQueued = {}
  Dispatchers = {w1}
  NoOne = NoOne
  StepCount = 1
  MaxAttempts <- TwoAttempts
  Concurrency = 2
  MaxFaults = 0
PROPERTIES
  OnlyLatestAttemptFails
CHECK_DEADLOCK FALSE
