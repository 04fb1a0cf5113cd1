SPECIFICATION FairRuntimeSpec
CONSTANTS
  Executions = {e1}
  LegacyQueued = {e1}
  Dispatchers = {w1, w2}
  NoOne = NoOne
  StepCount = 1
  MaxAttempts <- OneAttempt
  Concurrency = 1
  MaxFaults = 1
PROPERTIES
  EveryExecutionEnds
  EveryIntentIsSettled
CHECK_DEADLOCK FALSE
