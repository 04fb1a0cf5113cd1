SPECIFICATION FairRuntimeSpec
CONSTANTS
  Executions = {e1}
  LegacyQueued = {}
  Dispatchers = {w1}
  NoOne = NoOne
  StepCount = 1
  MaxAttempts <- TwoAttempts
  Concurrency = 2
  MaxFaults = 1
INVARIANTS
  AttemptHasOneWorker
PROPERTIES
  RuntimeUsesStore
  EveryExecutionEnds
CHECK_DEADLOCK FALSE
