SPECIFICATION Spec
CONSTANTS
  Executions = {e1}
  LegacyQueued = {}
  Dispatchers = {d1, d2}
  NoOne = NoOne
  StepCount = 2
  MaxAttempts <- TwoThenOne
INVARIANTS
  ExecutionAndStepsAgree
  OverrunsBoundedByScans
  QueuedStepHasIntent
  IntentsFollowAttempts
  IntentsEndWithCancellation
  TimelineRebuildsState
  TimelineFollowsStateMachine
PROPERTIES
  RunnableTransitionWritesIntent
  ImplementsLifecycle
SYMMETRY ProcessSymmetry
CHECK_DEADLOCK FALSE
