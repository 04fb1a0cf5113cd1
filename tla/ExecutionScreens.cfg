SPECIFICATION ScreensSpec
CONSTANTS
  Executions = {1, 2}
  AlreadyQueued = {1}
  StepCount = 1
  CreatedAt <- OnePerMillisecond
  MicrosPerMilli = 3
  Filters = {"running"}
  Limit = 1
  History = History
  None = None
  MaxInFlight = 2
INVARIANTS
  ShownEndIsComplete
  ListIsInOrder
  EveryExecutionIsListed
PROPERTIES
  OnlyCancellationIsTakenBack
  EndsAreShown
