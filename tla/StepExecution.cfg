SPECIFICATION FairSpec
CONSTANTS
  Steps <- MCSteps
  Definitions <- MCDefinitions
  Triggers <- MCTriggers
  Answers <- MCAnswers
INVARIANTS
  EarlierResultsAvailable
  AiFieldsResolve
PROPERTIES
  RetriesFollowTransientFailures
  EveryExecutionEnds
CHECK_DEADLOCK FALSE
