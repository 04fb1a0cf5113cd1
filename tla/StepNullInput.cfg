SPECIFICATION Spec
CONSTANTS
  Steps <- MCSteps
  Definitions <- MCDefinitions
  Triggers <- MCTriggers
  Answers <- MCAnswers
INVARIANTS
  StepInputIsPreviousOutput
CHECK_DEADLOCK FALSE
