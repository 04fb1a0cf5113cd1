SPECIFICATION EditorSpec
CONSTANTS
  key = key
  Start = Start
  NoStep = NoStep
  Keys <- OneKey
  Configs <- AllConfigs
  ValidConfigs <- AcceptedConfigs
  Templates <- NewWorkflow
  OtherDrafts <- SingleSteps
  MaxVersions = 3
INVARIANTS
  SavedIsLoadedVersion
  ShownTextIsAccountedFor
PROPERTIES
  PublishesWhatIsShown
  SaveShowsItsVersion
