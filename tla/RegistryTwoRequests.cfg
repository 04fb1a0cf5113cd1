SPECIFICATION RegistrySpec
CONSTANTS
  Workflows = {wf1}
  Credentials = {c1}
  Requests = {r1, r2}
  NoOne = NoOne
  MaxVersions = 3
  MaxSecrets = 2
INVARIANTS
  ActiveIsPublished
  VersionNumbersDiffer
  LockedReadsHold
PROPERTIES
  SerialRequestsKeepCredentials
  TriggersLoseOnlyToPublication
  ImplementsHistory
CHECK_DEADLOCK FALSE
