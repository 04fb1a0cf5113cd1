SPECIFICATION RegistrySpec
CONSTANTS
  Workflows = {wf1}
  Credentials = {c1}
  Requests = {r1, r2}
  NoOne = NoOne
  MaxVersions = 2
  MaxSecrets = 1
INVARIANTS
  ActiveVersionsHaveCredentials
CHECK_DEADLOCK FALSE
