CONSTANTS
  Clients = {c1, c2}
  Machines <- MCMachines
  Remotes <- MCRemotes
  TestPaths <- MCTestPaths
  Cwd <- MCCwd
  DefaultPath <- MCDefaultPath
  Invalid = Invalid
  DefaultPort = 9010
  DefaultHost = "localhost"

SPECIFICATION Spec
CHECK_DEADLOCK FALSE

INVARIANTS
  StartupTypeOK
  SettingsAreDefaults
  VerifiedMeansSent
  OnlyEmptyPasses
PROPERTY
  QueuedIsServed
