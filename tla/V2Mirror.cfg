CONSTANTS
  Paths <- MCPaths
  Ignored <- MCIgnored
  Forbidden <- MCForbidden
  Contents <- MCContents
  Starts <- MCStarts
  EditKinds = {"create", "write", "touch", "mkdir", "remove", "rename"}
  Faults = {"read", "write", "reset"}
  MaxEdits = 4

SPECIFICATION Spec
CHECK_DEADLOCK FALSE

INVARIANTS
  V2TypeOK
  DamageIsLocal
  NamesAreMirrored
  OnlyLossKills
