\* Edits, removals, files that are not UTF-8 and everything that can fail.
CONSTANTS
  InRoot = f
  InSub = g
  Paths = {f, g}
  Texts = {"v1", "v2"}
  IdModulus = 2
  Strict = FALSE
  OnDisk = {"v2", "absent", "binary"}
  Announced = {"modified", "add", "removed"}
  MaxPool = 3
  MaxStops = 0
  Faults = {"drop", "serverClose"}
  Root = "root"
  Dirs = {"root", "sub"}
  DirOf <- OnePerDirectory
  ServerFaults = {"remove", "write", "hash", "shortRecv"}
  MaxInFlight = 1
  MaxEdits = 3
SPECIFICATION SessionSpec
INVARIANTS SessionTypeOK MirrorWhenQuiet
PROPERTIES ClientSpec ServerSpec SuccessMeansAppliedOrClosed
CHECK_DEADLOCK FALSE
