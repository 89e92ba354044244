\* A removal may be refused; nothing else fails.
CONSTANTS
  InRoot = f
  InSub = g
  Paths = {f, g}
  Texts = {"v1", "v2"}
  IdModulus = 2
  Strict = FALSE
  OnDisk = {"v2", "absent"}
  Announced = {"modified", "add", "removed"}
  MaxPool = 2
  MaxStops = 0
  Faults = {}
  Root = "root"
  Dirs = {"root", "sub"}
  DirOf <- OnePerDirectory
  ServerFaults = {"remove"}
  MaxInFlight = 1
  MaxEdits = 3
SPECIFICATION SessionFairSpec
PROPERTIES AnnouncedArrives
CHECK_DEADLOCK FALSE
