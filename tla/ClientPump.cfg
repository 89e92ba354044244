\* Failures of the network and of the server, but neither stop() nor a lost
\* update of the list: the promise of SyncPump, and where it ends.
CONSTANTS
  Paths = {f, g}
  Texts = {"text"}
  IdModulus = 2
  Strict = TRUE
  OnDisk = {"text", "toobig"}
  Announced = {"modified", "removed"}
  MaxPool = 2
  MaxStops = 0
  Faults = {"refused", "drop", "partialRead", "serverClose"}
SPECIFICATION Spec
INVARIANTS CrashesOnlyAtRaces
PROPERTIES PumpSafely
CHECK_DEADLOCK FALSE
