\* Everything that can fail, stop() included.
CONSTANTS
  Paths = {f, g}
  Texts = {"text"}
  IdModulus = 3
  Strict = FALSE
  OnDisk = {"text", "absent", "toobig"}
  Announced = {"modified", "add", "removed"}
  MaxPool = 2
  MaxStops = 2
  Faults = {"refused", "drop", "partialRead", "git", "serverClose", "race"}
SPECIFICATION Spec
SYMMETRY PathSymmetry
INVARIANTS TypeOK OneDiffOutstanding SlotDiscipline ResponsesAreAwaited
CHECK_DEADLOCK FALSE
