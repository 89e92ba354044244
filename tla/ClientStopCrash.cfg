\* One call of stop(), at any time.
CONSTANTS
  Paths = {f}
  Texts = {"text"}
  IdModulus = 2
  Strict = FALSE
  OnDisk = {"text"}
  Announced = {"modified"}
  MaxPool = 1
  MaxStops = 1
  Faults = {}
SPECIFICATION Spec
PROPERTIES StopIsSafe
CHECK_DEADLOCK FALSE
