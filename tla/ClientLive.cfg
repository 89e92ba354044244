\* Nothing fails and no file is too big: the changes get through.
CONSTANTS
  Paths = {f, g}
  Texts = {"text"}
  IdModulus = 2
  Strict = FALSE
  OnDisk = {"text"}
  Announced = {"modified", "add"}
  MaxPool = 2
  MaxStops = 0
  Faults = {}
SPECIFICATION FairSpec
PROPERTIES ChangesAreSent PumpFairly
