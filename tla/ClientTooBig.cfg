\* One file of more than 10 MiB among the changes.
CONSTANTS
  Paths = {f, g}
  Texts = {"text"}
  IdModulus = 2
  Strict = FALSE
  OnDisk = {"text", "toobig"}
  Announced = {"modified"}
  MaxPool = 1
  MaxStops = 0
  Faults = {}
SPECIFICATION FairSpec
PROPERTIES ChangesAreSent
