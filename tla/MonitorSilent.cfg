\* Edits of files that are known, in directories that are watched.
CONSTANTS
  InRoot = f
  InSub = g
  InDeep = h
  Paths = {f, g, h}
  Texts = {"v1"}
  IdModulus = 1
  Root = "root"
  Dirs = {"root", "sub", "deep"}
  DirOf <- OnePerLevel
  ParentOf <- Nested
  EndsInSlash = FALSE
  MaxEdits = 2
SPECIFICATION Spec
INVARIANTS ChangesAreAnnounced
CHECK_DEADLOCK FALSE
