\* Edits of a tree of three levels, around and inside the handler.
CONSTANTS
  InRoot = f
  InSub = g
  InDeep = h
  Paths = {f, g, h}
  Texts = {"v1"}
  IdModulus = 1
  Root = "root"
  Dirs = {"root", "sub", "deep"}
  DirOf <- OnePerLevel
  ParentOf <- Nested
  EndsInSlash = TRUE
  MaxEdits = 4
SPECIFICATION Spec
INVARIANTS MonitorTypeOK AnnouncedOnce NewFilesAreFound
CHECK_DEADLOCK FALSE
