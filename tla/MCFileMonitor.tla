--------------------------- MODULE MCFileMonitor ---------------------------
(* FileMonitor for TLC: a file in the root, one in a directory of it and   *)
(* one in a directory of that.                                             *)
EXTENDS FileMonitor

CONSTANTS InRoot, InSub, InDeep

OnePerLevel == [p \in Paths |-> CASE p = InRoot -> "root"
                                  [] p = InSub -> "sub"
                                  [] p = InDeep -> "deep"]

Nested == [d \in Dirs \ {Root} |-> IF d = "deep" THEN "sub" ELSE "root"]
=============================================================================
