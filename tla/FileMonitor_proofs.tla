------------------------- MODULE FileMonitor_proofs -------------------------
(***************************************************************************)
(* Proofs about FileMonitor: its types, that no path is announced twice,   *)
(* and that no file created under a watch is missed.                       *)
(***************************************************************************)
EXTENDS FileMonitor, TLAPS

(* What makes AnnouncedOnce inductive: nothing is announced before the     *)
(* monitor is started; a path without metadata was never announced; and a  *)
(* flagged path has metadata and was not announced yet.                    *)
FlaggedIsUnannounced ==
  /\ phase = "off" => step = "idle" /\ \A p \in Paths : announced[p] = <<>>
  /\ flags # {} => step = "status"
  /\ \A p \in Paths : filemeta[p] = Unknown => announced[p] = <<>>
  /\ \A p \in flags : filemeta[p] # Unknown /\ announced[p] = <<>>
  /\ AnnouncedOnce

-----------------------------------------------------------------------------
(* Every variable of FileMonitor keeps to its range, for every tree and    *)
(* every number of edits (FileMonitor.cpp).                                *)
THEOREM MonitorTypeCorrect == Spec => []MonitorTypeOK
<1>1. Init => MonitorTypeOK
  BY TreeAssumption, MonitorAssumption DEF Init, MonitorTypeOK, Gone, Unknown
<1>2. MonitorTypeOK /\ [Next]_monitorVars => MonitorTypeOK'
  <2> SUFFICES ASSUME MonitorTypeOK, [Next]_monitorVars
               PROVE  MonitorTypeOK'
    OBVIOUS
  <2> USE TreeAssumption, MonitorAssumption DEF MonitorTypeOK, treeVars,
        watcherVars, handlerVars, historyVars, Gone, Unknown
  <2>1. CASE Start
    BY <2>1 DEF Start
  <2>2. CASE Stop
    BY <2>2 DEF Stop
  <2>3. ASSUME NEW d \in Dirs, DirectoryChanged(d)
        PROVE  MonitorTypeOK'
    <3>1. watched' \in SUBSET Dirs /\ noticed' \in SUBSET Dirs
      BY <2>3 DEF DirectoryChanged
    <3>2. dead' \in SUBSET Dirs
      BY <2>3 DEF DirectoryChanged
    <3>3. step' \in {"idle", "find", "emplace", "status"} /\ at' \in Dirs
      BY <2>3 DEF DirectoryChanged
    <3> QED
      BY <2>3, <3>1, <3>2, <3>3 DEF DirectoryChanged
  <2>4. CASE FindFiles
    BY <2>4 DEF FindFiles
  <2>5. CASE Emplace
    BY <2>5 DEF Emplace
  <2>6. ASSUME NEW p \in Paths, FileChanged(p)
        PROVE  MonitorTypeOK'
    <3>1. Status(p) \in ChangeTypes
      BY DEF Status, ChangeTypes
    <3>2. announced' \in [Paths -> Seq(ChangeTypes)]
      <4>1. Append(announced[p], Status(p)) \in Seq(ChangeTypes)
        BY <3>1
      <4>2. [announced EXCEPT ![p] = Append(@, Status(p))]
              \in [Paths -> Seq(ChangeTypes)]
        BY <4>1
      <4> QED
        BY <2>6, <4>2 DEF FileChanged
    <3>3. filemeta' \in [Paths -> Unknown .. MaxEdits]
      BY <2>6 DEF FileChanged
    <3>4. told' \in [Paths -> Gone .. MaxEdits] /\ flags' \in SUBSET Paths
      BY <2>6 DEF FileChanged
    <3> QED
      BY <2>6, <3>2, <3>3, <3>4 DEF FileChanged
  <2>7. CASE Return
    BY <2>7 DEF Return
  <2>8. ASSUME NEW p \in Paths, Write(p)
        PROVE  MonitorTypeOK'
    BY <2>8 DEF Write, Edited
  <2>9. ASSUME NEW p \in Paths, Remove(p)
        PROVE  MonitorTypeOK'
    BY <2>9 DEF Remove, Edited
  <2>10. ASSUME NEW d \in Dirs \ {Root}, MakeDir(d)
         PROVE  MonitorTypeOK'
    BY <2>10 DEF MakeDir, Edited
  <2>11. ASSUME NEW d \in Dirs \ {Root}, RemoveDir(d)
         PROVE  MonitorTypeOK'
    BY <2>11 DEF RemoveDir, Edited
  <2>12. CASE UNCHANGED monitorVars
    BY <2>12 DEF monitorVars
  <2> QED
    BY <2>1, <2>2, <2>3, <2>4, <2>5, <2>6, <2>7, <2>8, <2>9, <2>10, <2>11,
       <2>12 DEF Next, Handler, Editor
<1> QED
  BY <1>1, <1>2, PTL DEF Spec

-----------------------------------------------------------------------------
(* No path is ever announced twice (FileMonitor.cpp:186-213, 231-241): the *)
(* check of filemeta and the emplace after it are what it rests on, and    *)
(* nothing an editor does between two steps of the handler.                *)
THEOREM AnnouncedAtMostOnce == Spec => []AnnouncedOnce
<1>1. Init => FlaggedIsUnannounced
  BY DEF Init, FlaggedIsUnannounced, AnnouncedOnce
<1>2. MonitorTypeOK /\ FlaggedIsUnannounced /\ [Next]_monitorVars
        => FlaggedIsUnannounced'
  <2> SUFFICES ASSUME MonitorTypeOK, FlaggedIsUnannounced, [Next]_monitorVars
               PROVE  FlaggedIsUnannounced'
    OBVIOUS
  <2> USE DEF FlaggedIsUnannounced, AnnouncedOnce, treeVars, watcherVars,
        handlerVars, historyVars
  <2>1. CASE Start
    BY <2>1 DEF Start
  <2>2. CASE Stop
    BY <2>2 DEF Stop
  <2>3. ASSUME NEW d \in Dirs, DirectoryChanged(d)
        PROVE  FlaggedIsUnannounced'
    BY <2>3 DEF DirectoryChanged
  <2>4. CASE FindFiles
    BY <2>4 DEF FindFiles
  <2>5. CASE Emplace
    <3>1. \A p \in flags' : p \in Paths /\ filemeta[p] = Unknown
      BY <2>5 DEF Emplace, MonitorTypeOK
    <3>2. \A p \in flags' : filemeta'[p] # Unknown
      BY <2>5, <3>1 DEF Emplace, MonitorTypeOK, Gone, Unknown
    <3>3. \A p \in Paths : filemeta'[p] = Unknown => filemeta[p] = Unknown
      BY <2>5, <3>2 DEF Emplace
    <3> QED
      BY <2>5, <3>1, <3>2, <3>3 DEF Emplace
  <2>6. ASSUME NEW p \in Paths, FileChanged(p)
        PROVE  FlaggedIsUnannounced'
    <3>1. announced[p] = <<>> /\ filemeta[p] # Unknown
      BY <2>6 DEF FileChanged
    <3>2. announced' = [announced EXCEPT ![p] = Append(<<>>, Status(p))]
      BY <2>6, <3>1 DEF FileChanged
    <3>3. Len(announced'[p]) = 1
      BY <3>2 DEF MonitorTypeOK
    <3>4. \A q \in Paths \ {p} :
            announced'[q] = announced[q] /\ filemeta'[q] = filemeta[q]
      BY <2>6, <3>2 DEF FileChanged, MonitorTypeOK
    <3>5. filemeta'[p] # Unknown
      BY <2>6, <3>1 DEF FileChanged, MonitorTypeOK, Gone, Unknown
    <3>6. flags' = flags \ {p} /\ step' = "status" /\ phase' = phase /\ step = "status"
      BY <2>6 DEF FileChanged
    <3>7. phase # "off"
      BY <3>6
    <3>8. \A q \in flags' : filemeta'[q] # Unknown /\ announced'[q] = <<>>
      BY <3>4, <3>6 DEF MonitorTypeOK
    <3>9. AnnouncedOnce'
      <4>1. Len(announced'[p]) <= 1
        BY <3>3
      <4>2. \A q \in Paths \ {p} : Len(announced'[q]) <= 1
        BY <3>4
      <4> QED
        BY <4>1, <4>2
    <3>10. \A q \in Paths : filemeta'[q] = Unknown => announced'[q] = <<>>
      BY <3>4, <3>5
    <3> HIDE DEF AnnouncedOnce
    <3> QED
      BY <3>6, <3>7, <3>8, <3>9, <3>10
  <2>7. CASE Return
    BY <2>7 DEF Return
  <2>8. CASE Editor
    BY <2>8 DEF Editor, Write, Remove, MakeDir, RemoveDir, Edited
  <2>9. CASE UNCHANGED monitorVars
    BY <2>9 DEF monitorVars
  <2> QED
    BY <2>1, <2>2, <2>3, <2>4, <2>5, <2>6, <2>7, <2>8, <2>9 DEF Next, Handler
<1>3. FlaggedIsUnannounced => AnnouncedOnce
  BY DEF FlaggedIsUnannounced
<1> QED
  BY <1>1, <1>2, <1>3, MonitorTypeCorrect, PTL DEF Spec

-----------------------------------------------------------------------------
(* What makes NewFilesAreFound inductive: a file that was not found yet    *)
(* exists, in a directory that exists, and either a notification of that   *)
(* directory is pending, or the handler is about to list it.               *)
UnexaminedIsPending ==
  /\ phase = "off" => unexamined = {}
  /\ \A p \in Paths : file[p] # Gone => DirOf[p] \in folders
  /\ \A p \in unexamined : file[p] # Gone
  /\ phase = "on" => \A p \in unexamined :
                       DirOf[p] \in noticed \/ (step = "find" /\ at = DirOf[p])

(* No file created under a watch is missed, for every tree and every order *)
(* of edits, notifications and steps of the handler                        *)
(* (FileMonitor.cpp:168-200).                                              *)
THEOREM NoNewFileIsMissed == Spec => []NewFilesAreFound
<1>1. Init => UnexaminedIsPending
  BY DEF Init, UnexaminedIsPending, WorkTree
<1>2. MonitorTypeOK /\ UnexaminedIsPending /\ [Next]_monitorVars
        => UnexaminedIsPending'
  <2> SUFFICES ASSUME MonitorTypeOK, UnexaminedIsPending, [Next]_monitorVars
               PROVE  UnexaminedIsPending'
    OBVIOUS
  <2> USE DEF UnexaminedIsPending, treeVars, watcherVars, handlerVars,
        historyVars
  <2>1. CASE Start
    BY <2>1 DEF Start
  <2>2. CASE Stop
    BY <2>2 DEF Stop
  <2>3. ASSUME NEW d \in Dirs, DirectoryChanged(d)
        PROVE  UnexaminedIsPending'
    <3>1. CASE d \notin folders
      <4>1. \A p \in unexamined : DirOf[p] # d
        BY <3>1 DEF MonitorTypeOK
      <4> QED
        BY <2>3, <3>1, <4>1 DEF DirectoryChanged
    <3>2. CASE d \in folders
      BY <2>3, <3>2 DEF DirectoryChanged
    <3> QED
      BY <3>1, <3>2
  <2>4. CASE FindFiles
    <3>1. \A p \in unexamined' : p \in unexamined /\ p \notin found'
      BY <2>4 DEF FindFiles
    <3>2. \A p \in unexamined' : DirOf[p] # at
      BY <2>4, <3>1 DEF FindFiles, MonitorTypeOK
    <3> QED
      BY <2>4, <3>1, <3>2 DEF FindFiles
  <2>5. CASE Emplace
    BY <2>5 DEF Emplace
  <2>6. ASSUME NEW p \in Paths, FileChanged(p)
        PROVE  UnexaminedIsPending'
    BY <2>6 DEF FileChanged
  <2>7. CASE Return
    BY <2>7 DEF Return
  <2>8. ASSUME NEW p \in Paths, Write(p)
        PROVE  UnexaminedIsPending'
    <3>1. file'[p] # Gone
      BY <2>8 DEF Write, MonitorTypeOK, Gone
    <3>2. \A q \in Paths \ {p} : file'[q] = file[q]
      BY <2>8 DEF Write, MonitorTypeOK
    <3>3. unexamined' \subseteq unexamined \cup {p}
      BY <2>8 DEF Write
    <3>4. \A q \in Paths : file'[q] # Gone => DirOf[q] \in folders'
      BY <2>8, <3>2 DEF Write
    <3>5. \A q \in unexamined' : file'[q] # Gone
      BY <3>1, <3>2, <3>3 DEF MonitorTypeOK
    <3>6. phase = "on" /\ phase' = phase /\ step' = step /\ at' = at
      BY <2>8 DEF Write, Edited
    <3>7. \A q \in unexamined' :
            DirOf[q] \in noticed' \/ (step' = "find" /\ at' = DirOf[q])
      BY <2>8, <3>6 DEF Write
    <3> QED
      BY <3>4, <3>5, <3>6, <3>7
  <2>9. ASSUME NEW p \in Paths, Remove(p)
        PROVE  UnexaminedIsPending'
    <3>1. \A q \in Paths \ {p} : file'[q] = file[q]
      BY <2>9 DEF Remove, MonitorTypeOK
    <3>2. file'[p] = Gone
      BY <2>9 DEF Remove, MonitorTypeOK
    <3> QED
      BY <2>9, <3>1, <3>2 DEF Remove, Edited, MonitorTypeOK
  <2>10. ASSUME NEW d \in Dirs \ {Root}, MakeDir(d)
         PROVE  UnexaminedIsPending'
    BY <2>10 DEF MakeDir, Edited
  <2>11. ASSUME NEW d \in Dirs \ {Root}, RemoveDir(d)
         PROVE  UnexaminedIsPending'
    BY <2>11 DEF RemoveDir, Edited
  <2>12. CASE UNCHANGED monitorVars
    BY <2>12 DEF monitorVars
  <2> QED
    BY <2>1, <2>2, <2>3, <2>4, <2>5, <2>6, <2>7, <2>8, <2>9, <2>10, <2>11,
       <2>12 DEF Next, Handler, Editor
<1>3. UnexaminedIsPending => NewFilesAreFound
  BY DEF UnexaminedIsPending, NewFilesAreFound, Settled
<1> QED
  BY <1>1, <1>2, <1>3, MonitorTypeCorrect, PTL DEF Spec
=============================================================================
