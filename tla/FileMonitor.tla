---------------------------- MODULE FileMonitor ----------------------------
(***************************************************************************)
(* The file monitor of the client, client/FileMonitor.cpp, with the        *)
(* listing of HEAD it starts from (git/Git.cpp, git/GitFile.cpp), the      *)
(* QFileSystemWatcher it uses, and somebody who edits the work tree, also  *)
(* while onDirectoryChanged is running.                                    *)
(*                                                                         *)
(* Only directoryChanged is connected, so the files the watcher watches    *)
(* play a part only in _all_file_inpath, which leaves them out; each of    *)
(* them has metadata, and files with metadata are left out anyway.  They   *)
(* are therefore no variable here.  A directory has one name; Qt would     *)
(* report one that is watched as "sub" and "sub/" twice, to the same end.  *)
(***************************************************************************)
EXTENDS VidProtocol

CONSTANTS
  Root,         \* the watched path
  Dirs,         \* the directories that may exist, Root included
  DirOf,        \* DirOf[p]: the directory a path is in
  ParentOf,     \* ParentOf[d]: the directory a directory is in
  EndsInSlash,  \* whether the watched path was given with a '/' at its end
  MaxEdits      \* bound: how often the work tree is changed

ASSUME TreeAssumption ==
  /\ Root \in Dirs /\ DirOf \in [Paths -> Dirs]
  /\ ParentOf \in [Dirs \ {Root} -> Dirs]
ASSUME MonitorAssumption == EndsInSlash \in BOOLEAN /\ MaxEdits \in Nat

VARIABLES
  \* the work tree
  head,       \* the files of HEAD
  file,       \* the file at each path: the edit that wrote it last, or Gone
  folders,    \* the directories that exist
  edits,      \* how many edits there were
  \* QFileSystemWatcher
  watched,    \* watcher->directories()
  dead,       \* those of them that were removed since they are watched
  noticed,    \* directories with a notification that is not delivered yet
  \* FileMonitor
  phase,      \* "off", "on" or "stopped"
  filemeta,   \* the metadata of a path: its file when recorded, or Unknown
  step,       \* "idle", or inside onDirectoryChanged
  at,         \* its argument
  found,      \* the files _all_file_inpath has found
  flags,      \* its flags
  \* history
  announced,  \* the signals fileChanged of each path
  told,       \* the file at each path when last announced, or at the start
  unexamined  \* files created under a watch and not found since

treeVars    == <<head, file, folders, edits>>
watcherVars == <<watched, dead, noticed>>
handlerVars == <<step, at, found, flags>>
historyVars == <<announced, told, unexamined>>
monitorVars ==
  <<treeVars, watcherVars, phase, filemeta, handlerVars, historyVars>>

Gone    == -1
Unknown == -2

-----------------------------------------------------------------------------
(* Git::allFiles.  The names of HEAD are glued to the root as it was given: *)
(* without a '/' they name nothing.  rootFiles, the files of the top level, *)
(* are never visited.                                                       *)
ListedFiles(files) ==
  IF EndsInSlash THEN {p \in files : DirOf[p] # Root} ELSE {}

Trees[d \in Dirs] == IF d = Root THEN {} ELSE {d} \cup Trees[ParentOf[d]]

ListedDirs(files) ==
  IF EndsInSlash THEN UNION {Trees[DirOf[p]] : p \in files} ELSE {}

-----------------------------------------------------------------------------
WorkTree(files, dirs) ==
  /\ Root \in dirs
  /\ \A d \in dirs \ {Root} : ParentOf[d] \in dirs
  /\ \A p \in Paths : files[p] # Gone => DirOf[p] \in dirs

Init ==
  /\ head \in SUBSET Paths
  /\ file \in [Paths -> {Gone, 0}] /\ folders \in SUBSET Dirs
  /\ WorkTree(file, folders) /\ edits = 0
  /\ watched = {} /\ dead = {} /\ noticed = {}
  /\ phase = "off" /\ filemeta = [p \in Paths |-> Unknown]
  /\ step = "idle" /\ at = Root /\ found = {} /\ flags = {}
  /\ announced = [p \in Paths |-> <<>>]
  /\ told = file /\ unexamined = {}

(* start(): directories that do not exist cannot be watched.  The metadata *)
(* of a listed file that does not exist is that of an empty one (Q_ASSERT  *)
(* is compiled out of a release).                                          *)
Start ==
  /\ phase = "off" /\ phase' = "on"
  /\ watched' = {Root} \cup (ListedDirs(head) \cap folders)
  /\ filemeta' = [p \in Paths |-> IF p \in ListedFiles(head) THEN file[p] ELSE Unknown]
  /\ UNCHANGED <<treeVars, dead, noticed, handlerVars, historyVars>>

(* stop(): no path is watched any more; the metadata stays. *)
Stop ==
  /\ phase = "on" /\ step = "idle" /\ phase' = "stopped"
  /\ watched' = {} /\ dead' = {} /\ noticed' = {}
  /\ UNCHANGED <<treeVars, filemeta, handlerVars, historyVars>>

-----------------------------------------------------------------------------
(* onDirectoryChanged: the directories.                                    *)

IsNewDir(d, e) == e # Root /\ ParentOf[e] = d /\ e \in folders /\ e \notin watched

(* BUG: a notification that brought new directories is not looked at any   *)
(* further.                                                                *)
DirectoryChangedDirsFirst(d) ==
  /\ phase = "on" /\ step = "idle" /\ d \in noticed
  /\ noticed' = noticed \ {d} /\ dead' = dead \ {d}
  /\ LET new == {e \in Dirs : IsNewDir(d, e)}
     IN  /\ watched' = (watched \ (dead \cap {d})) \cup new
         /\ step' = IF d \in folders /\ new = {} THEN "find" ELSE "idle"
         /\ at' = IF d \in folders /\ new = {} THEN d ELSE at
  /\ UNCHANGED <<treeVars, phase, filemeta, found, flags, historyVars>>

(* The watcher forgets a directory that was removed, and emits; the        *)
(* handler ends if there is none of that name.                             *)
DirectoryChanged(d) ==
  /\ phase = "on" /\ step = "idle" /\ d \in noticed
  /\ noticed' = noticed \ {d} /\ dead' = dead \ {d}
  /\ \/ /\ d \notin folders
        /\ watched' = watched \ {d}
        /\ UNCHANGED <<step, at>>
     \/ /\ d \in folders
        /\ watched' = (watched \ (dead \cap {d})) \cup {e \in Dirs : IsNewDir(d, e)}
        /\ step' = "find" /\ at' = d
  /\ UNCHANGED <<treeVars, phase, filemeta, found, flags, historyVars>>

(* onDirectoryChanged: the files.                                          *)
FindFiles ==
  /\ step = "find" /\ step' = "emplace"
  /\ found' = {p \in Paths : DirOf[p] = at /\ file[p] # Gone}
  /\ unexamined' = unexamined \ found'
  /\ UNCHANGED <<treeVars, watcherVars, phase, filemeta, at, flags,
                 announced, told>>

(* BUG: files that have metadata are flagged too. *)
EmplaceAll ==
  /\ step = "emplace" /\ step' = "status"
  /\ flags' \in SUBSET found
  /\ filemeta' = [p \in Paths |-> IF p \in flags' /\ filemeta[p] = Unknown
                                  THEN file[p] ELSE filemeta[p]]
  /\ UNCHANGED <<treeVars, watcherVars, phase, at, found, historyVars>>

(* isIgnored tests a string that is already destroyed (Git.cpp:149), so    *)
(* its answers are arbitrary; files that are not ignored and have no       *)
(* metadata get some, and are flagged.                                     *)
Emplace ==
  /\ step = "emplace" /\ step' = "status"
  /\ flags' \in SUBSET {p \in found : filemeta[p] = Unknown}
  /\ filemeta' = [p \in Paths |-> IF p \in flags' THEN file[p] ELSE filemeta[p]]
  /\ UNCHANGED <<treeVars, watcherVars, phase, at, found, historyVars>>

(* BUG: the status is sent as it is, nochanges (1000) included. *)
RawStatus(p) ==
  CASE file[p] = Gone -> "removed"
    [] file[p] # Gone /\ file[p] # filemeta[p] -> "modified"
    [] OTHER -> "nochanges"

(* FileMeta::status, and what it is announced as. *)
Status(p) ==
  CASE file[p] = Gone -> "removed"
    [] file[p] # Gone /\ file[p] # filemeta[p] -> "modified"
    [] OTHER -> "add"

(* _file_changed of a flagged file; sent is set by the first of them. *)
FileChanged(p) ==
  /\ step = "status" /\ p \in flags
  /\ flags' = flags \ {p}
  /\ LET sent == announced[p] # <<>>
     IN  announced' = IF Status(p) = "modified" \/ ~sent
                      THEN [announced EXCEPT ![p] = Append(@, Status(p))]
                      ELSE announced
  /\ told' = [told EXCEPT ![p] = file[p]]
  /\ filemeta' = [filemeta EXCEPT ![p] = IF file[p] = Gone THEN @ ELSE file[p]]
  /\ UNCHANGED <<treeVars, watcherVars, phase, step, at, found, unexamined>>

Return ==
  /\ step = "status" /\ flags = {} /\ step' = "idle" /\ found' = {}
  /\ UNCHANGED <<treeVars, watcherVars, phase, filemeta, at, flags, historyVars>>

Handler ==
  \/ \E d \in Dirs : DirectoryChanged(d)
  \/ FindFiles \/ Emplace \/ (\E p \in Paths : FileChanged(p)) \/ Return

-----------------------------------------------------------------------------
(* The work tree and what the watcher notices of it.  A directory is       *)
(* noticed when an entry of it comes or goes, or when it is removed.       *)

IsWatched(d) == d \in watched \ dead

Edited ==
  /\ phase = "on" /\ edits < MaxEdits /\ edits' = edits + 1
  /\ UNCHANGED <<head, phase, filemeta, handlerVars, announced, told>>

(* A file is created or written. *)
Write(p) ==
  /\ DirOf[p] \in folders
  /\ file' = [file EXCEPT ![p] = edits + 1]
  /\ LET isNoticed == file[p] = Gone /\ IsWatched(DirOf[p])
     IN  /\ noticed' = IF isNoticed THEN noticed \cup {DirOf[p]} ELSE noticed
         /\ unexamined' = IF isNoticed THEN unexamined \cup {p} ELSE unexamined
  /\ Edited /\ UNCHANGED <<folders, watched, dead>>

Remove(p) ==
  /\ file[p] # Gone
  /\ file' = [file EXCEPT ![p] = Gone]
  /\ noticed' = IF IsWatched(DirOf[p]) THEN noticed \cup {DirOf[p]} ELSE noticed
  /\ unexamined' = unexamined \ {p}
  /\ Edited /\ UNCHANGED <<folders, watched, dead>>

MakeDir(d) ==
  /\ d \notin folders /\ ParentOf[d] \in folders
  /\ folders' = folders \cup {d}
  /\ noticed' = IF IsWatched(ParentOf[d]) THEN noticed \cup {ParentOf[d]} ELSE noticed
  /\ Edited /\ UNCHANGED <<file, watched, dead, unexamined>>

RemoveDir(d) ==
  /\ d \in folders /\ \A p \in Paths : file[p] # Gone => DirOf[p] # d
  /\ \A e \in folders \ {Root} : ParentOf[e] # d
  /\ folders' = folders \ {d}
  /\ noticed' = noticed \cup {e \in {d, ParentOf[d]} : IsWatched(e)}
  /\ dead' = IF d \in watched THEN dead \cup {d} ELSE dead
  /\ Edited /\ UNCHANGED <<file, watched, unexamined>>

Editor ==
  \/ \E p \in Paths : Write(p) \/ Remove(p)
  \/ \E d \in Dirs \ {Root} : MakeDir(d) \/ RemoveDir(d)

Next == Start \/ Stop \/ Handler \/ Editor

Spec == Init /\ [][Next]_monitorVars

-----------------------------------------------------------------------------
(* Properties. *)

(* Every variable keeps to its range. *)
MonitorTypeOK ==
  /\ head \in SUBSET Paths /\ edits \in 0 .. MaxEdits
  /\ file \in [Paths -> Gone .. MaxEdits]
  /\ folders \in SUBSET Dirs /\ watched \in SUBSET Dirs
  /\ dead \in SUBSET Dirs /\ noticed \in SUBSET Dirs
  /\ phase \in {"off", "on", "stopped"}
  /\ filemeta \in [Paths -> Unknown .. MaxEdits]
  /\ step \in {"idle", "find", "emplace", "status"} /\ at \in Dirs
  /\ found \in SUBSET Paths /\ flags \in SUBSET Paths
  /\ announced \in [Paths -> Seq(ChangeTypes)]
  /\ told \in [Paths -> Gone .. MaxEdits] /\ unexamined \in SUBSET Paths

(* Nothing is pending between the watcher and the monitor. *)
Settled == phase = "on" /\ step = "idle" /\ noticed = {}

(* No path is ever announced twice, whatever is edited while the handler   *)
(* runs and however often its directory is removed and made again: so no   *)
(* removal reaches a pool that may hold an entry of its path, which        *)
(* FilePathPool::insert would erase under the worker                       *)
(* (FileMonitor.cpp:186-213, 231-241, ControlClient.cpp:33-43).            *)
AnnouncedOnce == \A p \in Paths : Len(announced[p]) <= 1

(* No file that is created in a directory that is being watched is missed: *)
(* when nothing is pending, each was listed after it was created, in spite *)
(* of notifications that are merged and handlers that overlap with edits   *)
(* (FileMonitor.cpp:166-198).                                              *)
NewFilesAreFound == Settled => unexamined = {}

(* What has changed under the watched path has been announced, as          *)
(* "本端更新文件，远端自动更新对应文件" (README.md:2) needs it.            *)
ChangesAreAnnounced ==
  Settled => \A p \in Paths : IsWatched(DirOf[p]) => told[p] = file[p]
=============================================================================
