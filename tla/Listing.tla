------------------------------ MODULE Listing ------------------------------
(***************************************************************************)
(* What both ends list of HEAD for directory_verification: Git::allFiles   *)
(* with GitFile on the client (git/*.cpp), vidserver/git.py on the server. *)
(*                                                                         *)
(* A path is a sequence of characters, because GitFile glues its parts and *)
(* the client cuts them by length.  A disk is a function from the absolute *)
(* paths of its files to their SHA-256.                                    *)
(***************************************************************************)
EXTENDS Integers, Sequences, FiniteSets

Slash == "/"

CutAfter(path, n) == SubSeq(path, n + 1, Len(path))   \* QString::mid

LastSlash(path) ==
  CHOOSE i \in 0 .. Len(path) :
    /\ i = 0 \/ path[i] = Slash
    /\ \A j \in DOMAIN path : path[j] = Slash => j <= i

IsInRoot(path) == LastSlash(path) = 0

EndsInSlash(path) == path # <<>> /\ path[Len(path)] = Slash

WithSlash(path) == IF EndsInSlash(path) THEN path ELSE path \o <<Slash>>

(* "/" is the one path that keeps its slash. *)
WithoutSlash(path) ==
  IF EndsInSlash(path) /\ Len(path) > 1 THEN SubSeq(path, 1, Len(path) - 1) ELSE path

(* QDir::absolutePath and os.path.abspath; an empty path is ".". *)
AbsolutePath(path, cwd) ==
  IF path = <<>> THEN cwd
  ELSE IF path[1] = Slash THEN WithoutSlash(path)
  ELSE WithSlash(cwd) \o WithoutSlash(path)

(* Both ends make names relative by length: what follows the root and one  *)
(* character more.  The dictionary keeps one of the files that end up      *)
(* under one name, the last.                                               *)
Contents(watchPath, hashes) ==
  LET Name(path) == CutAfter(path, Len(watchPath) + 1)
  IN  {contents \in [{Name(path) : path \in DOMAIN hashes} ->
                     {hashes[path] : path \in DOMAIN hashes}] :
         \A name \in DOMAIN contents :
           \E path \in DOMAIN hashes : Name(path) = name /\ hashes[path] = contents[name]}

-----------------------------------------------------------------------------
(* The client.                                                             *)

(* QDir::dirName, and the last part that os.path.split returns. *)
DirName(path) ==
  IF path = <<>> THEN <<".">>
  ELSE CutAfter(WithoutSlash(path), LastSlash(WithoutSlash(path)))

(* GitFile::visitFiles over the tree that walk_cb has added: rootFiles are *)
(* not among them, and no slash is put between the two parts.              *)
VisitFiles(root, head) == {root \o path : path \in {p \in head : ~IsInRoot(p)}}

(* files_hahs skips what it cannot open. *)
HashFiles(files, disk) == [path \in files \cap DOMAIN disk |-> disk[path]]

-----------------------------------------------------------------------------
(* The server.                                                             *)

(* all_files(watchPath), and the same names made relative. *)
AllFiles(watchPath, head) == {WithSlash(watchPath) \o path : path \in head}

RelativeFiles(watchPath, head) ==
  {CutAfter(path, Len(watchPath) + 1) : path \in AllFiles(watchPath, head)}

(* all_files raises for a repository without a commit, file_hash for a     *)
(* file that is not on the disk.                                           *)
CanHash(watchPath, head, disk) == AllFiles(watchPath, head) \subseteq DOMAIN disk

CanVerify(watchPath, repo) ==
  repo.committed /\ CanHash(watchPath, repo.head, repo.disk)

(* What file_hash may return. *)
FileHash(watchPath, head, disk) ==
  Contents(watchPath, [path \in AllFiles(watchPath, head) |-> disk[path]])

(* BUG: the files that only the server has are not looked for. *)
VerifyOneWay(watchPath, repo, rootName, contents) ==
  IF rootName # DirName(watchPath) THEN {403}
  ELSE IF DOMAIN contents \ RelativeFiles(watchPath, repo.head) # {} THEN {4} ELSE {0}

(* BUG: names are compared and hashes are not. *)
VerifyNames(watchPath, repo, rootName, contents) ==
  IF rootName # DirName(watchPath) THEN {403}
  ELSE IF RelativeFiles(watchPath, repo.head) # DOMAIN contents THEN {4} ELSE {0}

(* directory_verification: the codes it may answer.  The finally block     *)
(* answers 0 after an exception too.                                       *)
Verify(watchPath, repo, rootName, contents) ==
  IF rootName # DirName(watchPath) THEN {403}
  ELSE IF ~repo.committed THEN {0}
  ELSE IF RelativeFiles(watchPath, repo.head) # DOMAIN contents THEN {4}
  ELSE IF ~CanHash(watchPath, repo.head, repo.disk) THEN {0}
  ELSE {IF contents = hashes THEN 0 ELSE 5 :
          hashes \in FileHash(watchPath, repo.head, repo.disk)}
=============================================================================
