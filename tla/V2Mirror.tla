------------------------------ MODULE V2Mirror ------------------------------
(***************************************************************************)
(* Version 2 of Vid (v2/vid): watchdog reports what happens under the work *)
(* directory, FileEventHandler posts each event to the server over HTTPS   *)
(* and waits for the answer, and the server repeats it under its own work  *)
(* directory.  The event queue, the event order and the requests library   *)
(* are external and taken as client/monitor.py uses them.                  *)
(*                                                                         *)
(* A path is the sequence of its names below the work directory, which is  *)
(* <<>>.  What a file contains is read when its event is dispatched, which *)
(* may be long after it happened.                                          *)
(***************************************************************************)
EXTENDS Integers, Sequences, SequencesExt, FiniteSets

CONSTANTS
  Paths,      \* the paths that may exist, the work directory left out
  Contents,   \* what a file may contain
  Ignored,    \* paths whose last name is .DS_Store
  Forbidden,  \* paths with ".." in them or "~" first
  Starts,     \* the trees both sides may start from
  EditKinds,  \* what the user does: a subset of AllEditKinds
  Faults,     \* what fails: a subset of AllFaults
  MaxEdits    \* bound: edits of the user

AllEditKinds == {"create", "write", "touch", "mkdir", "remove", "rename"}

AllFaults == {
  "read",    \* open or read of what is there fails on the client: no permission,
             \* a symbolic link to nothing
  "write",   \* open, write or remove fails on the server: a full disk, ...
  "reset"}   \* requests.post raises: the server is down or goes down

Absent == "absent"
Dir    == "dir"
Empty  == "empty"
Torn   == "torn"   \* truncated, and then written in part

WorkDir == <<>>
Nodes   == Paths \cup {WorkDir}

(* A file system has finitely many paths: names and paths are bounded. *)
ASSUME PathsAssumption ==
  /\ Paths \subseteq Seq(STRING) /\ IsFiniteSet(Paths)
  /\ \A p \in Paths : p # WorkDir /\ Front(p) \in Nodes
ASSUME NamesAssumption == Ignored \cup Forbidden \subseteq Paths
ASSUME BoundsAssumption ==
  MaxEdits \in Nat /\ EditKinds \subseteq AllEditKinds /\ Faults \subseteq AllFaults
ASSUME ContentsAssumption ==
  Empty \in Contents /\ Contents \cap {Absent, Dir, Torn} = {}

VARIABLES
  local,     \* what is at each path on the client
  remote,    \* and on the server
  events,    \* watchdog's queue
  post,      \* the request on its way to the server, or NoPost
  observer,  \* the thread that dispatches events: "running" or "dead"
  history    \* the number of edits, their kinds, the paths disturbed by
             \* renames and failures; no action depends on the last two

vars == <<local, remote, events, post, observer, history>>

-----------------------------------------------------------------------------
(* Messages: proto/filec.proto. *)
FileTexts == Contents \cup {Torn}

Posts ==
  [op : {"created"}, path : Paths, isDir : {TRUE}]
    \cup [op : {"created", "modified"}, path : Paths, isDir : {FALSE},
          content : Contents]
    \cup [op : {"deleted"}, path : Paths, isDir : BOOLEAN]
    \cup [op : {"moved"}, path : Paths, dst : Paths, isDir : BOOLEAN]

NoPost == [op |-> "none"]

Events ==
  [op : {"created", "modified", "deleted"}, path : Paths, isDir : BOOLEAN]
    \cup [op : {"moved"}, path : Paths, dst : Paths, isDir : BOOLEAN]

Event(op, p) == [op |-> op, path |-> p, isDir |-> local[p] = Dir]

-----------------------------------------------------------------------------
(* Trees. *)
Tree(t) ==
  /\ t[WorkDir] = Dir
  /\ \A p \in Paths : t[p] # Absent => t[Front(p)] = Dir

ASSUME StartsAssumption ==
  Starts \subseteq {t \in [Nodes -> {Absent, Dir} \cup Contents] : Tree(t)}

Subtree == [p \in Nodes |-> {q \in Nodes : IsPrefix(p, q)}]

Below(t, p) == {q \in Subtree[p] \ {p} : t[q] # Absent}

IsFile(node) == node \notin {Absent, Dir}

(* Nothing is sent when the client starts: the user has copied the tree.   *)
Init ==
  /\ local \in Starts /\ remote = local
  /\ events = <<>> /\ post = NoPost /\ observer = "running"
  /\ history = [edits |-> 0, kinds |-> {}, disturbed |-> {}]

-----------------------------------------------------------------------------
(* The user.                                                               *)

Edit(kind, disturbed) ==
  /\ history.edits < MaxEdits
  /\ history' = [edits |-> history.edits + 1,
                 kinds |-> history.kinds \cup {kind},
                 disturbed |-> history.disturbed \cup disturbed]
  /\ UNCHANGED <<remote, post, observer>>

Create(p) ==
  /\ local[p] = Absent /\ local[Front(p)] = Dir
  /\ local' = [local EXCEPT ![p] = Empty]
  /\ events' = Append(events, Event("created", p))
  /\ Edit("create", {})

Write(p) ==
  /\ IsFile(local[p])
  /\ \E c \in Contents : local' = [local EXCEPT ![p] = c]
  /\ events' = Append(events, Event("modified", p))
  /\ Edit("write", {})

(* The attributes of a directory change, or what is in it. *)
Touch(p) ==
  /\ local[p] = Dir
  /\ events' = Append(events, Event("modified", p))
  /\ Edit("touch", {}) /\ UNCHANGED local

Mkdir(p) ==
  /\ local[p] = Absent /\ local[Front(p)] = Dir
  /\ local' = [local EXCEPT ![p] = Dir]
  /\ events' = Append(events, [Event("created", p) EXCEPT !.isDir = TRUE])
  /\ Edit("mkdir", {})

Delete(p) ==
  /\ local[p] # Absent /\ Below(local, p) = {}
  /\ local' = [local EXCEPT ![p] = Absent]
  /\ events' = Append(events, Event("deleted", p))
  /\ Edit("remove", {})

(* The path of r after p has been renamed to q. *)
Moved(r, p, q) == q \o SubSeq(r, Len(p) + 1, Len(r))

MovedEvent(r, p, q) ==
  [op |-> "moved", path |-> r, dst |-> Moved(r, p, q), isDir |-> local[r] = Dir]

(* watchdog reports a directory before what is in it. *)
MovedEvents(p, q) ==
  LET tops == {p} \cup Below(local, p)
  IN  { s \in SetToSeqs({MovedEvent(r, p, q) : r \in tops}) :
          \A i, j \in DOMAIN s : s[j].path \in Subtree[s[i].path] => i <= j }

(* A rename of one ordinary file is what on_moved is written for. *)
RenameKind(p, q) ==
  IF IsFile(local[p]) /\ {p, q} \cap (Ignored \cup Forbidden) = {}
  THEN "renameFile" ELSE "renameOther"

Rename(p, q) ==
  /\ local[p] # Absent /\ local[Front(q)] = Dir /\ q \notin Subtree[p]
  /\ IF local[p] = Dir THEN local[q] \in {Absent, Dir} /\ Below(local, q) = {}
                       ELSE local[q] # Dir
  /\ \A r \in Below(local, p) : Moved(r, p, q) \in Paths
  /\ local' = [r \in Nodes |->
       IF r \in Subtree[p] THEN Absent
       ELSE IF r \in Subtree[q]
            THEN IF Moved(r, q, p) \in Paths THEN local[Moved(r, q, p)] ELSE Absent
            ELSE local[r]]
  /\ \E moves \in MovedEvents(p, q) : events' = events \o moves
  /\ Edit(RenameKind(p, q), {p, q})

User ==
  \E p \in Paths :
    \/ "create" \in EditKinds /\ Create(p)
    \/ "write"  \in EditKinds /\ Write(p)
    \/ "touch"  \in EditKinds /\ Touch(p)
    \/ "mkdir"  \in EditKinds /\ Mkdir(p)
    \/ "remove" \in EditKinds /\ Delete(p)
    \/ "rename" \in EditKinds /\ \E q \in Paths : Rename(p, q)

-----------------------------------------------------------------------------
(* FileEventHandler: one event, up to its post.                            *)

Dispatching(ops) ==
  /\ observer = "running" /\ post = NoPost /\ events # <<>>
  /\ Head(events).op \in ops
  /\ events' = Tail(events)
  /\ UNCHANGED <<local, remote>>

E == Head(events)

Send(message) == post' = message /\ UNCHANGED <<observer, history>>

Skip == UNCHANGED <<post, observer, history>>

(* An exception leaves run() of the thread; start() sleeps on. *)
Die == observer' = "dead" /\ UNCHANGED <<post, history>>

Unreadable ==
  /\ "read" \in Faults
  /\ observer' = "dead" /\ UNCHANGED post
  /\ history' = [history EXCEPT !.kinds = @ \cup {"unreadable"}]

WithContent ==
  [op |-> E.op, path |-> E.path, isDir |-> FALSE, content |-> local[E.path]]

(* open() and read() of the file, now. *)
SendContent ==
  IF IsFile(local[E.path]) THEN Send(WithContent) \/ Unreadable ELSE Die

(* on_moved looks at nothing, neither the name nor the disk. *)
OnMoved == Dispatching({"moved"}) /\ Send(E)

OnCreated ==
  /\ Dispatching({"created"})
  /\ IF E.path \in Ignored THEN Skip
     ELSE IF local[E.path] = Absent THEN Die
     ELSE IF E.isDir THEN Send(E) ELSE SendContent

OnDeleted ==
  /\ Dispatching({"deleted"})
  /\ IF E.path \in Ignored THEN Skip ELSE Send(E)

(* BUG: the exception of a file that is gone is swallowed. *)
OnModifiedSwallow ==
  /\ Dispatching({"modified"})
  /\ IF E.path \in Ignored \/ E.isDir THEN Skip ELSE Send(WithContent)

(* BUG: a file without content is taken for one that could not be read. *)
OnModifiedNotEmpty ==
  /\ Dispatching({"modified"})
  /\ IF E.path \in Ignored \/ E.isDir \/ local[E.path] = Empty THEN Skip
     ELSE SendContent

(* BUG: directories are opened like files. *)
OnModifiedDirectory ==
  /\ Dispatching({"modified"})
  /\ IF E.path \in Ignored THEN Skip ELSE SendContent

OnModified ==
  /\ Dispatching({"modified"})
  /\ IF E.path \in Ignored \/ E.isDir THEN Skip ELSE SendContent

Dispatch == OnMoved \/ OnCreated \/ OnDeleted \/ OnModified

-----------------------------------------------------------------------------
(* HTTPRequest: do_POST calls one handler and answers 200 or, when that    *)
(* raises, 500; the client prints the answer and goes on.                  *)

(* os.makedirs(p, exist_ok=True). *)
CanMakeDirs(t, p) == \A q \in Nodes : p \in Subtree[q] => t[q] \in {Absent, Dir}

MakeDirs(t, p) ==
  [q \in Nodes |-> IF p \in Subtree[q] /\ t[q] = Absent THEN Dir ELSE t[q]]

(* What may be there when it has failed. *)
PartlyMade(t, p) == {t} \cup {MakeDirs(t, q) : q \in {q \in Nodes : p \in Subtree[q]}}

(* _check_path and open(p, 'wb'). *)
CanWrite(t, p) == CanMakeDirs(t, Front(p)) /\ t[p] # Dir

WriteTo(t, p, c) == [MakeDirs(t, Front(p)) EXCEPT ![p] = c]

(* os.removedirs(p): p, and then its ancestors while they are empty.  (Above *)
(* the work directory it goes on; what is there comes back with makedirs.) *)
CanRemoveDir(t, p) == t[p] = Dir /\ Below(t, p) = {}

RemoveDirs(t, p) ==
  [q \in Nodes |->
     IF p \in Subtree[q] /\ \A r \in Below(t, q) : p \in Subtree[r]
     THEN Absent ELSE t[q]]

(* shutil.rmtree or os.remove. *)
RemoveTree(t, p) ==
  [q \in Nodes |-> IF q \in Subtree[p] THEN Absent ELSE t[q]]

(* What is left when it has failed: p itself, at least. *)
PartlyRemoved(t, p) ==
  LET Gone == {g \in SUBSET (Subtree[p] \ {p}) : \A q \in g : Subtree[q] \subseteq g}
  IN  {[q \in Nodes |-> IF q \in g THEN Absent ELSE t[q]] : g \in Gone}

Answered ==
  /\ post' = NoPost
  /\ \/ UNCHANGED <<observer, history>>
     \/ /\ "reset" \in Faults /\ observer' = "dead"
        /\ history' = [history EXCEPT !.kinds = @ \cup {"reset"}]

OK(t) == remote' = t /\ Answered

(* 500: the handler has raised, having left t. *)
Failed(t) ==
  /\ remote' = t /\ post' = NoPost /\ UNCHANGED observer
  /\ history' = [history EXCEPT
       !.kinds = @ \cup {"failure"},
       !.disturbed = @ \cup {post.path}
                        \cup (IF post.op = "moved" THEN {post.dst} ELSE {})]

Serving(ops) == post.op \in ops /\ UNCHANGED <<local, events>>

PostCreatedDir ==
  /\ Serving({"created"}) /\ post.isDir
  /\ IF post.path \notin Forbidden /\ CanMakeDirs(remote, post.path)
     THEN OK(MakeDirs(remote, post.path)) ELSE Failed(remote)

PostContent ==
  /\ Serving({"created", "modified"}) /\ ~post.isDir
  /\ IF post.path \notin Forbidden /\ CanWrite(remote, post.path)
     THEN OK(WriteTo(remote, post.path, post.content)) ELSE Failed(remote)

PostMovedDir ==
  /\ Serving({"moved"}) /\ post.isDir
  /\ IF post.path \in Forbidden THEN Failed(remote)
     ELSE IF remote[post.path] = Absent THEN OK(remote)
     ELSE IF CanRemoveDir(remote, post.path)
     THEN OK(RemoveDirs(remote, post.path)) ELSE Failed(remote)

(* BUG: the copy is made and its source is kept. *)
PostMovedFileCopies ==
  /\ Serving({"moved"}) /\ ~post.isDir
  /\ IF remote[post.path] # Absent /\ CanWrite(remote, post.dst)
     THEN OK(WriteTo(remote, post.dst, remote[post.path])) ELSE Failed(remote)

PostMovedFile ==
  /\ Serving({"moved"}) /\ ~post.isDir
  /\ IF post.path \in Forbidden THEN Failed(remote)
     ELSE IF remote[post.path] = Absent THEN OK(remote)
     ELSE IF /\ post.dst \notin Forbidden /\ IsFile(remote[post.path])
             /\ CanWrite(remote, post.dst)
     THEN OK([WriteTo(remote, post.dst, remote[post.path])
                EXCEPT ![post.path] = Absent])
     ELSE Failed(remote)

PostDeleted ==
  /\ Serving({"deleted"})
  /\ IF post.path \notin Forbidden THEN OK(RemoveTree(remote, post.path))
                                   ELSE Failed(remote)

Target == IF post.op = "moved" THEN post.dst ELSE post.path

(* makedirs or open fails on the way to the file; a write fails half-way,  *)
(* or a remove does once the copy is written.                              *)
WriteFails ==
  /\ "write" \in Faults /\ Serving({"created", "modified", "moved"})
  /\ {Target, post.path} \cap Forbidden = {} /\ CanMakeDirs(remote, Front(Target))
  /\ post.op = "moved" => ~post.isDir /\ IsFile(remote[post.path])
  /\ \/ \E t \in PartlyMade(remote, Front(Target)) : Failed(t)
     \/ /\ ~post.isDir /\ remote[Target] # Dir
        /\ \/ Failed(WriteTo(remote, Target, Torn))
           \/ post.op = "moved" /\ Failed(WriteTo(remote, Target, remote[post.path]))

(* So does a remove: rmtree leaves what it has not come to. *)
RemoveFails ==
  /\ "write" \in Faults /\ Serving({"deleted", "moved"})
  /\ post.path \notin Forbidden /\ remote[post.path] # Absent
  /\ post.op = "moved" => post.isDir /\ CanRemoveDir(remote, post.path)
  /\ \E t \in PartlyRemoved(remote, post.path) : Failed(t)

(* requests.post raises before the request has reached the server. *)
Refused ==
  /\ "reset" \in Faults /\ post # NoPost
  /\ post' = NoPost /\ observer' = "dead"
  /\ history' = [history EXCEPT !.kinds = @ \cup {"reset"}]
  /\ UNCHANGED <<local, remote, events>>

DoPost ==
  \/ PostCreatedDir \/ PostContent \/ PostMovedDir \/ PostMovedFile \/ PostDeleted
  \/ WriteFails \/ RemoveFails

Next == User \/ Dispatch \/ DoPost \/ Refused

Spec == Init /\ [][Next]_vars

-----------------------------------------------------------------------------
(* Properties.                                                             *)

(* Every variable keeps to its range, and the client has a tree. *)
V2TypeOK ==
  /\ local \in [Nodes -> {Absent, Dir} \cup Contents] /\ Tree(local)
  /\ remote \in [Nodes -> {Absent, Dir} \cup FileTexts]
  /\ events \in Seq(Events)
  /\ post \in Posts \cup {NoPost}
  /\ observer \in {"running", "dead"}
  /\ history \in [edits : 0 .. MaxEdits, disturbed : SUBSET Paths,
                  kinds : SUBSET {"create", "write", "touch", "mkdir", "remove",
                                  "renameFile", "renameOther", "unreadable", "failure",
                                  "reset"}]

(* Nothing is under way, and something still listens. *)
Settled == events = <<>> /\ post = NoPost /\ observer = "running"

Plain(p) == ~ \E q \in Ignored \cup Forbidden : p \in Subtree[q]

(* What renames and failed requests break stays with the paths they name,  *)
(* what is above and what is below: every other path is equal on both      *)
(* sides, although contents are read long after the event and a failure is *)
(* only printed (monitor.py:77-81, 91-92, _http.py:90-92, 119).            *)
DamageIsLocal ==
  Settled => \A p \in Paths :
    \/ ~Plain(p) \/ remote[p] = local[p]
    \/ \E d \in history.disturbed : p \in Subtree[d] \/ d \in Subtree[p]

Kind(node) == IF IsFile(node) THEN "file" ELSE node

(* A rename of one ordinary file may leave the wrong content behind, but   *)
(* the same names of the same kind exist on both sides; so does the work   *)
(* directory (_http.py:110-127).                                           *)
NamesAreMirrored ==
  Settled /\ history.kinds \cap {"renameOther", "failure"} = {} =>
    \A p \in Nodes : Plain(p) => Kind(remote[p]) = Kind(local[p])

(* Only a file that is gone from its path or cannot be read, or a          *)
(* connection that failed, ends the dispatching thread: events of          *)
(* directories, other changes and failures of the server never do, however *)
(* late an event is handled (monitor.py:34-36, 50-60, 75-80, 91-92).       *)
OnlyLossKills ==
  observer = "dead" =>
    history.kinds \cap
      {"remove", "renameFile", "renameOther", "unreadable", "reset"} # {}
=============================================================================
