--------------------------- MODULE V2Damage_proofs ---------------------------
(***************************************************************************)
(* What version 2 survives: which failures end the thread that dispatches  *)
(* events, how far the damage of a rename or a failed request goes, and    *)
(* that renaming single files leaves the right names.                      *)
(***************************************************************************)
EXTENDS V2Mirror_proofs, WellFoundedInduction

-----------------------------------------------------------------------------
(* Queues of events. *)
LEMMA TailEvents ==
  ASSUME events \in Seq(Events), events # <<>>
  PROVE  /\ E = events[1] /\ E \in Events /\ 1 \in 1 .. Len(events)
         /\ \A i \in 1 .. Len(Tail(events)) :
              i + 1 \in 1 .. Len(events) /\ Tail(events)[i] = events[i + 1]
         /\ \A i \in 2 .. Len(events) :
              i - 1 \in 1 .. Len(Tail(events)) /\ Tail(events)[i - 1] = events[i]
<1>1. Len(events) \in Nat \ {0}
  BY EmptySeq
<1>2. /\ Tail(events) \in Seq(Events) /\ Len(Tail(events)) = Len(events) - 1
      /\ \A i \in 1 .. Len(Tail(events)) : Tail(events)[i] = events[i + 1]
  BY HeadTailProperties
<1>3. E = events[1] /\ E \in Events
  BY HeadTailProperties DEF E
<1>4. \A i \in 2 .. Len(events) :
        i - 1 \in 1 .. Len(Tail(events)) /\ (i - 1) + 1 = i
  BY <1>1, <1>2
<1>5. \A i \in 1 .. Len(Tail(events)) : i + 1 \in 1 .. Len(events)
  BY <1>1, <1>2
<1>6. 1 \in 1 .. Len(events)
  BY <1>1
<1> QED
  BY <1>2, <1>3, <1>4, <1>5, <1>6

LEMMA AppendEvents ==
  ASSUME events \in Seq(Events), NEW e \in Events, events' = Append(events, e)
  PROVE  /\ Len(events) \in Nat /\ Len(events') = Len(events) + 1
         /\ events'[Len(events) + 1] = e
         /\ \A i \in 1 .. Len(events) : events'[i] = events[i]
         /\ \A i \in 1 .. Len(events') : i \in 1 .. Len(events) \/ i = Len(events) + 1
<1>1. Len(events) \in Nat
  OBVIOUS
<1> QED
  BY <1>1, AppendProperties

(* A new directory is reported as one. *)
LEMMA MkdirEvent ==
  ASSUME NEW p \in Paths
  PROVE  LET e == [Event("created", p) EXCEPT !.isDir = TRUE]
         IN  e \in Events /\ e.path = p /\ e.op = "created" /\ e.isDir
<1>1. \A r \in [op : {"created"}, path : {p}, isDir : BOOLEAN] :
        /\ [r EXCEPT !.isDir = TRUE] \in Events
        /\ [r EXCEPT !.isDir = TRUE].path = p
        /\ [r EXCEPT !.isDir = TRUE].op = "created"
        /\ [r EXCEPT !.isDir = TRUE].isDir
  BY DEF Events
<1>2. Event("created", p) \in [op : {"created"}, path : {p}, isDir : BOOLEAN]
  BY DEF Event
<1> QED
  BY <1>1, <1>2

-----------------------------------------------------------------------------
(* What ends the dispatching thread.                                       *)

Lossy == {"remove", "renameFile", "renameOther", "unreadable", "reset"}

(* OnlyLossKills is not inductive: while nothing has been lost, every event *)
(* that waits must be about something that is still there, and of the kind  *)
(* it was.                                                                  *)
ReportsHold ==
  history.kinds \cap Lossy = {} =>
    /\ observer = "running"
    /\ \A i \in 1 .. Len(events) :
         /\ events[i].op \in {"created", "modified"}
         /\ local[events[i].path] # Absent
         /\ ~events[i].isDir => local[events[i].path] # Dir

LEMMA ReportsInit == Init => ReportsHold
BY DEF Init, ReportsHold

(* One more event that is true, while what the others say stays true. *)
LEMMA ReportsEdit ==
  ASSUME V2Inv, ReportsHold, NEW p \in Paths, NEW e \in Events,
         NEW kind, Edit(kind, {}),
         events' = Append(events, e), e.path = p,
         \A r \in Nodes \ {p} : local'[r] = local[r],
         kind \notin Lossy =>
           /\ e.op \in {"created", "modified"}
           /\ local'[p] # Absent
           /\ ~e.isDir => local'[p] # Dir
           /\ local[p] # Absent => (local'[p] = Dir <=> local[p] = Dir)
  PROVE  ReportsHold'
<1> SUFFICES ASSUME history'.kinds \cap Lossy = {}
             PROVE  ReportsHold'
  BY DEF ReportsHold
<1>1. history.kinds \cap Lossy = {} /\ kind \notin Lossy /\ observer' = observer
  BY DEF Edit
<1>2. events \in Seq(Events)
  BY DEF V2Inv, V2TypeOK
<1>3. ASSUME NEW i \in 1 .. Len(events')
      PROVE  /\ events'[i].op \in {"created", "modified"}
             /\ local'[events'[i].path] # Absent
             /\ ~events'[i].isDir => local'[events'[i].path] # Dir
  <2>1. CASE i \in 1 .. Len(events)
    <3>1. events'[i] = events[i] /\ events[i] \in Events
      BY <1>2, <2>1, AppendEvents, ElementOfSeq
    <3>2. events[i].path \in Nodes
      BY <3>1, WorkDirOnTop DEF Events
    <3> QED
      BY <1>1, <2>1, <3>1, <3>2 DEF ReportsHold
  <2>2. CASE i = Len(events) + 1
    BY <1>1, <1>2, <2>2, AppendEvents
  <2> QED
    BY <1>2, <1>3, <2>1, <2>2, AppendEvents
<1> QED
  BY <1>1, <1>3 DEF ReportsHold

LEMMA ReportsUser == V2Inv /\ ReportsHold /\ User => ReportsHold'
<1> SUFFICES ASSUME V2Inv, ReportsHold, NEW p \in Paths,
                    \/ Create(p) \/ Write(p) \/ Touch(p) \/ Mkdir(p) \/ Delete(p)
                    \/ \E q \in Paths : Rename(p, q)
             PROVE  ReportsHold'
  BY DEF User
<1>0. local \in [Nodes -> {Absent, Dir} \cup Contents] /\ p \in Nodes
      /\ Absent \notin Contents /\ Dir \notin Contents /\ Absent # Dir
      /\ Empty \in Contents
  BY WorkDirOnTop, ContentsAssumption DEF V2Inv, V2TypeOK, Absent, Dir
<1>1. CASE Create(p)
  <2> DEFINE e == Event("created", p)
  <2>1. /\ local[p] = Absent /\ local' = [local EXCEPT ![p] = Empty]
        /\ Edit("create", {}) /\ events' = Append(events, e)
    BY <1>1 DEF Create
  <2>2. e \in Events /\ e.path = p /\ e.op = "created"
    BY EventType
  <2> HIDE DEF e
  <2> QED
    BY <1>0, <2>1, <2>2, ReportsEdit
<1>2. CASE Write(p)
  <2> DEFINE e == Event("modified", p)
  <2>1. PICK c \in Contents : local' = [local EXCEPT ![p] = c]
    BY <1>2 DEF Write
  <2>2. /\ local[p] # Absent /\ local[p] # Dir
        /\ Edit("write", {}) /\ events' = Append(events, e)
    BY <1>2 DEF Write, IsFile
  <2>3. e \in Events /\ e.path = p /\ e.op = "modified"
    BY EventType
  <2> HIDE DEF e
  <2> QED
    BY <1>0, <2>1, <2>2, <2>3, ReportsEdit
<1>3. CASE Touch(p)
  <2> DEFINE e == Event("modified", p)
  <2>1. /\ local[p] = Dir /\ local' = local
        /\ Edit("touch", {}) /\ events' = Append(events, e)
    BY <1>3 DEF Touch
  <2>2. e \in Events /\ e.path = p /\ e.op = "modified"
    BY EventType
  <2>3. e.isDir
    BY <2>1 DEF Event
  <2> HIDE DEF e
  <2> QED
    BY <1>0, <2>1, <2>2, <2>3, ReportsEdit
<1>4. CASE Mkdir(p)
  <2> DEFINE e == [Event("created", p) EXCEPT !.isDir = TRUE]
  <2>1. /\ local[p] = Absent /\ local' = [local EXCEPT ![p] = Dir]
        /\ Edit("mkdir", {}) /\ events' = Append(events, e)
    BY <1>4 DEF Mkdir
  <2>3. e \in Events /\ e.path = p /\ e.op = "created" /\ e.isDir
    BY MkdirEvent
  <2> HIDE DEF e
  <2> QED
    BY <1>0, <2>1, <2>3, ReportsEdit
<1>5. CASE Delete(p)
  <2>1. "remove" \in history'.kinds
    BY <1>5 DEF Delete, Edit
  <2> QED
    BY <2>1 DEF ReportsHold, Lossy
<1>6. ASSUME NEW q \in Paths, Rename(p, q)
      PROVE  ReportsHold'
  <2>1. history'.kinds \cap Lossy # {}
    BY <1>6 DEF Rename, Edit, RenameKind, Lossy
  <2> QED
    BY <2>1 DEF ReportsHold
<1> QED
  BY <1>1, <1>2, <1>3, <1>4, <1>5, <1>6

LEMMA ReportsDispatch == V2Inv /\ ReportsHold /\ Dispatch => ReportsHold'
<1> SUFFICES ASSUME V2Inv, ReportsHold, Dispatch, history'.kinds \cap Lossy = {}
             PROVE  ReportsHold'
  BY DEF ReportsHold
<1>1. /\ events # <<>> /\ events' = Tail(events) /\ events \in Seq(Events)
      /\ UNCHANGED <<local, remote>>
  BY DEF Dispatch, OnMoved, OnCreated, OnDeleted, OnModified, Dispatching,
         V2Inv, V2TypeOK
<1>2. ~Unreadable
  BY DEF Unreadable, Lossy, V2Inv, V2TypeOK
<1>3. history' = history
  BY <1>2 DEF Dispatch, OnMoved, OnCreated, OnDeleted, OnModified, Send, Skip, Die,
              SendContent
<1>4. /\ E.op \in {"created", "modified"} /\ local[E.path] # Absent
      /\ ~E.isDir => local[E.path] # Dir
  BY <1>1, <1>3, TailEvents DEF ReportsHold
<1>5. observer' = observer
  BY <1>2, <1>4 DEF Dispatch, OnMoved, OnCreated, OnDeleted, OnModified, Dispatching,
                    E, Send, Skip, Die, SendContent, IsFile
<1> QED
  BY <1>1, <1>3, <1>5, TailEvents DEF ReportsHold

LEMMA ReportsServer == V2Inv /\ ReportsHold /\ (DoPost \/ Refused) => ReportsHold'
<1> SUFFICES ASSUME V2Inv, ReportsHold, DoPost \/ Refused
             PROVE  ReportsHold'
  OBVIOUS
<1>1. UNCHANGED <<local, events>>
  BY DEF DoPost, PostCreatedDir, PostContent, PostMovedDir, PostMovedFile,
         PostDeleted, WriteFails, RemoveFails, Serving, Refused
<1>2. CASE \E t : OK(t)
  <2>1. UNCHANGED <<observer, history>> \/ "reset" \in history'.kinds
    BY <1>2 DEF OK, Answered, V2Inv, V2TypeOK
  <2> QED
    BY <1>1, <2>1 DEF ReportsHold, Lossy
<1>3. CASE \E t : Failed(t)
  <2>1. observer' = observer /\ history.kinds \subseteq history'.kinds
    BY <1>3 DEF Failed, V2Inv, V2TypeOK
  <2> QED
    BY <1>1, <2>1 DEF ReportsHold
<1>4. CASE Refused
  <2>1. "reset" \in history'.kinds
    BY <1>4 DEF Refused, V2Inv, V2TypeOK
  <2> QED
    BY <2>1 DEF ReportsHold, Lossy
<1> QED
  BY <1>2, <1>3, <1>4 DEF DoPost, PostCreatedDir, PostContent, PostMovedDir,
     PostMovedFile, PostDeleted, WriteFails, RemoveFails

(* While nothing is removed or renamed, every file can be read and no       *)
(* connection fails, every event finds what it is about, however late it is *)
(* handled: what is added or written, and what fails on the server, never   *)
(* ends the thread (monitor.py:34-36, 50-60, 75-80, 91-92).                 *)
THEOREM OnlyLossEndsDispatching == Spec => []OnlyLossKills
<1>1. V2Inv /\ ReportsHold /\ [Next]_vars => ReportsHold'
  <2>1. ReportsHold /\ UNCHANGED vars => ReportsHold'
    BY DEF vars, ReportsHold
  <2> QED
    BY <2>1, ReportsUser, ReportsDispatch, ReportsServer DEF Next
<1>2. ReportsHold => OnlyLossKills
  BY DEF ReportsHold, OnlyLossKills, Lossy
<1> QED
  BY <1>1, <1>2, ReportsInit, V2InvInit, V2InvNext, PTL DEF Spec

-----------------------------------------------------------------------------
(* How far the damage goes.                                                *)

(* A non-empty set of naturals has a least element. *)
LEMMA LeastLength ==
  ASSUME NEW I, I \subseteq Nat, I # {}
  PROVE  \E i \in I : \A k \in I : i <= k
<1>1. PICK i \in I : \A k \in I : ~ (<<k, i>> \in OpToRel(<, Nat))
  BY NatLessThanWellFounded, WFMin
<1>2. \A k \in I : ~ (k < i)
  BY <1>1 DEF OpToRel
<1> QED
  BY <1>2

(* Everything above what exists is a directory: of the paths below p that   *)
(* exist although p is none, the shortest would be in a shorter one.        *)
LEMMA AboveInTree ==
  ASSUME NEW t, IsTree(t), NEW p \in Nodes, NEW q \in Subtree[p], q # p,
         t[q] # Absent
  PROVE  t[p] = Dir
<1> SUFFICES ASSUME t[p] # Dir
             PROVE  FALSE
  OBVIOUS
<1> DEFINE orphans == {r \in Subtree[p] \ {p} : t[r] # Absent}
           lengths == {Len(r) : r \in orphans}
<1>1. orphans \subseteq Nodes /\ q \in orphans
  BY SubtreeNodes
<1>2. lengths \subseteq Nat /\ lengths # {}
  BY <1>1, NodesAreSequences
<1>3. PICK r \in orphans : \A s \in orphans : Len(r) <= Len(s)
  <2>1. PICK n \in lengths : \A k \in lengths : n <= k
    <3> HIDE DEF lengths
    <3> QED
      BY <1>2, LeastLength
  <2> QED
    BY <2>1
<1>4. r \in Paths
  <2>1. r # WorkDir
    <3>1. CASE p = WorkDir
      BY <3>1
    <3>2. CASE p # WorkDir
      BY <3>2, WorkDirOnTop DEF Nodes
    <3> QED
      BY <3>1, <3>2
  <2> QED
    BY <1>1, <2>1 DEF Nodes
<1>5. Front(r) \in Subtree[p] /\ t[Front(r)] = Dir /\ Dir # Absent
  BY <1>4, FrontNext DEF IsTree, Dir, Absent
<1>6. Front(r) \in orphans
  BY <1>5
<1>7. Len(r) <= Len(r) - 1 /\ Len(r) \in Nat
  BY <1>3, <1>4, <1>6, FrontDef
<1> QED
  BY <1>7

LEMMA AboveIsDir ==
  ASSUME NEW t \in LocalTrees, NEW p \in Nodes, NEW q \in Subtree[p], q # p,
         t[q] # Absent
  PROVE  t[p] = Dir
BY AboveInTree DEF LocalTrees, Tree, IsTree

-----------------------------------------------------------------------------
(* The paths the property is about. *)
Undamaged ==
  {p \in Paths : Plain(p) /\ \A d \in history.disturbed :
                                p \notin Subtree[d] /\ d \notin Subtree[p]}

(* The change of an attribute of a directory is reported and not sent. *)
Concerns(e, p) == e.path = p /\ ~ (e.op = "modified" /\ e.isDir)

QuietAfter(i, p) == \A j \in (i + 1) .. Len(events) : ~Concerns(events[j], p)

HasContent(m) == m.op \in {"created", "modified"} /\ ~m.isDir

(* What message m implies for an undamaged p, if no later one concerns p. *)
Fits(m, p) ==
  /\ m.path \in Subtree[p] \ {p} => local[p] = Dir
  /\ m.op = "deleted" /\ p \in Subtree[m.path] => local[p] = Absent
  /\ m.op = "created" /\ m.isDir /\ m.path = p => local[p] = Dir

EventsFit(p) ==
  \A i \in 1 .. Len(events) : QuietAfter(i, p) => Fits(events[i], p)

PostFits(p) ==
  post # NoPost /\ QuietAfter(0, p) =>
    Fits(post, p) /\ (HasContent(post) /\ post.path = p => post.content = local[p])

UpToDate(p) ==
  observer = "running" /\ QuietAfter(0, p) /\ (post # NoPost => post.path # p)
    => remote[p] = local[p]

(* A rename has disturbed what it moves, and where to. *)
InDamage(m) ==
  m.op = "moved" => /\ \E d \in history.disturbed : m.path \in Subtree[d]
                    /\ \E d \in history.disturbed : m.dst \in Subtree[d]

(* DamageIsLocal speaks of the end.  Until then, the last message about an  *)
(* undamaged path says what is there now, messages below it that it is a    *)
(* directory, deletions above it that it is gone; and once none concerns    *)
(* it, it is equal on both sides.                                           *)
DamageInv ==
  /\ \A i \in 1 .. Len(events) : InDamage(events[i])
  /\ InDamage(post)
  /\ \A p \in Undamaged : EventsFit(p) /\ PostFits(p) /\ UpToDate(p)

LEMMA DamageInit == Init => DamageInv
<1> SUFFICES ASSUME Init
             PROVE  DamageInv
  OBVIOUS
<1>1. remote = local /\ events = <<>> /\ post = NoPost
  BY DEF Init
<1>2. InDamage(post) /\ Len(events) = 0
  BY <1>1 DEF InDamage, NoPost
<1> QED
  BY <1>1, <1>2 DEF DamageInv, EventsFit, PostFits, UpToDate

(* Nothing becomes undamaged again, and what is in the damage stays there. *)
LEMMA DamageGrows ==
  ASSUME history.disturbed \subseteq history'.disturbed
  PROVE  /\ Undamaged' \subseteq Undamaged
         /\ \A m : InDamage(m) => (InDamage(m))'
BY DEF Undamaged, InDamage

-----------------------------------------------------------------------------
(* The user's edits. *)

(* One more event at x, where at most x itself has changed. *)
LEMMA DamageEdit ==
  ASSUME V2Inv, DamageInv, NEW x \in Paths, NEW e \in Events, NEW kind,
         Edit(kind, {}), events' = Append(events, e), e.path = x, e.op # "moved",
         \A r \in Nodes \ {x} : local'[r] = local[r],
         Concerns(e, x) \/ local' = local,
         \A p \in Paths : (Fits(e, p))'
  PROVE  DamageInv'
<1>1. events \in Seq(Events)
  BY DEF V2Inv, V2TypeOK
<1>2. /\ history'.disturbed = history.disturbed
      /\ UNCHANGED <<remote, post, observer>>
  BY DEF Edit
<1>3. Undamaged' \subseteq Undamaged /\ \A m : InDamage(m) => (InDamage(m))'
  BY <1>2, DamageGrows
<1> DEFINE n == Len(events)
<1>4. /\ n \in Nat /\ Len(events') = n + 1 /\ events'[n + 1] = e
      /\ \A i \in 1 .. n : events'[i] = events[i]
      /\ \A i \in 1 .. Len(events') : i \in 1 .. n \/ i = n + 1
  BY <1>1, AppendEvents
<1>5. \A i \in 1 .. Len(events') : (InDamage(events[i]))'
  <2>1. InDamage(e)
    BY DEF InDamage
  <2> QED
    BY <1>3, <1>4, <2>1 DEF DamageInv
<1>6. (InDamage(post))'
  BY <1>2, <1>3 DEF DamageInv
<1> HIDE DEF n
<1>7. ASSUME NEW p \in Undamaged'
      PROVE  EventsFit(p)' /\ PostFits(p)' /\ UpToDate(p)'
  <2>1. p \in Paths /\ p \in Nodes /\ EventsFit(p) /\ PostFits(p) /\ UpToDate(p)
    BY <1>3, <1>7, WorkDirOnTop DEF DamageInv, Undamaged
  (* If any event stays quiet about p, this one is, and p has not changed. *)
  <2>2. ASSUME NEW i \in 0 .. n, QuietAfter(i, p)'
        PROVE  QuietAfter(i, p) /\ local'[p] = local[p]
    <3>1. ~Concerns(e, p)
      BY <1>4, <2>2 DEF QuietAfter, Concerns
    <3>2. local'[p] = local[p]
      BY <2>1, <3>1
    <3>3. QuietAfter(i, p)
      BY <1>4, <2>2 DEF QuietAfter, n, Concerns
    <3> QED
      BY <3>2, <3>3
  <2>3. EventsFit(p)'
    <3> SUFFICES ASSUME NEW i \in 1 .. Len(events'), QuietAfter(i, p)'
                 PROVE  (Fits(events[i], p))'
      BY DEF EventsFit
    <3>1. CASE i \in 1 .. n
      <4>1. QuietAfter(i, p) /\ local'[p] = local[p]
        BY <1>4, <2>2, <3>1
      <4>2. Fits(events[i], p)
        BY <2>1, <3>1, <4>1 DEF EventsFit, n
      <4> QED
        BY <1>4, <3>1, <4>1, <4>2 DEF Fits
    <3>2. CASE i = n + 1
      BY <1>4, <2>1, <3>2 DEF Fits
    <3> QED
      BY <1>4, <3>1, <3>2
  <2>4. PostFits(p)'
    <3> SUFFICES ASSUME post' # NoPost, QuietAfter(0, p)'
                 PROVE  (Fits(post, p) /\ (HasContent(post) /\ post.path = p
                                            => post.content = local[p]))'
      BY DEF PostFits
    <3>1. QuietAfter(0, p) /\ local'[p] = local[p]
      BY <1>4, <2>2
    <3> QED
      BY <1>2, <2>1, <3>1 DEF PostFits, Fits, HasContent
  <2>5. UpToDate(p)'
    <3> SUFFICES ASSUME observer' = "running", QuietAfter(0, p)',
                        post' # NoPost => post'.path # p
                 PROVE  remote'[p] = local'[p]
      BY DEF UpToDate
    <3>1. QuietAfter(0, p) /\ local'[p] = local[p]
      BY <1>4, <2>2
    <3> QED
      BY <1>2, <2>1, <3>1 DEF UpToDate
  <2> QED
    BY <2>3, <2>4, <2>5
<1> QED
  BY <1>5, <1>6, <1>7 DEF DamageInv

(* A rename disturbs what it moves: what is left does not notice. *)
LEMMA DamageRename ==
  ASSUME V2Inv, DamageInv, NEW x \in Paths, NEW y \in Paths, Rename(x, y)
  PROVE  DamageInv'
<1>1. /\ x \in Nodes /\ y \in Nodes /\ events \in Seq(Events)
      /\ \A r \in Below(local, x) : Moved(r, x, y) \in Paths
  BY WorkDirOnTop DEF V2Inv, V2TypeOK, Rename
<1>2. /\ history'.disturbed = history.disturbed \cup {x, y}
      /\ UNCHANGED <<remote, post, observer>>
  BY DEF Rename, Edit
<1>3. PICK moves \in MovedEvents(x, y) : events' = events \o moves
  BY DEF Rename
<1>4. Undamaged' \subseteq Undamaged /\ \A m : InDamage(m) => (InDamage(m))'
  BY <1>2, DamageGrows
<1>5. ASSUME NEW j \in 1 .. Len(moves)
      PROVE  /\ moves[j].op = "moved"
             /\ moves[j].path \in Subtree[x] /\ moves[j].dst \in Subtree[y]
  <2>1. PICK r \in {x} \cup Below(local, x) : moves[j] = MovedEvent(r, x, y)
    BY <1>1, MovedEventsType
  <2>2. r \in Subtree[x] /\ Moved(r, x, y) \in Nodes
    BY <1>1, <2>1, SubtreeReflexive, MovedSelf, WorkDirOnTop DEF Below
  <2> QED
    BY <2>1, <2>2, MovedBelow DEF MovedEvent
<1> DEFINE n == Len(events)
<1>6. /\ n \in Nat /\ Len(moves) \in Nat /\ Len(events') = n + Len(moves)
      /\ \A i \in 1 .. n : events'[i] = events[i]
      /\ \A i \in 1 .. Len(events') :
           i \in 1 .. n \/ \E j \in 1 .. Len(moves) : events'[i] = moves[j]
  <2>1. moves \in Seq(Events)
    BY <1>1, MovedEventsType
  <2>2. /\ n \in Nat /\ Len(moves) \in Nat
        /\ Len(events') = n + Len(moves)
        /\ \A i \in 1 .. n + Len(moves) :
             events'[i] = IF i <= n THEN events[i] ELSE moves[i - n]
    BY <1>1, <1>3, <2>1, ConcatProperties
  <2> HIDE DEF n
  <2>3. \A k, m \in Nat : \A i \in 1 .. k + m :
          i \in 1 .. k \/ (i - k \in 1 .. m /\ ~(i <= k))
    OBVIOUS
  <2> QED
    BY <2>2, <2>3
<1>7. \A i \in 1 .. Len(events') : (InDamage(events[i]))'
  <2>1. \A j \in 1 .. Len(moves) : (InDamage(moves[j]))'
    BY <1>2, <1>5 DEF InDamage
  <2> QED
    BY <1>4, <1>6, <2>1 DEF DamageInv, InDamage
<1>8. (InDamage(post))'
  BY <1>2, <1>4 DEF DamageInv
<1> HIDE DEF n
<1>9. ASSUME NEW p \in Undamaged'
      PROVE  EventsFit(p)' /\ PostFits(p)' /\ UpToDate(p)'
  <2>1. /\ p \in Paths /\ p \in Nodes /\ EventsFit(p) /\ PostFits(p) /\ UpToDate(p)
        /\ p \notin Subtree[x] /\ x \notin Subtree[p] /\ p \notin Subtree[y]
    BY <1>2, <1>4, <1>9, WorkDirOnTop DEF DamageInv, Undamaged
  <2>2. local'[p] = local[p]
    BY <2>1 DEF Rename
  <2>3. ASSUME NEW j \in 1 .. Len(moves)
        PROVE  moves[j].path \notin Subtree[p] /\ moves[j].path # p
    BY <1>1, <1>5, <2>1, SubtreeLinear, SubtreeReflexive
  <2>4. \A i \in 0 .. n : QuietAfter(i, p)' => QuietAfter(i, p)
    BY <1>6 DEF QuietAfter, n, Concerns
  <2>5. EventsFit(p)'
    <3> SUFFICES ASSUME NEW i \in 1 .. Len(events'), QuietAfter(i, p)'
                 PROVE  (Fits(events[i], p))'
      BY DEF EventsFit
    <3>1. CASE i \in 1 .. n
      <4>1. Fits(events[i], p)
        BY <1>6, <2>1, <2>4, <3>1 DEF EventsFit, n
      <4> QED
        BY <1>6, <2>2, <3>1, <4>1 DEF Fits
    <3>2. ASSUME NEW j \in 1 .. Len(moves), events'[i] = moves[j]
          PROVE  (Fits(events[i], p))'
      BY <1>5, <2>3, <3>2 DEF Fits
    <3> QED
      BY <1>6, <3>1, <3>2
  <2>6. PostFits(p)' /\ UpToDate(p)'
    <3>1. QuietAfter(0, p)' => QuietAfter(0, p)
      BY <1>6, <2>4
    <3> QED
      BY <1>2, <2>1, <2>2, <3>1 DEF PostFits, UpToDate, Fits, HasContent
  <2> QED
    BY <2>5, <2>6
<1> QED
  BY <1>7, <1>8, <1>9 DEF DamageInv

LEMMA DamageUser == V2Inv /\ DamageInv /\ User => DamageInv'
<1> SUFFICES ASSUME V2Inv, DamageInv, User, NEW x \in Paths,
                    \/ Create(x) \/ Write(x) \/ Touch(x) \/ Mkdir(x) \/ Delete(x)
                    \/ \E y \in Paths : Rename(x, y)
             PROVE  DamageInv'
  BY DEF User
<1>0. /\ local \in [Nodes -> {Absent, Dir} \cup Contents] /\ local \in LocalTrees
      /\ local' \in LocalTrees /\ x \in Nodes
      /\ x \in Subtree[x] /\ Absent # Dir
      /\ local[x] # Absent => local[Front(x)] = Dir
      /\ \A p \in Paths : p \in Nodes
  <2>1. V2Inv'
    BY V2User
  <2> QED
    BY <2>1, WorkDirOnTop, SubtreeReflexive, InvTrees
    DEF V2Inv, V2TypeOK, LocalTrees, Tree, Absent, Dir
(* What is above x is a directory, before the edit and after. *)
<1>1. ASSUME NEW p \in Paths, x \in Subtree[p] \ {p}, local[Front(x)] = Dir,
             \A r \in Nodes \ {x} : local'[r] = local[r]
      PROVE  local'[p] = Dir
  <2>1. Front(x) \in Nodes /\ Front(x) \in Subtree[p]
    BY <1>0, <1>1, FrontAbove, FrontNext
  <2>2. local[p] = Dir
    BY <1>0, <1>1, <2>1, AboveIsDir
  <2> QED
    BY <1>0, <1>1, <2>2
<1>2. CASE Create(x)
  <2>0. PICK e \in Events : /\ e = Event("created", x)
                            /\ e.path = x /\ e.op = "created"
    BY EventType
  <2>1. /\ local[x] = Absent /\ local[Front(x)] = Dir
        /\ local' = [local EXCEPT ![x] = Empty]
        /\ Edit("create", {}) /\ events' = Append(events, e)
    BY <1>2, <2>0 DEF Create
  <2>3. ~e.isDir
    BY <1>0, <2>0, <2>1 DEF Event
  <2>4. \A r \in Nodes \ {x} : local'[r] = local[r]
    BY <1>0, <2>0, <2>1
  <2>5. \A p \in Paths : (Fits(e, p))'
    BY <1>1, <2>0, <2>1, <2>3, <2>4 DEF Fits
  <2> QED
    BY <2>0, <2>1, <2>4, <2>5, DamageEdit DEF Concerns
<1>3. CASE Write(x)
  <2>0. PICK e \in Events : /\ e = Event("modified", x)
                            /\ e.path = x /\ e.op = "modified"
    BY EventType
  <2>1. PICK c \in Contents : local' = [local EXCEPT ![x] = c]
    BY <1>3, <2>0 DEF Write
  <2>2. /\ local[x] # Absent /\ local[x] # Dir
        /\ Edit("write", {}) /\ events' = Append(events, e)
    BY <1>3, <2>0 DEF Write, IsFile
  <2>4. ~e.isDir
    BY <2>0, <2>2 DEF Event
  <2>5. \A r \in Nodes \ {x} : local'[r] = local[r]
    BY <1>0, <2>0, <2>1
  <2>6. \A p \in Paths : (Fits(e, p))'
    BY <1>0, <1>1, <2>0, <2>2, <2>5 DEF Fits
  <2> QED
    BY <2>0, <2>2, <2>4, <2>5, <2>6, DamageEdit DEF Concerns
<1>4. CASE Touch(x)
  <2>0. PICK e \in Events : /\ e = Event("modified", x)
                            /\ e.path = x /\ e.op = "modified"
    BY EventType
  <2>1. /\ local[x] = Dir /\ local' = local
        /\ Edit("touch", {}) /\ events' = Append(events, e)
    BY <1>4, <2>0 DEF Touch
  <2>3. \A p \in Paths : (Fits(e, p))'
    BY <1>0, <1>1, <2>0, <2>1 DEF Fits
  <2> QED
    BY <2>0, <2>1, <2>3, DamageEdit
<1>5. CASE Mkdir(x)
  <2>0. PICK e \in Events : /\ e = [Event("created", x) EXCEPT !.isDir = TRUE]
                            /\ e.path = x /\ e.op = "created"
    BY MkdirEvent
  <2>1. /\ local[x] = Absent /\ local[Front(x)] = Dir
        /\ local' = [local EXCEPT ![x] = Dir]
        /\ Edit("mkdir", {}) /\ events' = Append(events, e)
    BY <1>5, <2>0 DEF Mkdir
  <2>3. \A r \in Nodes \ {x} : local'[r] = local[r]
    BY <1>0, <2>0, <2>1
  <2>4. \A p \in Paths : (Fits(e, p))'
    BY <1>0, <1>1, <2>0, <2>1, <2>3 DEF Fits
  <2> QED
    BY <2>0, <2>1, <2>3, <2>4, DamageEdit DEF Concerns
<1>6. CASE Delete(x)
  <2>0. PICK e \in Events : /\ e = Event("deleted", x)
                            /\ e.path = x /\ e.op = "deleted"
    BY EventType
  <2>1. /\ local[x] # Absent /\ Below(local, x) = {}
        /\ local' = [local EXCEPT ![x] = Absent]
        /\ Edit("remove", {}) /\ events' = Append(events, e)
    BY <1>6, <2>0 DEF Delete
  <2>3. \A r \in Nodes \ {x} : local'[r] = local[r]
    BY <1>0, <2>0, <2>1
  <2>4. \A p \in Subtree[x] : local'[p] = Absent
    <3> TAKE p \in Subtree[x]
    <3>1. CASE p = x
      BY <1>0, <2>1, <3>1
    <3>2. CASE p # x
      BY <1>0, <2>1, <2>3, <3>2, SubtreeNodes DEF Below
    <3> QED
      BY <3>1, <3>2
  <2>5. \A p \in Paths : (Fits(e, p))'
    BY <1>0, <1>1, <2>0, <2>1, <2>3, <2>4 DEF Fits
  <2> QED
    BY <2>0, <2>1, <2>3, <2>5, DamageEdit DEF Concerns
<1> QED
  BY <1>2, <1>3, <1>4, <1>5, <1>6, DamageRename

-----------------------------------------------------------------------------
(* The client's thread. *)

(* An event is sent as it is, sent with what its file contains now, or      *)
(* skipped; or it is the last.                                              *)
LEMMA DispatchDoes ==
  ASSUME V2Inv, Dispatch
  PROVE  /\ E \in Events /\ events # <<>> /\ events' = Tail(events)
         /\ post = NoPost /\ observer = "running"
         /\ UNCHANGED <<local, remote>> /\ history'.disturbed = history.disturbed
         /\ observer' = "dead" \/ history' = history
         /\ \/ post' = E /\ (E.op \in {"moved", "deleted"} \/ (E.op = "created" /\ E.isDir))
            \/ post' = WithContent /\ E.op \in {"created", "modified"} /\ ~E.isDir
            \/ post' = NoPost /\ (E.path \in Ignored \/ (E.op = "modified" /\ E.isDir))
            \/ post' = NoPost /\ observer' = "dead"
<1>1. /\ events # <<>> /\ events' = Tail(events) /\ E.op = Head(events).op
      /\ post = NoPost /\ observer = "running" /\ UNCHANGED <<local, remote>>
  BY DEF Dispatch, OnMoved, OnCreated, OnDeleted, OnModified, Dispatching, E
<1>2. E \in Events
  BY <1>1, HeadTailProperties DEF V2Inv, V2TypeOK, E
<1>3. Unreadable => history'.disturbed = history.disturbed
  BY DEF Unreadable, V2Inv, V2TypeOK
<1>4. CASE OnMoved
  BY <1>1, <1>2, <1>4 DEF OnMoved, Dispatching, Send
<1>5. CASE OnCreated
  BY <1>1, <1>2, <1>3, <1>5
  DEF OnCreated, Dispatching, Send, Skip, Die, SendContent, Unreadable
<1>6. CASE OnDeleted
  BY <1>1, <1>2, <1>6 DEF OnDeleted, Dispatching, Send, Skip
<1>7. CASE OnModified
  BY <1>1, <1>2, <1>3, <1>7
  DEF OnModified, Dispatching, Send, Skip, Die, SendContent, Unreadable
<1> QED
  BY <1>4, <1>5, <1>6, <1>7 DEF Dispatch

LEMMA DamageDispatch == V2Inv /\ DamageInv /\ Dispatch => DamageInv'
<1> SUFFICES ASSUME V2Inv, DamageInv, Dispatch
             PROVE  DamageInv'
  OBVIOUS
<1>1. /\ E \in Events /\ events # <<>> /\ events' = Tail(events)
      /\ post = NoPost /\ observer = "running"
      /\ UNCHANGED <<local, remote>> /\ history'.disturbed = history.disturbed
      /\ observer' = "dead" \/ history' = history
      /\ \/ post' = E /\ (E.op \in {"moved", "deleted"} \/ (E.op = "created" /\ E.isDir))
         \/ post' = WithContent /\ E.op \in {"created", "modified"} /\ ~E.isDir
         \/ post' = NoPost /\ (E.path \in Ignored \/ (E.op = "modified" /\ E.isDir))
         \/ post' = NoPost /\ observer' = "dead"
  BY DispatchDoes
<1>2. /\ E = events[1] /\ 1 \in 1 .. Len(events)
      /\ \A i \in 1 .. Len(events') :
           i + 1 \in 1 .. Len(events) /\ events'[i] = events[i + 1]
      /\ \A i \in 2 .. Len(events) :
           i - 1 \in 1 .. Len(events') /\ events'[i - 1] = events[i]
  BY <1>1, TailEvents DEF V2Inv, V2TypeOK
<1>3. Undamaged' = Undamaged /\ \A m : (InDamage(m))' <=> InDamage(m)
  BY <1>1 DEF Undamaged, InDamage
<1>4. \A i \in 1 .. Len(events') : (InDamage(events[i]))'
  BY <1>2, <1>3 DEF DamageInv
<1>5. (InDamage(post))'
  <2>1. CASE post' = E
    BY <1>2, <1>3, <2>1 DEF DamageInv, InDamage
  <2>2. CASE post' = WithContent /\ E.op \in {"created", "modified"}
    BY <2>2 DEF InDamage, WithContent
  <2>3. CASE post' = NoPost
    BY <2>3 DEF InDamage, NoPost
  <2> QED
    BY <1>1, <2>1, <2>2, <2>3
<1>6. ASSUME NEW p \in Undamaged
      PROVE  EventsFit(p)' /\ PostFits(p)' /\ UpToDate(p)'
  <2>1. /\ p \in Nodes /\ p \notin Ignored
        /\ EventsFit(p) /\ UpToDate(p)
    BY <1>6, WorkDirOnTop, SubtreeReflexive DEF DamageInv, Undamaged, Plain
  <2>2. \A i \in Nat : QuietAfter(i, p)' => QuietAfter(i + 1, p)
    <3> SUFFICES ASSUME NEW i \in Nat, QuietAfter(i, p)',
                        NEW j \in (i + 1) + 1 .. Len(events)
                 PROVE  ~Concerns(events[j], p)
      BY DEF QuietAfter
    <3>1. j \in 2 .. Len(events) /\ j - 1 \in (i + 1) .. Len(events')
      BY <1>2
    <3> QED
      BY <1>2, <3>1 DEF QuietAfter, Concerns
  <2>3. EventsFit(p)'
    <3> SUFFICES ASSUME NEW i \in 1 .. Len(events'), QuietAfter(i, p)'
                 PROVE  (Fits(events[i], p))'
      BY DEF EventsFit
    <3>1. i + 1 \in 1 .. Len(events) /\ events'[i] = events[i + 1]
          /\ QuietAfter(i + 1, p)
      BY <1>2, <2>2
    <3>2. Fits(events[i + 1], p)
      BY <2>1, <3>1 DEF EventsFit
    <3> QED
      BY <1>1, <3>1, <3>2 DEF Fits
  <2>4. PostFits(p)'
    <3> SUFFICES ASSUME post' # NoPost, QuietAfter(0, p)'
                 PROVE  (Fits(post, p) /\ (HasContent(post) /\ post.path = p
                                            => post.content = local[p]))'
      BY DEF PostFits
    <3>1. QuietAfter(1, p)
      BY <2>2
    <3>2. Fits(E, p)
      BY <1>2, <2>1, <3>1 DEF EventsFit
    <3>3. CASE post' = E /\ (E.op \in {"moved", "deleted"} \/ (E.op = "created" /\ E.isDir))
      BY <1>1, <3>2, <3>3 DEF Fits, HasContent
    <3>4. CASE post' = WithContent /\ E.op \in {"created", "modified"} /\ ~E.isDir
      BY <1>1, <3>2, <3>4 DEF Fits, HasContent, WithContent
    <3> QED
      BY <1>1, <3>3, <3>4
  <2>5. UpToDate(p)'
    <3> SUFFICES ASSUME observer' = "running", QuietAfter(0, p)',
                        post' # NoPost => post'.path # p
                 PROVE  remote'[p] = local'[p]
      BY DEF UpToDate
    <3>1. ~Concerns(E, p)
      BY <1>1, <2>1 DEF Concerns, WithContent, NoPost, Events
    <3>2. QuietAfter(0, p)
      <4>1. QuietAfter(1, p)
        BY <2>2
      <4>2. \A j \in 1 .. Len(events) : j = 1 \/ j \in (1 + 1) .. Len(events)
        BY <1>2
      <4> QED
        BY <1>2, <3>1, <4>1, <4>2 DEF QuietAfter
    <3> QED
      BY <1>1, <2>1, <3>2 DEF UpToDate
  <2> QED
    BY <2>3, <2>4, <2>5
<1> QED
  BY <1>3, <1>4, <1>5, <1>6 DEF DamageInv

-----------------------------------------------------------------------------
(* The server. *)

(* An answer has to leave each undamaged path that no event concerns equal  *)
(* on both sides.                                                           *)
LEMMA DamageAnswer ==
  ASSUME DamageInv, UNCHANGED <<local, events>>, post' = NoPost,
         history.disturbed \subseteq history'.disturbed,
         \A p \in Undamaged' :
           observer' = "running" /\ QuietAfter(0, p) => remote'[p] = local[p]
  PROVE  DamageInv'
<1>1. Undamaged' \subseteq Undamaged /\ \A m : InDamage(m) => (InDamage(m))'
  BY DamageGrows
<1>2. \A i \in 1 .. Len(events') : (InDamage(events[i]))'
  BY <1>1 DEF DamageInv, InDamage
<1>3. (InDamage(post))'
  BY DEF InDamage, NoPost
<1>4. ASSUME NEW p \in Undamaged'
      PROVE  EventsFit(p)' /\ PostFits(p)' /\ UpToDate(p)'
  <2>1. EventsFit(p)
    BY <1>1, <1>4 DEF DamageInv
  <2>2. EventsFit(p)'
    BY <2>1 DEF EventsFit, QuietAfter, Concerns, Fits
  <2>3. PostFits(p)'
    BY DEF PostFits
  <2>4. UpToDate(p)'
    BY <1>4 DEF UpToDate, QuietAfter, Concerns
  <2> QED
    BY <2>2, <2>3, <2>4
<1> QED
  BY <1>2, <1>3, <1>4 DEF DamageInv

LEMMA DamageDoPost == V2Inv /\ DamageInv /\ DoPost => DamageInv'
<1> SUFFICES ASSUME V2Inv, DamageInv, DoPost
             PROVE  DamageInv'
  OBVIOUS
<1>1. post.op # "none" /\ UNCHANGED <<local, events>>
      /\ \E t : OK(t) \/ Failed(t)
  BY DEF DoPost, PostCreatedDir, PostContent, PostMovedDir, PostMovedFile,
         PostDeleted, WriteFails, RemoveFails, Serving
<1>2. /\ post \in Posts /\ post.path \in Paths /\ remote \in Trees
      /\ post.path \in Nodes /\ post.path \in Subtree[post.path]
      /\ post.op = "moved" => post.dst \in Paths /\ post.dst \in Nodes
  BY <1>1, PostTypes, InvTrees, WorkDirOnTop, SubtreeReflexive
<1>3. /\ post' = NoPost /\ history.disturbed \subseteq history'.disturbed
      /\ observer' = "running" => observer = "running"
  BY <1>1 DEF OK, Answered, Failed, V2Inv, V2TypeOK
<1> SUFFICES ASSUME NEW p \in Undamaged', observer' = "running", QuietAfter(0, p)
             PROVE  remote'[p] = local[p]
  BY <1>1, <1>3, DamageAnswer
<1>4. /\ p \in Nodes /\ p \in Undamaged
      /\ Fits(post, p) /\ (HasContent(post) /\ post.path = p => post.content = local[p])
      /\ post.path # p => remote[p] = local[p]
  <2>1. p \in Undamaged
    BY <1>3, DamageGrows
  <2> QED
    BY <1>1, <1>3, <2>1, WorkDirOnTop, PostTypes
    DEF DamageInv, PostFits, UpToDate, Undamaged
(* A request that fails leaves p alone, and so does a rename. *)
<1>5. ASSUME NEW t, Failed(t)
      PROVE  /\ post.path \notin Subtree[p]
             /\ post.op = "moved" => post.dst \notin Subtree[p]
  <2>1. /\ post.path \in history'.disturbed
        /\ post.op = "moved" => post.dst \in history'.disturbed
    BY <1>5 DEF Failed, V2Inv, V2TypeOK
  <2> QED
    BY <2>1 DEF Undamaged
<1>6. ASSUME post.op = "moved"
      PROVE  post.path \notin Subtree[p] /\ post.dst \notin Subtree[p]
  <2>1. PICK d \in history.disturbed : post.path \in Subtree[d]
    BY <1>6 DEF DamageInv, InDamage
  <2>2. PICK c \in history.disturbed : post.dst \in Subtree[c]
    BY <1>6 DEF DamageInv, InDamage
  <2>3. d \in Nodes /\ c \in Nodes
    BY WorkDirOnTop DEF V2Inv, V2TypeOK
  <2>4. /\ p \notin Subtree[d] /\ d \notin Subtree[p]
        /\ p \notin Subtree[c] /\ c \notin Subtree[p]
    BY <1>4, <2>1, <2>2 DEF Undamaged
  <2> QED
    BY <1>4, <2>1, <2>2, <2>3, <2>4, SubtreeLinear
(* What is not above the request's path, is another path. *)
<1>7. ASSUME post.path \notin Subtree[p], remote'[p] = remote[p]
      PROVE  remote'[p] = local[p]
  BY <1>4, <1>7, SubtreeReflexive
<1>8. CASE PostCreatedDir
  <2>1. CASE OK(MakeDirs(remote, post.path)) /\ CanMakeDirs(remote, post.path)
    <3>1. remote' = MakeDirs(remote, post.path)
      BY <2>1 DEF OK
    <3>2. CASE post.path \in Subtree[p]
      <4>1. remote'[p] = Dir
        BY <1>2, <1>4, <2>1, <3>1, <3>2, MakeDirsTree
      <4>2. local[p] = Dir
        BY <1>4, <1>8, <3>2 DEF PostCreatedDir, Serving, Fits
      <4> QED
        BY <4>1, <4>2
    <3>3. CASE post.path \notin Subtree[p]
      BY <1>2, <1>4, <1>7, <2>1, <3>1, <3>3, MakeDirsTree
    <3> QED
      BY <3>2, <3>3
  <2>2. CASE Failed(remote)
    BY <1>5, <1>7, <2>2 DEF Failed
  <2> QED
    BY <1>8, <2>1, <2>2 DEF PostCreatedDir
<1>9. CASE PostContent
  <2> DEFINE c == post.content
  <2>1. c \in FileTexts /\ HasContent(post)
    BY <1>2, <1>9, PostTypes DEF PostContent, Serving, FileTexts, HasContent
  <2>2. CASE OK(WriteTo(remote, post.path, c)) /\ CanWrite(remote, post.path)
    <3>1. remote' = WriteTo(remote, post.path, c)
      BY <2>2 DEF OK
    <3>2. /\ remote'[post.path] = c
          /\ p # post.path /\ post.path \in Subtree[p] => remote'[p] = Dir
          /\ post.path \notin Subtree[p] => remote'[p] = remote[p]
      BY <1>2, <1>4, <2>1, <2>2, <3>1, WriteToTree
    <3>3. CASE post.path = p
      BY <1>4, <2>1, <3>2, <3>3
    <3>4. CASE post.path # p /\ post.path \in Subtree[p]
      BY <1>4, <3>2, <3>4 DEF Fits
    <3>5. CASE post.path \notin Subtree[p]
      BY <1>7, <3>2, <3>5
    <3> QED
      BY <3>3, <3>4, <3>5
  <2>3. CASE Failed(remote)
    BY <1>5, <1>7, <2>3 DEF Failed
  <2> QED
    BY <1>9, <2>2, <2>3 DEF PostContent
<1>10. CASE PostMovedDir
  <2>1. post.path \notin Subtree[p]
    BY <1>6, <1>10 DEF PostMovedDir, Serving
  <2>2. CASE OK(RemoveDirs(remote, post.path)) /\ CanRemoveDir(remote, post.path)
    BY <1>2, <1>4, <1>7, <2>1, <2>2, RemoveDirsTree DEF OK
  <2>3. CASE OK(remote) \/ Failed(remote)
    BY <1>7, <2>1, <2>3 DEF OK, Failed
  <2> QED
    BY <1>10, <2>2, <2>3 DEF PostMovedDir
<1>11. CASE PostMovedFile
  <2> DEFINE c == remote[post.path]
             w == WriteTo(remote, post.dst, c)
  <2>1. post.path \notin Subtree[p] /\ post.dst \notin Subtree[p] /\ post.dst \in Paths
    BY <1>2, <1>6, <1>11 DEF PostMovedFile, Serving
  <2>2. CASE OK([w EXCEPT ![post.path] = Absent]) /\ IsFile(c) /\ CanWrite(remote, post.dst)
    <3>1. c \in FileTexts
      BY <1>2, <2>2 DEF Trees, IsFile
    <3>2. w[p] = remote[p] /\ w \in Trees
      BY <1>2, <1>4, <2>1, <2>2, <3>1, WriteToTree
    <3> HIDE DEF w
    <3>3. remote'[p] = w[p]
      BY <1>4, <2>1, <2>2, <3>2, SubtreeReflexive DEF OK, Trees
    <3> QED
      BY <1>7, <2>1, <3>2, <3>3
  <2>3. CASE OK(remote) \/ Failed(remote)
    BY <1>7, <2>1, <2>3 DEF OK, Failed
  <2> QED
    BY <1>11, <2>2, <2>3 DEF PostMovedFile
<1>12. CASE PostDeleted
  <2>1. CASE OK(RemoveTree(remote, post.path))
    <3>1. remote'[p] = IF p \in Subtree[post.path] THEN Absent ELSE remote[p]
      BY <1>4, <2>1 DEF OK, RemoveTree
    <3>2. p \in Subtree[post.path] => local[p] = Absent
      BY <1>4, <1>12 DEF PostDeleted, Serving, Fits
    <3> QED
      BY <1>2, <1>4, <3>1, <3>2
  <2>2. CASE Failed(remote)
    BY <1>5, <1>7, <2>2 DEF Failed
  <2> QED
    BY <1>12, <2>1, <2>2 DEF PostDeleted
<1>13. CASE WriteFails
  <2>1. /\ Target \in Paths /\ CanMakeDirs(remote, Front(Target))
        /\ Target \notin Subtree[p] /\ post.path \notin Subtree[p]
    BY <1>1, <1>2, <1>5, <1>13, PostTypes DEF WriteFails, Target
  <2>2. ASSUME NEW t \in PartlyMade(remote, Front(Target)), Failed(t)
        PROVE  remote'[p] = remote[p]
    <3>1. Front(Target) \in Nodes /\ Front(Target) \notin Subtree[p]
      BY <1>4, <2>1, FrontAbove, SubtreeTransitive
    <3>2. t[p] = remote[p]
      BY <1>2, <1>4, <2>1, <2>2, <3>1, PartlyMadeTree
    <3> QED
      BY <2>2, <3>2 DEF Failed
  <2>3. ASSUME remote[Target] # Dir, NEW c \in FileTexts, Failed(WriteTo(remote, Target, c))
        PROVE  remote'[p] = remote[p]
    <3>1. WriteTo(remote, Target, c)[p] = remote[p]
      BY <1>2, <1>4, <2>1, <2>3, WriteToTree DEF CanWrite
    <3> QED
      BY <2>3, <3>1 DEF Failed
  <2>4. Torn \in FileTexts
    BY DEF FileTexts
  <2>5. post.op = "moved" => remote[post.path] \in FileTexts
    BY <1>2, <1>13 DEF WriteFails, IsFile, Trees
  <2>6. remote'[p] = remote[p]
    BY <1>13, <2>2, <2>3, <2>4, <2>5 DEF WriteFails
  <2> QED
    BY <1>7, <2>1, <2>6
<1>14. CASE RemoveFails
  <2>1. PICK t \in PartlyRemoved(remote, post.path) : Failed(t)
    BY <1>14 DEF RemoveFails
  <2>2. post.path \in history'.disturbed
    BY <2>1 DEF Failed, V2Inv, V2TypeOK
  <2>3. p \notin Subtree[post.path] /\ post.path \notin Subtree[p]
    BY <2>2 DEF Undamaged
  <2>4. t[p] = remote[p]
    BY <1>2, <1>4, <2>1, <2>3, PartlyRemovedTree
  <2> QED
    BY <1>7, <2>1, <2>3, <2>4 DEF Failed
<1> QED
  BY <1>8, <1>9, <1>10, <1>11, <1>12, <1>13, <1>14 DEF DoPost

LEMMA DamageRefused == V2Inv /\ DamageInv /\ Refused => DamageInv'
<1> SUFFICES ASSUME V2Inv, DamageInv, Refused
             PROVE  DamageInv'
  OBVIOUS
<1>1. /\ UNCHANGED <<local, events>> /\ post' = NoPost /\ observer' = "dead"
      /\ history'.disturbed = history.disturbed
  BY DEF Refused, V2Inv, V2TypeOK
<1> QED
  BY <1>1, DamageAnswer

(* When everything is delivered, a path that no rename and no failed        *)
(* request has named, above it or below it, is equal on both sides: what    *)
(* was read late, skipped, or overtaken by later events has been made up    *)
(* for (monitor.py:77-81, 91-92, _http.py:90-92, 119).                      *)
THEOREM DamageStaysLocal == Spec => []DamageIsLocal
<1>1. V2Inv /\ DamageInv /\ [Next]_vars => DamageInv'
  <2>1. ASSUME DamageInv, UNCHANGED vars
        PROVE  DamageInv'
    BY <2>1 DEF vars, DamageInv, Undamaged, InDamage, EventsFit, PostFits, UpToDate,
                QuietAfter, Concerns, Fits, HasContent
  <2> QED
    BY <2>1, DamageUser, DamageDispatch, DamageDoPost, DamageRefused DEF Next
<1>2. V2Inv /\ DamageInv => DamageIsLocal
  <2> SUFFICES ASSUME V2Inv, DamageInv, Settled, NEW p \in Undamaged
               PROVE  remote[p] = local[p]
    BY DEF DamageIsLocal, Undamaged
  <2>1. events = <<>> /\ post = NoPost /\ observer = "running" /\ UpToDate(p)
    BY DEF Settled, DamageInv
  <2>2. QuietAfter(0, p)
    BY <2>1 DEF QuietAfter
  <2> QED
    BY <2>1, <2>2 DEF UpToDate
<1> QED
  BY <1>1, <1>2, DamageInit, V2InvInit, V2InvNext, PTL DEF Spec

-----------------------------------------------------------------------------
(* Which names there are.                                                  *)

(* What there is at each path, whatever the files contain. *)
KindTrees == {t \in [Nodes -> {Absent, Dir, "file"}] : IsTree(t)}

KindsOf(t) == [p \in Nodes |-> Kind(t[p])]

(* An event, or its request, as a step from one tree of kinds to the next. *)
Does(t, m, u) ==
  \/ /\ m.op = "created" /\ t[m.path] = Absent /\ t[Front(m.path)] = Dir
     /\ u = [q \in Nodes |-> IF q = m.path THEN IF m.isDir THEN Dir ELSE "file" ELSE t[q]]
  \/ /\ m.op = "modified" /\ u = t
     /\ m.isDir \/ t[m.path] = "file"
  \/ /\ m.op = "deleted" /\ \A q \in Subtree[m.path] \ {m.path} : t[q] = Absent
     /\ u = [q \in Nodes |-> IF q = m.path THEN Absent ELSE t[q]]
  \/ /\ m.op = "moved" /\ ~m.isDir /\ m.path \notin Ignored \cup Forbidden
     /\ m.dst # m.path
     /\ t[m.path] = "file" /\ t[m.dst] # Dir /\ t[Front(m.dst)] = Dir
     /\ u = [q \in Nodes |-> IF q = m.path THEN Absent
                             ELSE IF q = m.dst THEN "file" ELSE t[q]]

Exact == Nodes \ (Ignored \cup Forbidden)

(* The server is where the client was when it looked like t. *)
Agrees(t) == \A p \in Exact : Kind(remote[p]) = t[p]

(* The trees the client had before each event that waits, and has now. *)
Trace(s) ==
  /\ s \in [0 .. Len(events) -> KindTrees]
  /\ s[Len(events)] = KindsOf(local)
  /\ \A i \in 1 .. Len(events) : Does(s[i - 1], events[i], s[i])
  /\ post = NoPost => Agrees(s[0])
  /\ post # NoPost => \E t \in KindTrees : Agrees(t) /\ Does(t, post, s[0])

Mirroring ==
  history.kinds \cap {"renameOther", "failure"} = {} /\ observer = "running"

(* NamesAreMirrored speaks of the end.  Until then the server lags behind,  *)
(* and repeats the client's steps one by one.                               *)
NamesInv == Mirroring => \E s : Trace(s)

LEMMA KindOf ==
  /\ Kind(Absent) = Absent /\ Kind(Dir) = Dir
  /\ \A c \in FileTexts : Kind(c) = "file"
  /\ \A v \in {Absent, Dir} \cup FileTexts :
       /\ Kind(v) \in {Absent, Dir, "file"} /\ (Kind(v) = "file" <=> v \in FileTexts)
       /\ (Kind(v) = Absent <=> v = Absent) /\ (Kind(v) = Dir <=> v = Dir)
       /\ (IsFile(v) <=> v \in FileTexts)
BY FileTextsAreFiles DEF Kind, IsFile, Absent, Dir

LEMMA KindsAreTrees ==
  ASSUME NEW t \in LocalTrees
  PROVE  /\ KindsOf(t) \in KindTrees
         /\ \A p \in Nodes : KindsOf(t)[p] = Kind(t[p]) /\ t[p] \in {Absent, Dir} \cup FileTexts
<1>1. \A p \in Nodes : KindsOf(t)[p] = Kind(t[p]) /\ t[p] \in {Absent, Dir} \cup FileTexts
  BY DEF KindsOf, LocalTrees, FileTexts
<1>2. KindsOf(t) \in [Nodes -> {Absent, Dir, "file"}]
  BY <1>1, KindOf DEF KindsOf
<1>3. IsTree(KindsOf(t))
  <2> SUFFICES ASSUME NEW p \in Paths, KindsOf(t)[p] # Absent
               PROVE  KindsOf(t)[Front(p)] = Dir
    BY DEF IsTree
  <2>1. p \in Nodes /\ Front(p) \in Nodes
    BY FrontAbove, WorkDirOnTop
  <2>2. t[p] # Absent
    BY <1>1, <2>1, KindOf
  <2>3. t[Front(p)] = Dir
    BY <2>2 DEF LocalTrees, Tree
  <2> QED
    BY <1>1, <2>1, <2>3, KindOf
<1> QED
  BY <1>1, <1>2, <1>3 DEF KindTrees

LEMMA NamesInit == Init => NamesInv
<1> SUFFICES ASSUME Init
             PROVE  \E s : Trace(s)
  BY DEF NamesInv
<1>1. /\ local \in LocalTrees /\ remote = local
      /\ events = <<>> /\ Len(events) = 0 /\ post = NoPost
  BY StartsAssumption DEF Init, LocalTrees
<1>2. KindsOf(local) \in KindTrees /\ Agrees(KindsOf(local))
  BY <1>1, KindsAreTrees DEF Agrees, Exact
<1>3. PICK k \in KindTrees : k = KindsOf(local)
  BY <1>2
<1>4. Trace([i \in 0 .. 0 |-> k])
  BY <1>1, <1>2, <1>3 DEF Trace
<1> QED
  BY <1>4

(* One more event, and one more tree. *)
LEMMA NamesEdit ==
  ASSUME V2Inv, NamesInv, NEW kind, NEW disturbed, Edit(kind, disturbed),
         local' \in LocalTrees, NEW e \in Events, events' = Append(events, e),
         NEW k \in KindTrees, k = KindsOf(local'), Does(KindsOf(local), e, k)
  PROVE  NamesInv'
<1> SUFFICES ASSUME Mirroring'
             PROVE  \E s : Trace(s)'
  BY DEF NamesInv
<1>1. Mirroring /\ UNCHANGED <<remote, post>>
  BY DEF Mirroring, Edit
<1>2. PICK s : Trace(s)
  BY <1>1 DEF NamesInv
<1>3. PICK n \in Nat : n = Len(events)
  BY DEF V2Inv, V2TypeOK
<1>4. /\ Len(events') = n + 1 /\ events'[n + 1] = e
      /\ \A i \in 1 .. n : events'[i] = events[i]
      /\ \A i \in 1 .. Len(events') : i \in 1 .. n \/ i = n + 1
  BY <1>3, AppendEvents DEF V2Inv, V2TypeOK
<1> DEFINE u == [i \in 0 .. n + 1 |-> IF i = n + 1 THEN k ELSE s[i]]
<1>5. /\ u \in [0 .. n + 1 -> KindTrees] /\ u[n + 1] = k
      /\ \A i \in 0 .. n : u[i] = s[i]
  BY <1>2, <1>3 DEF Trace
<1>6. /\ \A i \in 1 .. n : i \in 0 .. n /\ i - 1 \in 0 .. n
      /\ 0 \in 0 .. n /\ n \in 0 .. n /\ (n + 1) - 1 = n
  BY <1>3
<1> HIDE DEF u
<1>7. \A i \in 1 .. Len(events') : Does(u[i - 1], events'[i], u[i])
  BY <1>2, <1>3, <1>4, <1>5, <1>6 DEF Trace
<1>8. u[0] = s[0]
  BY <1>5, <1>6
<1>9. Trace(u)'
  BY <1>1, <1>2, <1>4, <1>5, <1>7, <1>8 DEF Trace, Agrees
<1> QED
  BY <1>9

(* A rename of a file is one event. *)
LEMMA MovedEventsFile ==
  ASSUME NEW x \in Paths, NEW y \in Paths, Below(local, x) = {},
         NEW moves \in MovedEvents(x, y), NEW q \in Seq(Events), MovedEvent(x, x, y) \in Events
  PROVE  q \o moves = Append(q, MovedEvent(x, x, y))
<1> DEFINE e == MovedEvent(x, x, y)
           S == {MovedEvent(r, x, y) : r \in {x} \cup Below(local, x)}
<1>1. S = {e}
  OBVIOUS
<1>2. moves \in [1 .. Cardinality(S) -> S]
  BY DEF MovedEvents, SetToSeqs
<1> HIDE DEF S
<1>3. Cardinality({e}) = 1
  BY FS_Singleton
<1>4. PICK ev \in Events : ev = e
  OBVIOUS
<1>5. moves \in [1 .. 1 -> {ev}]
  BY <1>1, <1>2, <1>3, <1>4
<1>6. moves = <<ev>>
  BY <1>5
<1> QED
  BY <1>4, <1>6

LEMMA NamesRename ==
  ASSUME V2Inv, NamesInv, NEW x \in Paths, NEW y \in Paths, Rename(x, y)
  PROVE  NamesInv'
<1> SUFFICES ASSUME Mirroring'
             PROVE  NamesInv'
  BY DEF NamesInv
<1>0. /\ local \in LocalTrees /\ IsTree(local) /\ events \in Seq(Events)
      /\ x \in Nodes /\ y \in Nodes /\ x \in Subtree[x] /\ y \in Subtree[y]
  BY InvTrees, WorkDirOnTop, SubtreeReflexive DEF LocalTrees, Tree, IsTree
<1>1. /\ IsFile(local[x]) /\ {x, y} \cap (Ignored \cup Forbidden) = {}
      /\ local[y] # Dir /\ local[Front(y)] = Dir /\ y \notin Subtree[x] /\ y # x
  <2>1. RenameKind(x, y) # "renameOther"
    BY DEF Mirroring, Rename, Edit, V2Inv, V2TypeOK
  <2>2. IsFile(local[x]) /\ {x, y} \cap (Ignored \cup Forbidden) = {}
    BY <2>1 DEF RenameKind
  <2> QED
    BY <1>0, <2>2 DEF Rename, IsFile
<1>2. /\ \A r \in Subtree[x] \ {x} : local[r] = Absent
      /\ \A r \in Subtree[y] \ {y} : local[r] = Absent
  BY <1>0, <1>1, AboveInTree, SubtreeNodes DEF IsFile
<1>3. Below(local, x) = {}
  BY <1>2 DEF Below
<1>4. local' = Renamed(local, x, y)
  BY DEF Rename, Renamed
<1>5. local' \in LocalTrees
  BY <1>0, <1>1, <1>4, RenameTree DEF IsFile
<1>6. PICK e \in Events : /\ e = MovedEvent(x, x, y)
                          /\ e.op = "moved" /\ e.path = x /\ e.dst = y /\ ~e.isDir
  <2>1. MovedEvent(x, x, y) = [op |-> "moved", path |-> x, dst |-> y, isDir |-> FALSE]
    BY <1>1, MovedSelf DEF MovedEvent, IsFile
  <2>2. [op |-> "moved", path |-> x, dst |-> y, isDir |-> FALSE] \in Events
    BY DEF Events
  <2> QED
    BY <2>1, <2>2
<1>7. events' = Append(events, e)
  BY <1>0, <1>3, <1>6, MovedEventsFile DEF Rename
<1>8. /\ KindsOf(local) \in KindTrees
      /\ \A p \in Nodes : KindsOf(local)[p] = Kind(local[p])
      /\ \A p \in Nodes : local[p] \in {Absent, Dir} \cup FileTexts
  BY <1>0, KindsAreTrees
<1>9. PICK k \in KindTrees : k = KindsOf(local')
  BY <1>5, KindsAreTrees
<1>10. /\ local'[x] = Absent /\ local'[y] = local[x]
       /\ \A r \in Nodes \ {x, y} : local'[r] = local[r]
  <2>1. local'[x] = Absent
    BY <1>0, <1>4 DEF Renamed
  <2>2. local'[y] = local[x]
    BY <1>0, <1>1, <1>4, MovedSelf DEF Renamed
  <2>3. ASSUME NEW r \in Nodes \ {x, y}
        PROVE  local'[r] = local[r]
    <3>1. CASE r \in Subtree[x]
      BY <1>2, <1>4, <2>3, <3>1 DEF Renamed
    <3>2. CASE r \notin Subtree[x] /\ r \in Subtree[y]
      <4>1. local[r] = Absent
        BY <1>2, <2>3, <3>2
      <4>2. ASSUME Moved(r, y, x) \in Paths
            PROVE  local[Moved(r, y, x)] = Absent
        <5>1. Moved(r, y, x) \in Nodes
          BY <4>2, WorkDirOnTop
        <5>2. Moved(r, y, x) \in Subtree[x]
          BY <3>2, <5>1, MovedBelow
        <5>3. Moved(r, y, x) # x
          <6>1. Len(r) # Len(y) /\ Len(r) \in Nat /\ Len(y) \in Nat /\ Len(x) \in Nat
            <7>1. Len(y) <= Len(r) /\ \A i \in 1 .. Len(y) : y[i] = r[i]
              BY <1>0, <2>3, <3>2, SubtreeDef
            <7> QED
              BY <1>0, <2>3, <7>1, NodesAreSequences, SeqEqual
          <6>2. Len(Moved(r, y, x)) = Len(x) + (Len(r) - Len(y))
            BY <3>2, MovedDef
          <6> QED
            BY <6>1, <6>2
        <5> QED
          BY <1>2, <5>2, <5>3
      <4> QED
        BY <1>4, <2>3, <3>2, <4>1, <4>2 DEF Renamed
    <3>3. CASE r \notin Subtree[x] /\ r \notin Subtree[y]
      BY <1>4, <2>3, <3>3 DEF Renamed
    <3> QED
      BY <3>1, <3>2, <3>3
  <2> QED
    BY <2>1, <2>2, <2>3
<1>11. \A p \in Nodes : k[p] = Kind(local'[p]) /\ local'[p] \in {Absent, Dir} \cup FileTexts
  BY <1>5, <1>9, KindsAreTrees
<1>12. /\ KindsOf(local)[x] = "file" /\ KindsOf(local)[y] # Dir
       /\ KindsOf(local)[Front(y)] = Dir
  <2>1. Front(y) \in Nodes
    BY FrontAbove
  <2> QED
    BY <1>0, <1>1, <1>8, <2>1, KindOf
<1>13. k = [r \in Nodes |-> IF r = x THEN Absent
                            ELSE IF r = y THEN "file" ELSE KindsOf(local)[r]]
  <2>1. k = [r \in Nodes |-> k[r]]
    BY DEF KindTrees
  <2>2. k[x] = Absent /\ k[y] = "file"
    BY <1>0, <1>8, <1>10, <1>11, <1>12, KindOf
  <2>3. \A r \in Nodes \ {x, y} : k[r] = KindsOf(local)[r]
    BY <1>8, <1>10, <1>11
  <2> QED
    BY <1>1, <2>1, <2>2, <2>3
<1>14. Does(KindsOf(local), e, k)
  BY <1>1, <1>6, <1>12, <1>13 DEF Does
<1>15. Edit(RenameKind(x, y), {x, y})
  BY DEF Rename
<1> QED
  BY <1>5, <1>7, <1>9, <1>14, <1>15, NamesEdit

LEMMA NamesUser == V2Inv /\ NamesInv /\ User => NamesInv'
<1> SUFFICES ASSUME V2Inv, NamesInv, User, NEW x \in Paths,
                    \/ Create(x) \/ Write(x) \/ Touch(x) \/ Mkdir(x) \/ Delete(x)
                    \/ \E y \in Paths : Rename(x, y)
             PROVE  NamesInv'
  BY DEF User
<1>0. /\ local \in LocalTrees /\ local' \in LocalTrees
      /\ x \in Nodes /\ Front(x) \in Nodes
      /\ local \in [Nodes -> {Absent, Dir} \cup Contents]
  <2>1. V2Inv'
    BY V2User
  <2>2. local \in LocalTrees /\ local' \in LocalTrees
    BY <2>1 DEF V2Inv, V2TypeOK, LocalTrees
  <2> QED
    BY <2>2, WorkDirOnTop, FrontAbove DEF LocalTrees
<1> DEFINE old == KindsOf(local)
<1>1. /\ old \in KindTrees /\ old = [p \in Nodes |-> old[p]]
      /\ \A p \in Nodes : old[p] = Kind(local[p]) /\ local[p] \in {Absent, Dir} \cup FileTexts
  BY <1>0, KindsAreTrees DEF KindTrees
<1>2. PICK k \in KindTrees : k = KindsOf(local')
  BY <1>0, KindsAreTrees
<1>3. /\ k = [p \in Nodes |-> k[p]]
      /\ \A p \in Nodes : k[p] = Kind(local'[p]) /\ local'[p] \in {Absent, Dir} \cup FileTexts
  BY <1>0, <1>2, KindsAreTrees DEF KindTrees
<1> HIDE DEF old
(* At most what x is changes. *)
<1>4. ASSUME NEW v, local' = [local EXCEPT ![x] = v]
      PROVE  k = [q \in Nodes |-> IF q = x THEN Kind(v) ELSE old[q]]
  BY <1>0, <1>1, <1>3, <1>4
<1>5. CASE Create(x)
  <2>0. PICK e \in Events : /\ e = Event("created", x)
                            /\ e.path = x /\ e.op = "created"
    BY EventType
  <2>1. /\ local[x] = Absent /\ local[Front(x)] = Dir
        /\ local' = [local EXCEPT ![x] = Empty]
        /\ Edit("create", {}) /\ events' = Append(events, e)
    BY <1>5, <2>0 DEF Create
  <2>2. ~e.isDir
    BY <2>0, <2>1 DEF Event, Absent, Dir
  <2>3. Kind(Empty) = "file" /\ old[x] = Absent /\ old[Front(x)] = Dir
    BY <1>0, <1>1, <2>1, KindOf, ContentsAssumption DEF FileTexts
  <2>4. k = [q \in Nodes |-> IF q = x THEN "file" ELSE old[q]]
    BY <1>4, <2>1, <2>3
  <2>5. Does(old, e, k)
    BY <2>0, <2>2, <2>3, <2>4 DEF Does
  <2> QED
    BY <1>0, <1>2, <2>1, <2>5, NamesEdit DEF old
<1>6. CASE Write(x)
  <2>0. PICK e \in Events : /\ e = Event("modified", x)
                            /\ e.path = x /\ e.op = "modified"
    BY EventType
  <2>1. PICK c \in Contents : local' = [local EXCEPT ![x] = c]
    BY <1>6, <2>0 DEF Write
  <2>2. IsFile(local[x]) /\ Edit("write", {}) /\ events' = Append(events, e)
    BY <1>6, <2>0 DEF Write
  <2>3. Kind(c) = "file" /\ old[x] = "file"
    BY <1>0, <1>1, <2>2, KindOf DEF FileTexts
  <2>4. k = old
    BY <1>1, <1>3, <1>4, <2>1, <2>3
  <2>5. Does(old, e, k)
    BY <2>0, <2>3, <2>4 DEF Does
  <2> QED
    BY <1>0, <1>2, <2>2, <2>5, NamesEdit DEF old
<1>7. CASE Touch(x)
  <2>0. PICK e \in Events : /\ e = Event("modified", x)
                            /\ e.path = x /\ e.op = "modified"
    BY EventType
  <2>1. /\ local[x] = Dir /\ local' = local
        /\ Edit("touch", {}) /\ events' = Append(events, e)
    BY <1>7, <2>0 DEF Touch
  <2>2. e.isDir
    BY <2>0, <2>1 DEF Event
  <2>3. k = old
    BY <1>1, <1>3, <2>1
  <2>4. Does(old, e, k)
    BY <2>0, <2>2, <2>3 DEF Does
  <2> QED
    BY <1>0, <1>2, <2>1, <2>4, NamesEdit DEF old
<1>8. CASE Mkdir(x)
  <2>0. PICK e \in Events : /\ e = [Event("created", x) EXCEPT !.isDir = TRUE]
                            /\ e.path = x /\ e.op = "created" /\ e.isDir
    BY MkdirEvent
  <2>1. /\ local[x] = Absent /\ local[Front(x)] = Dir
        /\ local' = [local EXCEPT ![x] = Dir]
        /\ Edit("mkdir", {}) /\ events' = Append(events, e)
    BY <1>8, <2>0 DEF Mkdir
  <2>2. Kind(Dir) = Dir /\ old[x] = Absent /\ old[Front(x)] = Dir
    BY <1>0, <1>1, <2>1, KindOf
  <2>3. k = [q \in Nodes |-> IF q = x THEN Dir ELSE old[q]]
    BY <1>4, <2>1, <2>2
  <2>4. Does(old, e, k)
    BY <2>0, <2>2, <2>3 DEF Does
  <2> QED
    BY <1>0, <1>2, <2>1, <2>4, NamesEdit DEF old
<1>9. CASE Delete(x)
  <2>0. PICK e \in Events : /\ e = Event("deleted", x)
                            /\ e.path = x /\ e.op = "deleted"
    BY EventType
  <2>1. /\ Below(local, x) = {}
        /\ local' = [local EXCEPT ![x] = Absent]
        /\ Edit("remove", {}) /\ events' = Append(events, e)
    BY <1>9, <2>0 DEF Delete
  <2>2. \A q \in Subtree[x] \ {x} : old[q] = Absent
    BY <1>0, <1>1, <2>1, SubtreeNodes, KindOf DEF Below
  <2>3. k = [q \in Nodes |-> IF q = x THEN Absent ELSE old[q]]
    BY <1>4, <2>1, KindOf
  <2>4. Does(old, e, k)
    BY <2>0, <2>2, <2>3 DEF Does
  <2> QED
    BY <1>0, <1>2, <2>1, <2>4, NamesEdit DEF old
<1> QED
  BY <1>5, <1>6, <1>7, <1>8, <1>9, NamesRename

(* An event that is not sent concerns no file by which the trees are        *)
(* compared; one that is sent means what its request does.                  *)
LEMMA NamesDispatch == V2Inv /\ NamesInv /\ Dispatch => NamesInv'
<1> SUFFICES ASSUME V2Inv, NamesInv, Dispatch, Mirroring'
             PROVE  \E s : Trace(s)'
  BY DEF NamesInv
<1>1. /\ E \in Events /\ events # <<>> /\ events' = Tail(events)
      /\ post = NoPost /\ observer = "running"
      /\ UNCHANGED <<local, remote>> /\ history'.disturbed = history.disturbed
      /\ observer' = "dead" \/ history' = history
      /\ \/ post' = E /\ (E.op \in {"moved", "deleted"} \/ (E.op = "created" /\ E.isDir))
         \/ post' = WithContent /\ E.op \in {"created", "modified"} /\ ~E.isDir
         \/ post' = NoPost /\ (E.path \in Ignored \/ (E.op = "modified" /\ E.isDir))
         \/ post' = NoPost /\ observer' = "dead"
  BY DispatchDoes
<1>2. PICK s : Trace(s)
  BY <1>1 DEF NamesInv, Mirroring
<1>3. PICK n \in Nat : n = Len(events')
  BY <1>1, HeadTailProperties DEF V2Inv, V2TypeOK
<1>4. /\ Len(events) = n + 1 /\ E = events[1]
      /\ \A i \in 1 .. n : events'[i] = events[i + 1]
  <2>1. Len(events) \in Nat \ {0} /\ Len(Tail(events)) = Len(events) - 1
    BY <1>1, HeadTailProperties, EmptySeq DEF V2Inv, V2TypeOK
  <2> QED
    BY <1>1, <1>3, <2>1, TailEvents DEF V2Inv, V2TypeOK
<1> DEFINE u == [i \in 0 .. n |-> s[i + 1]]
<1>5. /\ u \in [0 .. n -> KindTrees] /\ u[n] = s[n + 1]
      /\ \A i \in 0 .. n : u[i] = s[i + 1]
  BY <1>2, <1>4 DEF Trace
<1>6. /\ \A i \in 1 .. n : /\ i \in 0 .. n /\ i - 1 \in 0 .. n /\ (i - 1) + 1 = i
                           /\ i + 1 \in 1 .. n + 1 /\ (i + 1) - 1 = i
      /\ 0 \in 0 .. n /\ 0 + 1 = 1 /\ 1 \in 1 .. n + 1 /\ 1 - 1 = 0
  OBVIOUS
<1> HIDE DEF u
<1>7. \A i \in 1 .. n : Does(u[i - 1], events'[i], u[i])
  <2> TAKE i \in 1 .. n
  <2>1. u[i - 1] = s[i] /\ u[i] = s[i + 1] /\ events'[i] = events[i + 1]
    BY <1>4, <1>5, <1>6
  <2>2. Does(s[(i + 1) - 1], events[i + 1], s[i + 1])
    BY <1>2, <1>4, <1>6 DEF Trace
  <2> QED
    BY <1>6, <2>1, <2>2
<1>8. /\ s[0] \in KindTrees /\ Agrees(s[0]) /\ Does(s[0], E, u[0])
  <2>1. 0 \in 0 .. n + 1
    OBVIOUS
  <2> QED
    BY <1>1, <1>2, <1>4, <1>5, <1>6, <2>1 DEF Trace
<1>9. post' = NoPost => Agrees(u[0])
  <2> SUFFICES ASSUME post' = NoPost, NEW p \in Exact
               PROVE  u[0][p] = s[0][p]
    BY <1>8 DEF Agrees
  <2>1. E.path \in Ignored \/ (E.op = "modified" /\ E.isDir)
    BY <1>1 DEF Mirroring, NoPost, WithContent, Events
  <2> QED
    BY <1>8, <2>1 DEF Does, Exact
<1>10. post' # NoPost => Does(s[0], post', u[0])
  <2>1. CASE post' = E
    BY <1>8, <2>1
  <2>2. CASE post' = WithContent /\ E.op \in {"created", "modified"} /\ ~E.isDir
    BY <1>8, <2>2 DEF Does, WithContent
  <2> QED
    BY <1>1, <2>1, <2>2
<1>11. u[n] = KindsOf(local)
  BY <1>2, <1>4, <1>5 DEF Trace
<1>12. Trace(u)'
  BY <1>1, <1>3, <1>5, <1>7, <1>8, <1>9, <1>10, <1>11 DEF Trace, Agrees, KindsOf
<1> QED
  BY <1>12

-----------------------------------------------------------------------------
(* A request repeats its event on the server: every way to do otherwise is  *)
(* a failure.                                                               *)
LEMMA NamesAnswered ==
  ASSUME V2Inv, DoPost, Mirroring', NEW t \in KindTrees, Agrees(t),
         NEW u, Does(t, post, u), NEW p \in Exact
  PROVE  Kind(remote'[p]) = u[p]
<1>1. post.op # "none"
  BY DEF DoPost, PostCreatedDir, PostContent, PostMovedDir, PostMovedFile,
         PostDeleted, WriteFails, RemoveFails, Serving
<1>2. /\ post \in Posts /\ post.path \in Paths /\ remote \in Trees
      /\ post.op \in {"created", "modified", "deleted", "moved"}
      /\ post.path \in Nodes /\ post.path \in Subtree[post.path]
      /\ post.op = "moved" => post.dst \in Paths /\ post.dst \in Nodes
                                /\ post.dst \in Subtree[post.dst]
      /\ p \in Nodes
      /\ \A q \in Nodes : remote[q] \in {Absent, Dir} \cup FileTexts
  BY <1>1, PostTypes, InvTrees, WorkDirOnTop, SubtreeReflexive DEF Exact, Trees
<1>3. /\ t \in [Nodes -> {Absent, Dir, "file"}] /\ IsTree(t)
      /\ \A q \in Exact : Kind(remote[q]) = t[q]
  BY DEF KindTrees, Agrees
<1>4. \A r : ~Failed(r)
  BY DEF Failed, Mirroring, V2Inv, V2TypeOK
(* Above a path whose directory is there, everything is. *)
<1>5. ASSUME NEW q \in Paths, t[Front(q)] = Dir, q \in Subtree[p], q # p
      PROVE  t[p] = Dir
  <2>1. Front(q) \in Subtree[p]
    BY <1>2, <1>5, FrontNext
  <2>2. Dir # Absent
    BY DEF Dir, Absent
  <2> QED
    BY <1>2, <1>3, <1>5, <2>1, <2>2, AboveInTree
<1>6. CASE PostCreatedDir
  <2>1. /\ post.op = "created" /\ post.isDir
        /\ CanMakeDirs(remote, post.path) /\ remote' = MakeDirs(remote, post.path)
    BY <1>4, <1>6 DEF PostCreatedDir, Serving, OK
  <2>2. /\ t[Front(post.path)] = Dir
        /\ u[p] = IF p = post.path THEN Dir ELSE t[p]
    BY <1>2, <2>1 DEF Does
  <2>3. CASE post.path \in Subtree[p]
    <3>1. remote'[p] = Dir
      BY <1>2, <2>1, <2>3, MakeDirsTree
    <3>2. u[p] = Dir
      BY <1>2, <1>5, <2>2, <2>3
    <3> QED
      BY <3>1, <3>2, KindOf
  <2>4. CASE post.path \notin Subtree[p]
    <3>1. remote'[p] = remote[p]
      BY <1>2, <2>1, <2>4, MakeDirsTree
    <3> QED
      BY <1>2, <1>3, <2>2, <2>4, <3>1
  <2> QED
    BY <2>3, <2>4
<1>7. CASE PostContent
  <2>1. /\ post.op \in {"created", "modified"} /\ ~post.isDir
        /\ CanWrite(remote, post.path)
        /\ remote' = WriteTo(remote, post.path, post.content)
    BY <1>4, <1>7 DEF PostContent, Serving, OK
  <2>2. post.content \in FileTexts
    BY <1>2, <2>1, PostTypes DEF FileTexts
  <2>3. /\ t[Front(post.path)] = Dir
        /\ u[p] = IF p = post.path THEN "file" ELSE t[p]
    <3>1. CASE post.op = "created"
      BY <1>2, <2>1, <3>1 DEF Does
    <3>2. CASE post.op = "modified"
      <4>1. u = t /\ t[post.path] = "file"
        BY <2>1, <3>2 DEF Does
      <4>2. t[post.path] # Absent
        BY <4>1 DEF Absent
      <4> QED
        BY <1>2, <1>3, <4>1, <4>2 DEF IsTree
    <3> QED
      BY <2>1, <3>1, <3>2
  <2>4. CASE p = post.path
    <3>1. remote'[p] = post.content
      BY <1>2, <2>1, <2>2, <2>4, WriteToTree
    <3> QED
      BY <2>2, <2>3, <2>4, <3>1, KindOf
  <2>5. CASE p # post.path /\ post.path \in Subtree[p]
    <3>1. remote'[p] = Dir
      BY <1>2, <2>1, <2>2, <2>5, WriteToTree
    <3>2. u[p] = Dir
      BY <1>2, <1>5, <2>3, <2>5
    <3> QED
      BY <3>1, <3>2, KindOf
  <2>6. CASE p # post.path /\ post.path \notin Subtree[p]
    <3>1. remote'[p] = remote[p]
      BY <1>2, <2>1, <2>2, <2>6, WriteToTree
    <3> QED
      BY <1>3, <2>3, <2>6, <3>1
  <2> QED
    BY <2>4, <2>5, <2>6
<1>8. CASE PostMovedDir
  <2>1. post.op = "moved" /\ post.isDir
    BY <1>8 DEF PostMovedDir, Serving
  <2> QED
    BY <2>1 DEF Does
<1>9. CASE PostMovedFile
  <2>1. post.op = "moved"
    BY <1>9 DEF PostMovedFile, Serving
  <2>2. /\ post.path \in Exact /\ post.dst # post.path
        /\ t[post.path] = "file" /\ t[post.dst] # Dir /\ t[Front(post.dst)] = Dir
        /\ u[p] = IF p = post.path THEN Absent ELSE IF p = post.dst THEN "file" ELSE t[p]
    BY <1>2, <2>1 DEF Does, Exact
  <2>3. PICK c \in FileTexts : c = remote[post.path]
    BY <1>2, <1>3, <2>2, KindOf
  <2>4. c # Absent
    BY FileTextsAreFiles
  <2>5. /\ CanWrite(remote, post.dst)
        /\ remote' = [WriteTo(remote, post.dst, c) EXCEPT ![post.path] = Absent]
    BY <1>4, <1>9, <2>3, <2>4 DEF PostMovedFile, OK
  <2>6. PICK w \in Trees : w = WriteTo(remote, post.dst, c)
    BY <1>2, <2>1, <2>5, WriteToTree
  <2>7. /\ w \in [Nodes -> {Absent, Dir} \cup FileTexts] /\ remote' = [w EXCEPT ![post.path] = Absent]
        /\ w[post.dst] = c
        /\ \A q \in Nodes \ {post.dst} : post.dst \in Subtree[q] => w[q] = Dir
        /\ \A q \in Nodes : post.dst \notin Subtree[q] => w[q] = remote[q]
    BY <1>2, <2>1, <2>5, <2>6, WriteToTree DEF Trees
  <2>8. CASE p = post.path
    BY <1>2, <2>2, <2>7, <2>8, KindOf
  <2>9. CASE p = post.dst
    BY <1>2, <2>2, <2>7, <2>9, KindOf
  <2>10. CASE p \notin {post.path, post.dst} /\ post.dst \in Subtree[p]
    <3>1. remote'[p] = Dir
      BY <1>2, <2>7, <2>10
    <3>2. u[p] = Dir
      BY <1>2, <1>5, <2>1, <2>2, <2>10
    <3> QED
      BY <3>1, <3>2, KindOf
  <2>11. CASE p \notin {post.path, post.dst} /\ post.dst \notin Subtree[p]
    BY <1>2, <1>3, <2>2, <2>7, <2>11
  <2> QED
    BY <2>8, <2>9, <2>10, <2>11
<1>10. CASE PostDeleted
  <2>1. post.op = "deleted" /\ remote' = RemoveTree(remote, post.path)
    BY <1>4, <1>10 DEF PostDeleted, Serving, OK
  <2>2. /\ \A q \in Subtree[post.path] \ {post.path} : t[q] = Absent
        /\ u[p] = IF p = post.path THEN Absent ELSE t[p]
    BY <1>2, <2>1 DEF Does
  <2>3. remote'[p] = IF p \in Subtree[post.path] THEN Absent ELSE remote[p]
    BY <1>2, <2>1 DEF RemoveTree
  <2> QED
    BY <1>2, <1>3, <2>2, <2>3, KindOf
<1>11. CASE WriteFails \/ RemoveFails
  BY <1>4, <1>11 DEF WriteFails, RemoveFails
<1> QED
  BY <1>6, <1>7, <1>8, <1>9, <1>10, <1>11 DEF DoPost

LEMMA NamesDoPost == V2Inv /\ NamesInv /\ DoPost => NamesInv'
<1> SUFFICES ASSUME V2Inv, NamesInv, DoPost, Mirroring'
             PROVE  \E s : Trace(s)'
  BY DEF NamesInv
<1>1. post # NoPost /\ UNCHANGED <<local, events>> /\ \E r : OK(r) \/ Failed(r)
  BY PostTypes DEF DoPost, PostCreatedDir, PostContent, PostMovedDir, PostMovedFile,
         PostDeleted, WriteFails, RemoveFails, Serving
<1>2. post' = NoPost /\ Mirroring
  BY <1>1 DEF OK, Failed, Answered, Mirroring, V2Inv, V2TypeOK
<1>3. PICK s : Trace(s)
  BY <1>2 DEF NamesInv
<1>4. PICK t \in KindTrees : Agrees(t) /\ Does(t, post, s[0])
  BY <1>1, <1>3 DEF Trace
<1>5. \A p \in Exact : Kind(remote'[p]) = s[0][p]
  BY <1>4, NamesAnswered
<1>6. Trace(s)'
  BY <1>1, <1>2, <1>3, <1>5 DEF Trace, Agrees, KindsOf
<1> QED
  BY <1>6

(* A rename of one ordinary file may leave the wrong content behind, but    *)
(* the same names of the same kind exist on both sides in the end, however  *)
(* late the events are handled (monitor.py:38-44, _http.py:110-127).        *)
THEOREM RenamesKeepNames == Spec => []NamesAreMirrored
<1>1. V2Inv /\ NamesInv /\ [Next]_vars => NamesInv'
  <2>1. ASSUME NamesInv, UNCHANGED vars
        PROVE  NamesInv'
    BY <2>1 DEF vars, NamesInv, Mirroring, Trace, Agrees, KindsOf
  <2>2. Refused => NamesInv'
    BY DEF Refused, NamesInv, Mirroring
  <2> QED
    BY <2>1, <2>2, NamesUser, NamesDispatch, NamesDoPost DEF Next
<1>2. V2Inv /\ NamesInv => NamesAreMirrored
  <2> SUFFICES ASSUME V2Inv, NamesInv, Settled, NEW p \in Nodes, Plain(p),
                      history.kinds \cap {"renameOther", "failure"} = {}
               PROVE  Kind(remote[p]) = Kind(local[p])
    BY DEF NamesAreMirrored
  <2>1. PICK s : Trace(s)
    BY DEF NamesInv, Mirroring, Settled
  <2>2. s[0] = KindsOf(local) /\ Agrees(s[0])
    BY <2>1 DEF Trace, Settled
  <2>3. p \in Exact
    BY SubtreeReflexive, NamesAssumption DEF Plain, Exact, Nodes
  <2> QED
    BY <2>2, <2>3 DEF Agrees, KindsOf
<1> QED
  BY <1>1, <1>2, NamesInit, V2InvInit, V2InvNext, PTL DEF Spec

=============================================================================
