--------------------------- MODULE V2Mirror_proofs ---------------------------
(***************************************************************************)
(* Proofs about V2Mirror, for every set of paths, names, contents, starting *)
(* trees, edits and failures.                                              *)
(***************************************************************************)
EXTENDS V2Mirror, SequenceTheorems, FiniteSetTheorems, TLAPS

-----------------------------------------------------------------------------
(* Paths: Subtree orders the nodes, and Front(p) is right above p.         *)

LEMMA NodesAreSequences == Nodes \subseteq Seq(STRING)
<1>1. <<>> \in Seq(STRING)
  BY EmptySeq
<1> QED
  BY <1>1, PathsAssumption DEF Nodes, WorkDir

(* A prefix agrees with the sequence name by name. *)
LEMMA PrefixByName ==
  ASSUME NEW s \in Seq(STRING), NEW t \in Seq(STRING)
  PROVE  IsPrefix(s, t) <=> Len(s) <= Len(t) /\ \A i \in 1 .. Len(s) : s[i] = t[i]
<1>1. Len(s) \in Nat /\ Len(t) \in Nat
  OBVIOUS
<1>2. SubSeq(s, 1, Len(s)) = s
  BY SubSeqFull
<1>3. ASSUME Len(s) <= Len(t)
      PROVE  s = SubSeq(t, 1, Len(s)) <=> \A i \in 1 .. Len(s) : s[i] = t[i]
  <2>1. \A i \in 1 .. Len(s) : t[i] \in STRING
    BY <1>1, <1>3, ElementOfSeq
  <2>2. /\ SubSeq(t, 1, Len(s)) \in Seq(STRING)
        /\ Len(SubSeq(t, 1, Len(s))) = Len(s)
        /\ \A i \in 1 .. Len(s) : SubSeq(t, 1, Len(s))[i] = t[i]
    <3>1. 1 \in Int /\ Len(s) \in Int
      BY <1>1
    <3> QED
      BY <1>1, <2>1, <3>1, SubSeqProperties
  <2> QED
    BY <2>2, SeqEqual
<1> QED
  BY <1>1, <1>2, <1>3 DEF IsPrefix

LEMMA SubtreeDef ==
  ASSUME NEW p \in Nodes, NEW q \in Nodes
  PROVE  q \in Subtree[p] <=> Len(p) <= Len(q) /\ \A i \in 1 .. Len(p) : p[i] = q[i]
BY NodesAreSequences, PrefixByName DEF Subtree

LEMMA SubtreeNodes == \A p \in Nodes : Subtree[p] \subseteq Nodes
BY DEF Subtree

LEMMA SubtreeReflexive == \A p \in Nodes : p \in Subtree[p]
<1> SUFFICES ASSUME NEW p \in Nodes
             PROVE  p \in Subtree[p]
  OBVIOUS
<1>1. Len(p) \in Nat
  BY NodesAreSequences
<1> QED
  BY <1>1, SubtreeDef

LEMMA SubtreeTransitive ==
  ASSUME NEW p \in Nodes, NEW q \in Subtree[p], NEW r \in Subtree[q]
  PROVE  r \in Subtree[p]
<1>1. q \in Nodes /\ r \in Nodes
  BY SubtreeNodes
<1>2. Len(p) \in Nat /\ Len(q) \in Nat /\ Len(r) \in Nat
  BY <1>1, NodesAreSequences
<1>3. Len(p) <= Len(q) /\ \A i \in 1 .. Len(p) : p[i] = q[i]
  BY <1>1, SubtreeDef
<1>4. Len(q) <= Len(r) /\ \A i \in 1 .. Len(q) : q[i] = r[i]
  BY <1>1, SubtreeDef
<1>5. Len(p) <= Len(r) /\ \A i \in 1 .. Len(p) : p[i] = r[i]
  BY <1>2, <1>3, <1>4
<1> QED
  BY <1>1, <1>5, SubtreeDef

LEMMA SubtreeAntisymmetric ==
  ASSUME NEW p \in Nodes, NEW q \in Subtree[p], p \in Subtree[q]
  PROVE  p = q
<1>1. q \in Nodes
  BY SubtreeNodes
<1>2. Len(p) \in Nat /\ Len(q) \in Nat /\ p \in Seq(STRING) /\ q \in Seq(STRING)
  BY <1>1, NodesAreSequences
<1>3. Len(p) <= Len(q) /\ Len(q) <= Len(p) /\ \A i \in 1 .. Len(p) : p[i] = q[i]
  BY <1>1, SubtreeDef
<1> QED
  BY <1>2, <1>3, SeqEqual

(* Two paths above the same one are above each other. *)
LEMMA SubtreeLinear ==
  ASSUME NEW p \in Nodes, NEW q \in Nodes, NEW r \in Subtree[p] \cap Subtree[q]
  PROVE  p \in Subtree[q] \/ q \in Subtree[p]
<1>1. r \in Nodes
  BY SubtreeNodes
<1>2. Len(p) \in Nat /\ Len(q) \in Nat
  BY NodesAreSequences
<1>3. /\ \A i \in 1 .. Len(p) : p[i] = r[i]
      /\ \A i \in 1 .. Len(q) : q[i] = r[i]
  BY <1>1, SubtreeDef
<1>4. CASE Len(p) <= Len(q)
  <2>1. \A i \in 1 .. Len(p) : p[i] = q[i]
    BY <1>2, <1>3, <1>4
  <2> QED
    BY <1>4, <2>1, SubtreeDef
<1>5. CASE Len(q) <= Len(p)
  <2>1. \A i \in 1 .. Len(q) : q[i] = p[i]
    BY <1>2, <1>3, <1>5
  <2> QED
    BY <1>5, <2>1, SubtreeDef
<1> QED
  BY <1>2, <1>4, <1>5

(* The work directory is above every node, and below no path. *)
LEMMA WorkDirOnTop ==
  /\ WorkDir \in Nodes
  /\ \A p \in Nodes : p \in Subtree[WorkDir]
  /\ \A p \in Paths : p \in Nodes /\ p # WorkDir /\ WorkDir \notin Subtree[p]
<1>1. WorkDir \in Nodes /\ Len(WorkDir) = 0
  BY DEF Nodes, WorkDir
<1>2. ASSUME NEW p \in Nodes
      PROVE  p \in Subtree[WorkDir]
  <2>1. Len(p) \in Nat
    BY NodesAreSequences
  <2> QED
    BY <1>1, <2>1, SubtreeDef
<1>3. ASSUME NEW p \in Paths
      PROVE  p \in Nodes /\ p # WorkDir /\ WorkDir \notin Subtree[p]
  <2>1. p \in Nodes /\ p # WorkDir
    BY PathsAssumption DEF Nodes
  <2>2. p \in Seq(STRING) /\ p # <<>>
    BY <2>1, PathsAssumption DEF WorkDir
  <2>3. Len(p) \in Nat \ {0}
    BY <2>2, EmptySeq
  <2> QED
    BY <1>1, <2>1, <2>3, SubtreeDef
<1> QED
  BY <1>1, <1>2, <1>3

LEMMA FrontDef ==
  ASSUME NEW p \in Paths
  PROVE  /\ Front(p) \in Nodes /\ Len(p) \in Nat /\ Len(p) > 0
         /\ Len(Front(p)) = Len(p) - 1
         /\ \A i \in 1 .. (Len(p) - 1) : Front(p)[i] = p[i]
<1>1. p \in Seq(STRING) /\ p # <<>> /\ Front(p) \in Nodes
  BY PathsAssumption DEF WorkDir
<1>2. Len(p) \in Nat \ {0}
  BY <1>1, EmptySeq
<1>3. 1 \in Int /\ Len(p) - 1 \in Int
      /\ \A i \in 1 .. (Len(p) - 1) : p[i] \in STRING
  BY <1>1, <1>2, ElementOfSeq
<1>4. /\ Len(Front(p)) = IF 1 <= Len(p) - 1 THEN (Len(p) - 1) - 1 + 1 ELSE 0
      /\ \A i \in 1 .. (Len(p) - 1) - 1 + 1 : Front(p)[i] = p[1 + i - 1]
  BY <1>3, SubSeqProperties DEF Front
<1>5. \A i \in 1 .. (Len(p) - 1) : 1 + i - 1 = i
  OBVIOUS
<1>6. (Len(p) - 1) - 1 + 1 = Len(p) - 1
  BY <1>2
<1>7. \A i \in 1 .. (Len(p) - 1) : Front(p)[i] = p[i]
  BY <1>4, <1>5, <1>6
<1>8. Len(Front(p)) = Len(p) - 1
  <2>1. \A n \in Nat \ {0} :
          (IF 1 <= n - 1 THEN (n - 1) - 1 + 1 ELSE 0) = n - 1
    OBVIOUS
  <2> QED
    BY <1>2, <1>4, <2>1
<1> QED
  BY <1>1, <1>2, <1>7, <1>8

(* The directory of a path is above it ... *)
LEMMA FrontAbove ==
  ASSUME NEW p \in Paths
  PROVE  /\ Front(p) \in Nodes /\ p \in Subtree[Front(p)]
         /\ Front(p) \notin Subtree[p]
<1>1. p \in Nodes
  BY WorkDirOnTop
<1> QED
  BY <1>1, FrontDef, SubtreeDef

(* ... and below everything else that is. *)
LEMMA FrontNext ==
  ASSUME NEW p \in Paths, NEW q \in Nodes, p \in Subtree[q], p # q
  PROVE  Front(p) \in Subtree[q]
<1>1. p \in Nodes /\ p \in Seq(STRING) /\ q \in Seq(STRING)
  BY WorkDirOnTop, NodesAreSequences
<1>2. Len(q) <= Len(p) /\ \A i \in 1 .. Len(q) : q[i] = p[i]
  BY <1>1, SubtreeDef
<1>3. Len(q) # Len(p)
  BY <1>1, <1>2, SeqEqual
<1>4. Len(q) \in Nat /\ Len(p) \in Nat
  BY <1>1
<1>5. Len(q) <= Len(Front(p)) /\ \A i \in 1 .. Len(q) : q[i] = Front(p)[i]
  BY <1>2, <1>3, <1>4, FrontDef
<1> QED
  BY <1>5, FrontDef, SubtreeDef

-----------------------------------------------------------------------------
(* The file-system operations of the server keep a tree a tree.            *)

(* What exists is in a directory that exists. *)
IsTree(t) == \A p \in Paths : t[p] # Absent => t[Front(p)] = Dir

Trees == {t \in [Nodes -> {Absent, Dir} \cup FileTexts] : IsTree(t)}

LEMMA FileTextsAreFiles ==
  Absent \notin FileTexts /\ Dir \notin FileTexts /\ Absent # Dir
BY ContentsAssumption DEF FileTexts, Absent, Dir, Torn

(* os.makedirs. *)
LEMMA MakeDirsTree ==
  ASSUME NEW t \in Trees, NEW p \in Nodes, CanMakeDirs(t, p)
  PROVE  /\ MakeDirs(t, p) \in Trees
         /\ \A q \in Nodes : p \in Subtree[q] => MakeDirs(t, p)[q] = Dir
         /\ \A q \in Nodes : p \notin Subtree[q] => MakeDirs(t, p)[q] = t[q]
<1> DEFINE m == MakeDirs(t, p)
<1>1. t \in [Nodes -> {Absent, Dir} \cup FileTexts] /\ IsTree(t)
  BY DEF Trees
<1>2. m \in [Nodes -> {Absent, Dir} \cup FileTexts]
  BY <1>1 DEF MakeDirs
<1>3. \A q \in Nodes : p \in Subtree[q] => m[q] = Dir
  BY <1>1 DEF MakeDirs, CanMakeDirs
<1>4. \A q \in Nodes : p \notin Subtree[q] => m[q] = t[q]
  BY DEF MakeDirs
<1>5. ASSUME NEW r \in Paths, m[r] # Absent
      PROVE  m[Front(r)] = Dir
  <2>1. Front(r) \in Nodes /\ r \in Nodes /\ r \in Subtree[Front(r)]
    BY FrontAbove, WorkDirOnTop
  <2>2. CASE p \in Subtree[r]
    BY <1>3, <2>1, <2>2, SubtreeTransitive
  <2>3. CASE p \notin Subtree[r]
    <3>1. t[Front(r)] = Dir
      BY <1>1, <1>4, <1>5, <2>1, <2>3 DEF IsTree
    <3> QED
      BY <1>3, <1>4, <2>1, <3>1
  <2> QED
    BY <2>2, <2>3
<1> QED
  BY <1>2, <1>3, <1>4, <1>5 DEF Trees, IsTree

(* open(p, 'wb') in a directory that exists. *)
LEMMA PutTree ==
  ASSUME NEW t \in Trees, NEW p \in Paths, NEW c \in FileTexts,
         t[Front(p)] = Dir, t[p] # Dir
  PROVE  [t EXCEPT ![p] = c] \in Trees
<1> DEFINE w == [t EXCEPT ![p] = c]
<1>1. t \in [Nodes -> {Absent, Dir} \cup FileTexts] /\ IsTree(t)
      /\ p \in Nodes /\ p # Front(p)
  BY FrontAbove, WorkDirOnTop, SubtreeReflexive DEF Trees
<1>2. ASSUME NEW r \in Paths, w[r] # Absent
      PROVE  w[Front(r)] = Dir
  <2>1. t[Front(r)] = Dir
    BY <1>1, <1>2, WorkDirOnTop DEF IsTree
  <2> QED
    BY <1>1, <2>1, FrontAbove
<1>3. w \in [Nodes -> {Absent, Dir} \cup FileTexts]
  BY <1>1
<1> QED
  BY <1>2, <1>3 DEF Trees, IsTree

(* os.remove of what is not a directory. *)
LEMMA RemoveFileTree ==
  ASSUME NEW t \in Trees, NEW p \in Paths, t[p] # Dir
  PROVE  [t EXCEPT ![p] = Absent] \in Trees
<1> DEFINE w == [t EXCEPT ![p] = Absent]
<1>1. t \in [Nodes -> {Absent, Dir} \cup FileTexts] /\ IsTree(t)
  BY DEF Trees
<1>2. ASSUME NEW r \in Paths, w[r] # Absent
      PROVE  w[Front(r)] = Dir
  <2>1. t[Front(r)] = Dir
    BY <1>1, <1>2, WorkDirOnTop DEF IsTree
  <2> QED
    BY <1>1, <2>1, FrontAbove
<1>3. w \in [Nodes -> {Absent, Dir} \cup FileTexts]
  BY <1>1
<1> QED
  BY <1>2, <1>3 DEF Trees, IsTree

(* _check_path and open(p, 'wb'): the directories above are made. *)
LEMMA WriteToTree ==
  ASSUME NEW t \in Trees, NEW p \in Paths, NEW c \in FileTexts, CanWrite(t, p)
  PROVE  /\ WriteTo(t, p, c) \in Trees
         /\ WriteTo(t, p, c)[p] = c
         /\ \A q \in Nodes \ {p} : p \in Subtree[q] => WriteTo(t, p, c)[q] = Dir
         /\ \A q \in Nodes : p \notin Subtree[q] => WriteTo(t, p, c)[q] = t[q]
<1> DEFINE m == MakeDirs(t, Front(p))
<1>0. p \in Nodes /\ Front(p) \in Nodes /\ Front(p) \in Subtree[Front(p)]
      /\ p \in Subtree[Front(p)] /\ Front(p) \notin Subtree[p] /\ p \in Subtree[p]
  BY FrontAbove, WorkDirOnTop, SubtreeReflexive
<1>1. /\ m \in Trees
      /\ \A q \in Nodes : Front(p) \in Subtree[q] => m[q] = Dir
      /\ \A q \in Nodes : Front(p) \notin Subtree[q] => m[q] = t[q]
  BY <1>0, MakeDirsTree DEF CanWrite
<1>2. m[Front(p)] = Dir /\ m[p] # Dir
  BY <1>0, <1>1 DEF CanWrite
<1>3. m \in [Nodes -> {Absent, Dir} \cup FileTexts]
  BY <1>1 DEF Trees
<1>4. WriteTo(t, p, c) = [m EXCEPT ![p] = c]
  BY DEF WriteTo
<1> HIDE DEF m
<1>5. WriteTo(t, p, c) \in Trees
  BY <1>1, <1>2, <1>4, PutTree
<1>6. ASSUME NEW q \in Nodes \ {p}, p \in Subtree[q]
      PROVE  WriteTo(t, p, c)[q] = Dir
  BY <1>1, <1>3, <1>4, <1>6, FrontNext
<1>7. ASSUME NEW q \in Nodes, p \notin Subtree[q]
      PROVE  WriteTo(t, p, c)[q] = t[q]
  <2>1. Front(p) \notin Subtree[q]
    BY <1>0, <1>7, SubtreeTransitive
  <2> QED
    BY <1>0, <1>1, <1>3, <1>4, <1>7, <2>1
<1> QED
  BY <1>0, <1>3, <1>4, <1>5, <1>6, <1>7

(* os.removedirs: a directory is kept while anything that stays is in it. *)
LEMMA RemoveDirsTree ==
  ASSUME NEW t \in Trees, NEW p \in Paths, CanRemoveDir(t, p)
  PROVE  /\ RemoveDirs(t, p) \in Trees
         /\ \A q \in Nodes : p \notin Subtree[q] => RemoveDirs(t, p)[q] = t[q]
<1> DEFINE w == RemoveDirs(t, p)
<1>1. t \in [Nodes -> {Absent, Dir} \cup FileTexts] /\ IsTree(t)
  BY DEF Trees
<1>2. w \in [Nodes -> {Absent, Dir} \cup FileTexts]
  BY <1>1 DEF RemoveDirs
<1>3. ASSUME NEW r \in Paths, w[r] # Absent
      PROVE  w[Front(r)] = Dir
  <2>1. r \in Nodes /\ Front(r) \in Nodes /\ r \in Subtree[Front(r)] /\ r # Front(r)
    BY FrontAbove, WorkDirOnTop, SubtreeReflexive
  <2>2. t[r] # Absent /\ t[Front(r)] = Dir
    BY <1>1, <1>3, <2>1 DEF RemoveDirs, IsTree
  <2>3. r \in Below(t, Front(r))
    BY <2>1, <2>2 DEF Below
  <2>4. CASE p \in Subtree[r]
    <3>1. PICK s \in Below(t, r) : p \notin Subtree[s]
      BY <1>3, <2>1, <2>4 DEF RemoveDirs
    <3>2. s \in Subtree[Front(r)] /\ t[s] # Absent /\ s \in Nodes
      BY <2>1, <3>1, SubtreeTransitive, SubtreeNodes DEF Below
    <3>3. s # Front(r)
      BY <2>1, <3>1, FrontAbove DEF Below
    <3>4. s \in Below(t, Front(r))
      BY <3>2, <3>3 DEF Below
    <3> QED
      BY <2>1, <2>2, <3>1, <3>4 DEF RemoveDirs
  <2>5. CASE p \notin Subtree[r]
    BY <2>1, <2>2, <2>3, <2>5 DEF RemoveDirs
  <2> QED
    BY <2>4, <2>5
<1>4. \A q \in Nodes : p \notin Subtree[q] => w[q] = t[q]
  BY DEF RemoveDirs
<1> QED
  BY <1>2, <1>3, <1>4 DEF Trees, IsTree

(* shutil.rmtree or os.remove. *)
LEMMA RemoveTreeTree ==
  ASSUME NEW t \in Trees, NEW p \in Paths
  PROVE  RemoveTree(t, p) \in Trees
<1> DEFINE w == RemoveTree(t, p)
<1>1. t \in [Nodes -> {Absent, Dir} \cup FileTexts] /\ IsTree(t) /\ p \in Nodes
  BY WorkDirOnTop DEF Trees
<1>2. w \in [Nodes -> {Absent, Dir} \cup FileTexts]
  BY <1>1 DEF RemoveTree
<1>3. ASSUME NEW r \in Paths, w[r] # Absent
      PROVE  w[Front(r)] = Dir
  <2>1. r \in Nodes /\ Front(r) \in Nodes /\ r \in Subtree[Front(r)]
    BY FrontAbove, WorkDirOnTop
  <2>2. r \notin Subtree[p] /\ t[Front(r)] = Dir
    BY <1>1, <1>3, <2>1 DEF RemoveTree, IsTree
  <2>3. Front(r) \notin Subtree[p]
    BY <1>1, <2>1, <2>2, SubtreeTransitive
  <2> QED
    BY <2>1, <2>2, <2>3 DEF RemoveTree
<1> QED
  BY <1>2, <1>3 DEF Trees, IsTree

(* makedirs that has failed on its way to p. *)
LEMMA PartlyMadeTree ==
  ASSUME NEW t \in Trees, NEW p \in Nodes, CanMakeDirs(t, p), NEW w \in PartlyMade(t, p)
  PROVE  w \in Trees /\ \A q \in Nodes : p \notin Subtree[q] => w[q] = t[q]
<1>1. CASE w = t
  BY <1>1
<1>2. ASSUME NEW r \in Nodes, p \in Subtree[r], w = MakeDirs(t, r)
      PROVE  w \in Trees /\ \A q \in Nodes : p \notin Subtree[q] => w[q] = t[q]
  <2>1. \A q \in Nodes : r \in Subtree[q] => p \in Subtree[q]
    BY <1>2, SubtreeTransitive
  <2>2. CanMakeDirs(t, r)
    BY <2>1 DEF CanMakeDirs
  <2> QED
    BY <1>2, <2>1, <2>2, MakeDirsTree
<1> QED
  BY <1>1, <1>2 DEF PartlyMade

(* rmtree that has failed on its way: what is left has its directories. *)
LEMMA PartlyRemovedTree ==
  ASSUME NEW t \in Trees, NEW p \in Paths, NEW w \in PartlyRemoved(t, p)
  PROVE  w \in Trees /\ \A q \in Nodes : q \notin Subtree[p] => w[q] = t[q]
<1>1. PICK g \in SUBSET (Subtree[p] \ {p}) :
        /\ \A q \in g : Subtree[q] \subseteq g
        /\ w = [q \in Nodes |-> IF q \in g THEN Absent ELSE t[q]]
  BY DEF PartlyRemoved
<1>2. t \in [Nodes -> {Absent, Dir} \cup FileTexts] /\ IsTree(t)
  BY DEF Trees
<1>3. w \in [Nodes -> {Absent, Dir} \cup FileTexts]
  BY <1>1, <1>2
<1>4. ASSUME NEW r \in Paths, w[r] # Absent
      PROVE  w[Front(r)] = Dir
  <2>1. r \in Nodes /\ Front(r) \in Nodes /\ r \in Subtree[Front(r)]
    BY FrontAbove, WorkDirOnTop
  <2>2. r \notin g /\ t[Front(r)] = Dir
    BY <1>1, <1>2, <1>4, <2>1 DEF IsTree
  <2>3. Front(r) \notin g
    BY <1>1, <2>1, <2>2
  <2> QED
    BY <1>1, <2>1, <2>2, <2>3
<1>5. \A q \in Nodes : q \notin Subtree[p] => w[q] = t[q]
  BY <1>1
<1> QED
  BY <1>3, <1>4, <1>5 DEF Trees, IsTree

-----------------------------------------------------------------------------
(* The user's edits keep a tree a tree.                                    *)

LocalTrees == {t \in [Nodes -> {Absent, Dir} \cup Contents] : Tree(t)}

(* Something is put at p, or taken away there: nothing is below it unless   *)
(* it is a directory.                                                       *)
LEMMA PutLocalTree ==
  ASSUME NEW t \in LocalTrees, NEW p \in Paths, NEW v \in {Absent, Dir} \cup Contents,
         t[Front(p)] = Dir, t[p] = Dir => v = Dir \/ Below(t, p) = {}
  PROVE  [t EXCEPT ![p] = v] \in LocalTrees
<1> DEFINE w == [t EXCEPT ![p] = v]
<1>1. t \in [Nodes -> {Absent, Dir} \cup Contents] /\ t[WorkDir] = Dir
      /\ \A r \in Paths : t[r] # Absent => t[Front(r)] = Dir
  BY DEF LocalTrees, Tree
<1>2. p \in Nodes /\ p # Front(p) /\ p # WorkDir /\ WorkDir \in Nodes
  BY FrontAbove, WorkDirOnTop, SubtreeReflexive
<1>3. ASSUME NEW r \in Paths, w[r] # Absent
      PROVE  w[Front(r)] = Dir
  <2>1. r \in Nodes /\ Front(r) \in Nodes /\ r \in Subtree[Front(r)] /\ r # Front(r)
    BY FrontAbove, WorkDirOnTop, SubtreeReflexive
  <2>2. CASE r = p
    BY <1>1, <1>2, <2>1, <2>2
  <2>3. CASE r # p
    <3>1. t[r] # Absent /\ t[Front(r)] = Dir
      BY <1>1, <1>3, <2>1, <2>3
    <3>2. CASE Front(r) = p
      <4>1. r \in Below(t, p)
        BY <2>1, <3>1, <3>2 DEF Below
      <4> QED
        BY <1>1, <1>2, <3>1, <3>2, <4>1
    <3> QED
      BY <1>1, <2>1, <3>1, <3>2
  <2> QED
    BY <2>2, <2>3
<1>4. w \in [Nodes -> {Absent, Dir} \cup Contents] /\ w[WorkDir] = Dir
  BY <1>1, <1>2
<1> QED
  BY <1>3, <1>4 DEF LocalTrees, Tree

(* A path below p, name by name, when p has become q. *)
LEMMA MovedDef ==
  ASSUME NEW p \in Paths, NEW q \in Paths, NEW r \in Subtree[p]
  PROVE  /\ Moved(r, p, q) \in Seq(STRING)
         /\ Len(Moved(r, p, q)) = Len(q) + (Len(r) - Len(p))
         /\ \A i \in 1 .. Len(q) : Moved(r, p, q)[i] = q[i]
         /\ \A i \in 1 .. (Len(r) - Len(p)) : Moved(r, p, q)[Len(q) + i] = r[Len(p) + i]
<1>1. /\ r \in Nodes /\ p \in Nodes /\ q \in Nodes
      /\ r \in Seq(STRING) /\ p \in Seq(STRING) /\ q \in Seq(STRING)
  BY WorkDirOnTop, SubtreeNodes, NodesAreSequences
<1>2. Len(p) <= Len(r)
  BY <1>1, SubtreeDef
<1>3. Len(p) \in Nat /\ Len(q) \in Nat /\ Len(r) \in Nat
  BY <1>1
<1> DEFINE below == SubSeq(r, Len(p) + 1, Len(r))
<1>4. \A i \in (Len(p) + 1) .. Len(r) : r[i] \in STRING
  BY <1>1, <1>3
<1>5. Len(p) + 1 \in Int /\ Len(r) \in Int
  BY <1>3
<1>6. /\ below \in Seq(STRING)
      /\ Len(below) = IF Len(p) + 1 <= Len(r) THEN Len(r) - (Len(p) + 1) + 1 ELSE 0
      /\ \A i \in 1 .. Len(r) - (Len(p) + 1) + 1 : below[i] = r[(Len(p) + 1) + i - 1]
  BY <1>4, <1>5, SubSeqProperties
<1>7. \A m, n \in Nat : m <= n =>
        /\ (IF m + 1 <= n THEN n - (m + 1) + 1 ELSE 0) = n - m
        /\ n - (m + 1) + 1 = n - m /\ n - m \in Nat
        /\ \A i \in 1 .. (n - m) : (m + 1) + i - 1 = m + i
  OBVIOUS
<1>8. /\ Len(below) = Len(r) - Len(p) /\ Len(r) - Len(p) \in Nat
      /\ \A i \in 1 .. (Len(r) - Len(p)) : below[i] = r[Len(p) + i]
  BY <1>2, <1>3, <1>6, <1>7
<1> HIDE DEF below
<1>9. /\ q \o below \in Seq(STRING) /\ Len(q \o below) = Len(q) + Len(below)
      /\ \A i \in 1 .. Len(q) + Len(below) :
           (q \o below)[i] = IF i <= Len(q) THEN q[i] ELSE below[i - Len(q)]
  BY <1>1, <1>6, ConcatProperties
<1>10. \A i \in 1 .. Len(q) : (q \o below)[i] = q[i]
  BY <1>3, <1>8, <1>9
<1>11. \A i \in 1 .. (Len(r) - Len(p)) : (q \o below)[Len(q) + i] = r[Len(p) + i]
  <2> TAKE i \in 1 .. (Len(r) - Len(p))
  <2>1. Len(q) + i \in 1 .. Len(q) + Len(below) /\ ~(Len(q) + i <= Len(q))
        /\ (Len(q) + i) - Len(q) = i
    BY <1>3, <1>8
  <2>2. (q \o below)[Len(q) + i] = below[i]
    BY <1>9, <2>1
  <2> QED
    BY <1>8, <2>2
<1> QED
  BY <1>8, <1>9, <1>10, <1>11 DEF Moved, below

(* p itself becomes q, and what is below p is below q. *)
LEMMA MovedSelf ==
  ASSUME NEW p \in Paths, NEW q \in Paths
  PROVE  Moved(p, p, q) = q
<1>1. p \in Subtree[p] /\ q \in Seq(STRING) /\ Len(q) \in Nat /\ Len(p) \in Nat
  BY WorkDirOnTop, SubtreeReflexive, NodesAreSequences
<1>2. Len(Moved(p, p, q)) = Len(q) /\ \A i \in 1 .. Len(q) : Moved(p, p, q)[i] = q[i]
  BY <1>1, MovedDef
<1>3. Moved(p, p, q) \in Seq(STRING)
  BY <1>1, MovedDef
<1> QED
  BY <1>1, <1>2, <1>3, SeqEqual

LEMMA MovedBelow ==
  ASSUME NEW p \in Paths, NEW q \in Paths, NEW r \in Subtree[p],
         Moved(r, p, q) \in Nodes
  PROVE  Moved(r, p, q) \in Subtree[q]
<1>1. /\ r \in Nodes /\ p \in Nodes /\ q \in Nodes
  BY WorkDirOnTop, SubtreeNodes
<1>2. Len(p) \in Nat /\ Len(q) \in Nat /\ Len(r) \in Nat /\ Len(p) <= Len(r)
  BY <1>1, SubtreeDef, NodesAreSequences
<1>3. Len(q) <= Len(Moved(r, p, q))
  BY <1>2, MovedDef
<1> QED
  BY <1>1, <1>3, MovedDef, SubtreeDef

(* The directory of what is below p moves along. *)
LEMMA MovedFront ==
  ASSUME NEW p \in Paths, NEW q \in Paths, NEW r \in Subtree[p] \ {p},
         Moved(r, p, q) \in Paths
  PROVE  Front(Moved(r, p, q)) = Moved(Front(r), p, q) /\ Front(r) \in Subtree[p]
<1>1. /\ r \in Nodes /\ p \in Nodes /\ q \in Nodes /\ r # WorkDir
  BY WorkDirOnTop, SubtreeNodes
<1>2. r \in Paths
  BY <1>1 DEF Nodes
<1>3. Front(r) \in Subtree[p] /\ Front(r) \in Nodes
  BY <1>1, <1>2, FrontNext, FrontAbove
<1>4. Len(p) \in Nat /\ Len(q) \in Nat /\ Len(r) \in Nat
  BY <1>1, NodesAreSequences
<1>5. Len(Front(r)) = Len(r) - 1 /\ \A i \in 1 .. (Len(r) - 1) : Front(r)[i] = r[i]
  BY <1>2, FrontDef
<1>6. Len(p) <= Len(Front(r))
  BY <1>1, <1>3, SubtreeDef
<1> DEFINE m == Moved(r, p, q)
           n == Moved(Front(r), p, q)
<1>7. /\ m \in Seq(STRING) /\ Len(m) = Len(q) + (Len(r) - Len(p))
      /\ \A i \in 1 .. Len(q) : m[i] = q[i]
      /\ \A i \in 1 .. (Len(r) - Len(p)) : m[Len(q) + i] = r[Len(p) + i]
  BY MovedDef
<1>8. /\ n \in Seq(STRING) /\ Len(n) = Len(q) + (Len(Front(r)) - Len(p))
      /\ \A i \in 1 .. Len(q) : n[i] = q[i]
      /\ \A i \in 1 .. (Len(Front(r)) - Len(p)) : n[Len(q) + i] = Front(r)[Len(p) + i]
  BY <1>3, MovedDef
<1>9. /\ Front(m) \in Seq(STRING) /\ Len(Front(m)) = Len(m) - 1
      /\ \A i \in 1 .. (Len(m) - 1) : Front(m)[i] = m[i]
  BY FrontDef, NodesAreSequences
<1> HIDE DEF m, n
<1>10. Len(Front(m)) = Len(n) /\ Len(n) \in Nat
  BY <1>4, <1>5, <1>6, <1>7, <1>8, <1>9
<1>11. ASSUME NEW i \in 1 .. Len(n)
       PROVE  Front(m)[i] = n[i]
  <2>1. Front(m)[i] = m[i]
    BY <1>9, <1>10, <1>11
  <2>2. CASE i <= Len(q)
    BY <1>4, <1>7, <1>8, <1>11, <2>1, <2>2
  <2>3. CASE ~(i <= Len(q))
    <3> DEFINE j == i - Len(q)
    <3>1. j \in 1 .. (Len(Front(r)) - Len(p)) /\ j \in 1 .. (Len(r) - Len(p))
          /\ Len(q) + j = i /\ Len(p) + j \in 1 .. (Len(r) - 1)
      BY <1>4, <1>5, <1>6, <1>8, <1>11, <2>3
    <3> HIDE DEF j
    <3> QED
      BY <1>5, <1>7, <1>8, <2>1, <3>1
  <2> QED
    BY <2>2, <2>3
<1>12. Front(m) = n
  BY <1>8, <1>9, <1>10, <1>11, SeqEqual
<1> QED
  BY <1>3, <1>12 DEF m, n

(* The tree after a rename. *)
Renamed(t, p, q) ==
  [r \in Nodes |->
     IF r \in Subtree[p] THEN Absent
     ELSE IF r \in Subtree[q]
          THEN IF Moved(r, q, p) \in Paths THEN t[Moved(r, q, p)] ELSE Absent
          ELSE t[r]]

LEMMA RenameTree ==
  ASSUME NEW t \in LocalTrees, NEW p \in Paths, NEW q \in Paths,
         t[p] # Absent, t[Front(q)] = Dir, q \notin Subtree[p]
  PROVE  Renamed(t, p, q) \in LocalTrees
<1> DEFINE w == Renamed(t, p, q)
<1>1. t \in [Nodes -> {Absent, Dir} \cup Contents] /\ t[WorkDir] = Dir
      /\ \A r \in Paths : t[r] # Absent => t[Front(r)] = Dir
  BY DEF LocalTrees, Tree
<1>2. p \in Nodes /\ q \in Nodes /\ WorkDir \in Nodes
      /\ WorkDir \notin Subtree[p] /\ WorkDir \notin Subtree[q]
      /\ \A r \in Paths : r \in Nodes
  BY WorkDirOnTop
<1>3. w \in [Nodes -> {Absent, Dir} \cup Contents]
  BY <1>1, <1>2 DEF Renamed
<1>4. w[WorkDir] = Dir
  BY <1>1, <1>2 DEF Renamed
<1>5. ASSUME NEW r \in Paths, w[r] # Absent
      PROVE  w[Front(r)] = Dir
  <2>1. r \in Nodes /\ Front(r) \in Nodes /\ r \in Subtree[Front(r)] /\ r \notin Subtree[p]
    BY <1>2, <1>5, FrontAbove DEF Renamed
  <2>2. Front(r) \notin Subtree[p]
    BY <1>2, <2>1, SubtreeTransitive
  <2>3. CASE r \notin Subtree[q]
    <3>1. Front(r) \notin Subtree[q]
      BY <1>2, <2>1, <2>3, SubtreeTransitive
    <3>2. t[Front(r)] = Dir
      BY <1>1, <1>5, <2>1, <2>3 DEF Renamed
    <3> QED
      BY <2>1, <2>2, <3>1, <3>2 DEF Renamed
  <2>4. CASE r = q
    <3>1. Front(r) \notin Subtree[q]
      BY <2>4, FrontAbove
    <3> QED
      BY <2>1, <2>2, <2>4, <3>1 DEF Renamed
  <2>5. CASE r \in Subtree[q] \ {q}
    <3> DEFINE m == Moved(r, q, p)
    <3>1. m \in Paths /\ t[m] # Absent
      BY <1>5, <2>1, <2>5 DEF Renamed
    <3>2. t[Front(m)] = Dir /\ Front(m) \in Nodes
      BY <1>1, <3>1, FrontAbove
    <3>3. Front(m) = Moved(Front(r), q, p) /\ Front(r) \in Subtree[q]
      BY <2>5, <3>1, MovedFront
    <3> HIDE DEF m
    <3>4. Front(m) \in Subtree[p]
      BY <3>2, <3>3, MovedBelow
    <3>5. Front(m) \in Paths
      BY <1>2, <3>2, <3>4 DEF Nodes
    <3> QED
      BY <2>1, <2>2, <3>2, <3>3, <3>5 DEF Renamed
  <2> QED
    BY <2>3, <2>4, <2>5
<1> QED
  BY <1>3, <1>4, <1>5 DEF LocalTrees, Tree

-----------------------------------------------------------------------------
(* Type correctness.                                                       *)

LEMMA NodesAreFinite == IsFiniteSet(Nodes)
BY PathsAssumption, FS_AddElement DEF Nodes

(* What watchdog reports of a rename are finitely many events. *)
LEMMA MovedEventsType ==
  ASSUME NEW p \in Paths, NEW q \in Paths, p \in Nodes,
         \A r \in Below(local, p) : Moved(r, p, q) \in Paths,
         NEW moves \in MovedEvents(p, q)
  PROVE  /\ moves \in Seq(Events)
         /\ \A i \in 1 .. Len(moves) : \E r \in {p} \cup Below(local, p) :
              moves[i] = MovedEvent(r, p, q)
<1> DEFINE tops == {p} \cup Below(local, p)
           S    == {MovedEvent(r, p, q) : r \in tops}
           f    == [r \in tops |-> MovedEvent(r, p, q)]
<1>1. tops \subseteq Nodes /\ IsFiniteSet(tops)
  <2>1. tops \subseteq Nodes
    BY SubtreeNodes DEF Below
  <2> QED
    BY <2>1, NodesAreFinite, FS_Subset
<1>2. IsFiniteSet(S)
  <2>1. f \in Surjection(tops, S)
    BY DEF Surjection
  <2> QED
    BY <1>1, <2>1, FS_Surjection
<1>3. Cardinality(S) \in Nat
  BY <1>2, FS_CardinalityType
<1>4. S \subseteq Events
  <2> SUFFICES ASSUME NEW r \in tops
               PROVE  MovedEvent(r, p, q) \in Events
    OBVIOUS
  <2>1. r \in Paths
    BY <1>1, WorkDirOnTop DEF Below, Nodes
  <2>2. Moved(r, p, q) \in Paths
    BY MovedSelf
  <2> QED
    BY <2>1, <2>2 DEF MovedEvent, Events
<1> HIDE DEF S
<1>5. moves \in [1 .. Cardinality(S) -> S]
  BY DEF MovedEvents, SetToSeqs, S
<1>6. moves \in Seq(S) /\ Len(moves) = Cardinality(S)
  BY <1>3, <1>5, SeqDef, LenProperties
<1>7. moves \in Seq(Events)
  BY <1>4, <1>6, SeqMonotonic
<1>8. \A i \in 1 .. Len(moves) : moves[i] \in S
  BY <1>6, ElementOfSeq
<1> QED
  BY <1>7, <1>8 DEF S

(* The server's directory stays a tree, as a file system does; what the     *)
(* operators of the handlers do is known for trees.                         *)
V2Inv == V2TypeOK /\ IsTree(remote)

LEMMA InvTrees ==
  V2Inv <=>
    /\ local \in LocalTrees /\ remote \in Trees
    /\ events \in Seq(Events) /\ post \in Posts \cup {NoPost}
    /\ observer \in {"running", "dead"}
    /\ history \in [edits : 0 .. MaxEdits, disturbed : SUBSET Paths,
                    kinds : SUBSET {"create", "write", "touch", "mkdir", "remove",
                                    "renameFile", "renameOther", "unreadable",
                                    "failure", "reset"}]
BY DEF V2Inv, V2TypeOK, LocalTrees, Trees, IsTree

LEMMA V2InvInit == Init => V2Inv
<1> SUFFICES ASSUME Init
             PROVE  V2Inv
  OBVIOUS
<1>1. local \in LocalTrees /\ remote = local
  BY StartsAssumption DEF Init, LocalTrees
<1>2. remote \in Trees
  BY <1>1 DEF LocalTrees, Trees, IsTree, Tree, FileTexts
<1>3. history = [edits |-> 0, kinds |-> {}, disturbed |-> {}] /\ 0 \in 0 .. MaxEdits
  BY BoundsAssumption DEF Init
<1>4. events \in Seq(Events) /\ post = NoPost /\ observer = "running"
  BY DEF Init
<1> QED
  BY <1>1, <1>2, <1>3, <1>4, InvTrees

(* What every edit does to the history. *)
LEMMA V2Edited ==
  ASSUME V2Inv, NEW kind \in {"create", "write", "touch", "mkdir", "remove",
                             "renameFile", "renameOther"},
         NEW disturbed \in SUBSET Paths, Edit(kind, disturbed),
         local' \in LocalTrees, events' \in Seq(Events)
  PROVE  V2Inv'
<1>1. history.edits + 1 \in 0 .. MaxEdits
  BY BoundsAssumption DEF V2Inv, V2TypeOK, Edit
<1>2. history' = [edits |-> history.edits + 1,
                  kinds |-> history.kinds \cup {kind},
                  disturbed |-> history.disturbed \cup disturbed]
      /\ UNCHANGED <<remote, post, observer>>
  BY DEF Edit
<1>3. V2TypeOK' /\ IsTree(remote)'
  BY <1>1, <1>2 DEF V2Inv, V2TypeOK, IsTree, LocalTrees
<1> QED
  BY <1>3 DEF V2Inv

LEMMA EventType ==
  ASSUME NEW op \in {"created", "modified", "deleted"}, NEW p \in Paths
  PROVE  Event(op, p) \in Events /\ Event(op, p).path = p /\ Event(op, p).op = op
BY DEF Event, Events

LEMMA V2User == V2Inv /\ User => V2Inv'
<1> SUFFICES ASSUME V2Inv, NEW p \in Paths,
                    \/ Create(p) \/ Write(p) \/ Touch(p) \/ Mkdir(p) \/ Delete(p)
                    \/ \E q \in Paths : Rename(p, q)
             PROVE  V2Inv'
  BY DEF User
<1>0. local \in LocalTrees /\ events \in Seq(Events) /\ Tree(local) /\ p \in Nodes
  BY InvTrees, WorkDirOnTop DEF LocalTrees
<1>1. CASE Create(p)
  <2>1. local' \in LocalTrees
    BY <1>0, <1>1, PutLocalTree, ContentsAssumption DEF Create, Absent, Dir
  <2>2. events' \in Seq(Events) /\ Edit("create", {})
    BY <1>0, <1>1, EventType DEF Create
  <2> QED
    BY <2>1, <2>2, V2Edited
<1>2. CASE Write(p)
  <2>1. PICK c \in Contents : local' = [local EXCEPT ![p] = c]
    BY <1>2 DEF Write
  <2>2. local[p] # Absent /\ local[p] # Dir /\ local[Front(p)] = Dir
    BY <1>0, <1>2 DEF Write, IsFile, Tree
  <2>3. local' \in LocalTrees
    BY <1>0, <2>1, <2>2, PutLocalTree
  <2>4. events' \in Seq(Events) /\ Edit("write", {})
    BY <1>0, <1>2, EventType DEF Write
  <2> QED
    BY <2>3, <2>4, V2Edited
<1>3. CASE Touch(p)
  <2>1. events' \in Seq(Events) /\ Edit("touch", {}) /\ local' = local
    BY <1>0, <1>3, EventType DEF Touch
  <2> QED
    BY <1>0, <2>1, V2Edited
<1>4. CASE Mkdir(p)
  <2>1. local' \in LocalTrees
    BY <1>0, <1>4, PutLocalTree DEF Mkdir, Absent, Dir
  <2>2. [Event("created", p) EXCEPT !.isDir = TRUE] \in Events
    BY EventType DEF Event, Events
  <2>3. events' \in Seq(Events) /\ Edit("mkdir", {})
    BY <1>0, <1>4, <2>2 DEF Mkdir
  <2> QED
    BY <2>1, <2>3, V2Edited
<1>5. CASE Delete(p)
  <2>1. local[Front(p)] = Dir /\ Below(local, p) = {}
    BY <1>0, <1>5 DEF Delete, Tree
  <2>2. local' \in LocalTrees
    BY <1>0, <1>5, <2>1, PutLocalTree DEF Delete
  <2>3. events' \in Seq(Events) /\ Edit("remove", {})
    BY <1>0, <1>5, EventType DEF Delete
  <2> QED
    BY <2>2, <2>3, V2Edited
<1>6. ASSUME NEW q \in Paths, Rename(p, q)
      PROVE  V2Inv'
  <2>1. local' = Renamed(local, p, q)
    BY <1>6 DEF Rename, Renamed
  <2>2. local' \in LocalTrees
    BY <1>0, <1>6, <2>1, RenameTree DEF Rename
  <2>3. PICK moves \in MovedEvents(p, q) : events' = events \o moves
    BY <1>6 DEF Rename
  <2>4. moves \in Seq(Events)
    BY <1>0, <1>6, MovedEventsType DEF Rename
  <2>5. events' \in Seq(Events)
    BY <1>0, <2>3, <2>4
  <2>6. Edit(RenameKind(p, q), {p, q}) /\ RenameKind(p, q) \in {"renameFile", "renameOther"}
    BY <1>6 DEF Rename, RenameKind
  <2> QED
    BY <2>2, <2>5, <2>6, V2Edited
<1> QED
  BY <1>1, <1>2, <1>3, <1>4, <1>5, <1>6

LEMMA V2Dispatch == V2Inv /\ Dispatch => V2Inv'
<1> SUFFICES ASSUME V2Inv, Dispatch
             PROVE  V2Inv'
  OBVIOUS
<1>1. /\ events # <<>> /\ events' = Tail(events) /\ UNCHANGED <<local, remote>>
  BY DEF Dispatch, OnMoved, OnCreated, OnDeleted, OnModified, Dispatching
<1>2. E \in Events /\ events' \in Seq(Events)
  BY <1>1, HeadTailProperties DEF V2Inv, V2TypeOK, E
<1>3. ASSUME post' \in Posts \cup {NoPost}, observer' \in {"running", "dead"},
             \/ history' = history
             \/ history' = [history EXCEPT !.kinds = @ \cup {"unreadable"}]
      PROVE  V2Inv'
  <2>1. V2TypeOK' /\ IsTree(remote)'
    BY <1>1, <1>2, <1>3 DEF V2Inv, V2TypeOK, IsTree, Tree
  <2> QED
    BY <2>1 DEF V2Inv
<1>4. CASE Skip \/ Die \/ Unreadable
  BY <1>3, <1>4 DEF Skip, Die, Unreadable, V2Inv, V2TypeOK
<1>5. ASSUME NEW m \in Posts, Send(m)
      PROVE  V2Inv'
  BY <1>3, <1>5 DEF Send, V2Inv, V2TypeOK
<1>6. CASE E.op \in {"created", "modified"} /\ SendContent
  <2>1. CASE IsFile(local[E.path]) /\ Send(WithContent)
    <3>1. E.path \in Paths
      BY <1>2 DEF Events
    <3>2. local[E.path] \in Contents
      BY <2>1, <3>1 DEF V2Inv, V2TypeOK, IsFile, Nodes
    <3>3. WithContent \in Posts
      BY <1>6, <3>1, <3>2 DEF WithContent, Posts
    <3> QED
      BY <1>5, <2>1, <3>3
  <2> QED
    BY <1>4, <1>6, <2>1 DEF SendContent
<1>7. CASE OnMoved
  <2>1. E.op = "moved" /\ Send(E)
    BY <1>7 DEF OnMoved, Dispatching, E
  <2> QED
    BY <1>2, <1>5, <2>1 DEF Events, Posts
<1>8. CASE OnCreated
  <2>1. E.op = "created" /\ (Skip \/ Die \/ SendContent \/ (E.isDir /\ Send(E)))
    BY <1>8 DEF OnCreated, Dispatching, E
  <2>2. E.isDir => E \in Posts
    BY <1>2, <2>1 DEF Events, Posts
  <2> QED
    BY <1>4, <1>5, <1>6, <2>1, <2>2
<1>9. CASE OnDeleted
  <2>1. E.op = "deleted" /\ (Skip \/ Send(E))
    BY <1>9 DEF OnDeleted, Dispatching, E
  <2> QED
    BY <1>2, <1>4, <1>5, <2>1 DEF Events, Posts
<1>10. CASE OnModified
  <2>1. E.op = "modified" /\ (Skip \/ SendContent)
    BY <1>10 DEF OnModified, Dispatching, E
  <2> QED
    BY <1>4, <1>6, <2>1
<1> QED
  BY <1>7, <1>8, <1>9, <1>10 DEF Dispatch

(* What the answers do, beside the tree they leave. *)
LEMMA V2Answered ==
  ASSUME V2Inv, NEW t \in Trees, post \in Posts, OK(t) \/ Failed(t),
         UNCHANGED <<local, events>>
  PROVE  V2Inv'
<1>1. remote' \in Trees /\ post' = NoPost
  BY DEF OK, Answered, Failed
<1>2. observer' \in {"running", "dead"}
  BY DEF OK, Answered, Failed, V2Inv, V2TypeOK
<1>3. history' \in [edits : 0 .. MaxEdits, disturbed : SUBSET Paths,
                    kinds : SUBSET {"create", "write", "touch", "mkdir", "remove",
                                    "renameFile", "renameOther", "unreadable",
                                    "failure", "reset"}]
  <2>1. CASE OK(t)
    BY <2>1 DEF OK, Answered, V2Inv, V2TypeOK
  <2>2. CASE Failed(t)
    <3>1. {post.path} \cup (IF post.op = "moved" THEN {post.dst} ELSE {}) \subseteq Paths
      BY DEF Posts
    <3>2. history' = [history EXCEPT
            !.kinds = @ \cup {"failure"},
            !.disturbed = @ \cup {post.path} \cup (IF post.op = "moved" THEN {post.dst} ELSE {})]
      BY <2>2 DEF Failed
    <3> QED
      BY <3>1, <3>2 DEF V2Inv, V2TypeOK
  <2> QED
    BY <2>1, <2>2
<1>4. V2TypeOK' /\ IsTree(remote)'
  BY <1>1, <1>2, <1>3 DEF V2Inv, V2TypeOK, Trees, IsTree, Tree
<1> QED
  BY <1>4 DEF V2Inv

(* The records a request may be. *)
LEMMA PostTypes ==
  /\ NoPost.op = "none"
  /\ \A m \in Posts :
       /\ m.op \in {"created", "modified", "deleted", "moved"} /\ m.path \in Paths
       /\ m.op = "moved" => m.dst \in Paths
       /\ m.op \in {"created", "modified"} /\ ~m.isDir => m.content \in Contents
BY DEF NoPost, Posts

LEMMA V2DoPost == V2Inv /\ DoPost => V2Inv'
<1> SUFFICES ASSUME V2Inv, DoPost
             PROVE  V2Inv'
  OBVIOUS
<1>1. post \in Posts /\ UNCHANGED <<local, events>>
  <2>1. post.op # "none" /\ UNCHANGED <<local, events>>
    BY DEF DoPost, PostCreatedDir, PostContent, PostMovedDir, PostMovedFile,
           PostDeleted, WriteFails, RemoveFails, Serving
  <2> QED
    BY <2>1, PostTypes DEF V2Inv, V2TypeOK
<1>2. remote \in Trees /\ post.path \in Paths /\ post.path \in Nodes
  BY <1>1, PostTypes, InvTrees, WorkDirOnTop
<1>3. CASE \E t \in Trees : OK(t) \/ Failed(t)
  BY <1>1, <1>3, V2Answered
<1>4. CASE PostCreatedDir
  BY <1>2, <1>3, <1>4, MakeDirsTree DEF PostCreatedDir
<1>5. CASE PostContent
  <2>1. CASE CanWrite(remote, post.path)
    <3>1. post.content \in FileTexts
      BY <1>1, <1>5, PostTypes DEF PostContent, Serving, FileTexts
    <3>2. WriteTo(remote, post.path, post.content) \in Trees
      BY <1>2, <2>1, <3>1, WriteToTree
    <3> QED
      BY <1>2, <1>3, <1>5, <3>2 DEF PostContent
  <2>2. CASE ~CanWrite(remote, post.path)
    BY <1>2, <1>3, <1>5, <2>2 DEF PostContent
  <2> QED
    BY <2>1, <2>2
<1>6. CASE PostMovedDir
  BY <1>2, <1>3, <1>6, RemoveDirsTree DEF PostMovedDir
<1>7. CASE PostMovedFile
  <2>1. CASE IsFile(remote[post.path]) /\ CanWrite(remote, post.dst)
    <3> DEFINE c == remote[post.path]
               w == WriteTo(remote, post.dst, c)
    <3>1. post.dst \in Paths /\ c \in FileTexts
      BY <1>1, <1>2, <1>7, <2>1, PostTypes DEF PostMovedFile, Serving, Trees, IsFile
    <3>2. w \in Trees /\ w[post.path] # Dir
      <4>1. /\ w \in Trees /\ w[post.dst] = c
            /\ \A q \in Nodes : post.dst \notin Subtree[q] => w[q] = remote[q]
        BY <1>2, <2>1, <3>1, WriteToTree
      <4>2. c # Dir /\ c # Absent
        BY <2>1 DEF IsFile
      <4>3. CASE post.path = post.dst
        BY <4>1, <4>2, <4>3
      <4>4. CASE post.path # post.dst
        <5>1. ASSUME post.dst \in Subtree[post.path]
              PROVE  FALSE
          <6>1. Front(post.dst) \in Subtree[post.path]
            BY <1>2, <3>1, <4>4, <5>1, FrontNext
          <6> QED
            BY <1>2, <2>1, <4>2, <6>1 DEF CanWrite, CanMakeDirs
        <5> QED
          BY <1>2, <4>1, <4>2, <5>1
      <4> QED
        BY <4>1, <4>3, <4>4
    <3>3. [w EXCEPT ![post.path] = Absent] \in Trees
      BY <1>2, <3>2, RemoveFileTree
    <3> QED
      BY <1>2, <1>3, <1>7, <3>3 DEF PostMovedFile
  <2>2. CASE ~(IsFile(remote[post.path]) /\ CanWrite(remote, post.dst))
    BY <1>2, <1>3, <1>7, <2>2 DEF PostMovedFile
  <2> QED
    BY <2>1, <2>2
<1>8. CASE PostDeleted
  BY <1>2, <1>3, <1>8, RemoveTreeTree DEF PostDeleted
<1>9. CASE WriteFails
  <2>1. /\ Target \in Paths /\ CanMakeDirs(remote, Front(Target))
        /\ post.op \in {"created", "modified", "moved"}
    BY <1>1, <1>9, PostTypes DEF WriteFails, Serving, Target
  <2>2. ASSUME NEW t \in PartlyMade(remote, Front(Target)), Failed(t)
        PROVE  V2Inv'
    BY <1>2, <1>3, <2>1, <2>2, FrontAbove, PartlyMadeTree
  <2>3. ASSUME remote[Target] # Dir, NEW c \in FileTexts, Failed(WriteTo(remote, Target, c))
        PROVE  V2Inv'
    BY <1>2, <1>3, <2>1, <2>3, WriteToTree DEF CanWrite
  <2>4. Torn \in FileTexts
    BY DEF FileTexts
  <2>5. post.op = "moved" => remote[post.path] \in FileTexts
    BY <1>2, <1>9 DEF WriteFails, IsFile, Trees
  <2> QED
    BY <1>9, <2>2, <2>3, <2>4, <2>5 DEF WriteFails
<1>10. CASE RemoveFails
  <2>1. PICK t \in PartlyRemoved(remote, post.path) : Failed(t)
    BY <1>10 DEF RemoveFails
  <2> QED
    BY <1>2, <1>3, <2>1, PartlyRemovedTree
<1> QED
  BY <1>4, <1>5, <1>6, <1>7, <1>8, <1>9, <1>10 DEF DoPost

LEMMA V2InvNext == V2Inv /\ [Next]_vars => V2Inv'
<1>1. CASE Refused
  <2>1. V2Inv => V2TypeOK' /\ IsTree(remote)'
    BY <1>1 DEF Refused, V2Inv, V2TypeOK, IsTree, Tree
  <2> QED
    BY <2>1 DEF V2Inv
<1>2. CASE UNCHANGED vars
  BY <1>2 DEF vars, V2Inv, V2TypeOK, IsTree, Tree
<1> QED
  BY <1>1, <1>2, V2User, V2Dispatch, V2DoPost DEF Next

(* Every variable keeps to its range, and the user's tree is one. *)
THEOREM V2TypeCorrect == Spec => []V2TypeOK
<1>1. V2Inv => V2TypeOK
  BY DEF V2Inv
<1> QED
  BY <1>1, V2InvInit, V2InvNext, PTL DEF Spec
=============================================================================
