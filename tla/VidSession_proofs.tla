--------------------------- MODULE VidSession_proofs ---------------------------
(***************************************************************************)
(* Proofs about VidSession: that a session is one of ControlClient and one *)
(* of VidServer, so that what is proved of either holds of both together,  *)
(* and that the server's files follow the client's.                        *)
(***************************************************************************)
EXTENDS VidSession, ControlClient_proofs

(* The open server of ControlClient may do what VidServer does, and its     *)
(* open monitor may announce every type of change.  No step of a session    *)
(* depends on either.                                                       *)
Compatible == "serverClose" \in Faults /\ ChangeTypes \subseteq Announced

-----------------------------------------------------------------------------
(* A session is one of ControlClient.                                      *)

(* Changes of files that are now as an edit leaves them.  A file that no    *)
(* one has edited may be in another state, and nothing is sent of it.       *)
Live == {change \in Changes : local[change.path] \in OnDisk}

LiveInv ==
  /\ pool \in Seq(Live) /\ posted \in Seq(Live) /\ unannounced \in Seq(Live)
  /\ worker = "emit" => pair \in Live
  /\ main # "loop" => arg \in Live

SessionInv == SessionTypeOK /\ LiveInv

(* The types of what SessionNext has beside ControlClient and the server. *)
LEMMA SessionTypes ==
  SessionTypeOK <=>
    /\ TypeOK /\ isLogin \in BOOLEAN
    /\ remote \in [Paths -> FileStates] /\ dirs \in SUBSET Dirs
    /\ local \in [Paths -> FileStates] /\ edits \in 0 .. MaxEdits
    /\ unannounced \in Seq(Changes) /\ refused \in SUBSET Paths
    /\ unheard \in SUBSET Paths
BY DEF SessionTypeOK, S!ServerTypeOK, TypeOK, S!Requests, Requests, S!Responses,
       Responses, S!Ids, Ids, S!Handshakes, Handshakes, S!ChangeTypes, ChangeTypes,
       S!Codes, Codes, S!FileStates, FileStates, S!SpecialStates, SpecialStates,
       S!Absent, S!Empty, S!Binary, S!TooBig, S!Crlf, S!Lf, S!Torn, Absent, Empty,
       Binary, TooBig, Crlf, Lf, Torn

LEMMA SessionInvInit == SessionInit => SessionInv
<1> SUFFICES ASSUME SessionInit
             PROVE  SessionInv
  OBVIOUS
<1>1. TypeOK
  BY TypeInit DEF SessionInit
<1>2. Texts \cup {Absent} \subseteq FileStates
  BY DEF FileStates, SpecialStates
<1>3. /\ isLogin \in BOOLEAN /\ remote \in [Paths -> FileStates] /\ dirs \in SUBSET Dirs
      /\ local \in [Paths -> FileStates]
  BY <1>2 DEF SessionInit, S!Init, S!Absent, Absent
<1>4. /\ edits \in 0 .. MaxEdits /\ unannounced \in Seq(Changes)
      /\ refused \in SUBSET Paths /\ unheard \in SUBSET Paths
  BY SessionAssumption DEF SessionInit
<1>5. LiveInv
  BY DEF SessionInit, Init, LiveInv
<1> QED
  BY <1>1, <1>3, <1>4, <1>5, SessionTypes DEF SessionInv

(* Erasing an entry adds none. *)
LEMMA WithoutFirstLive ==
  ASSUME NEW T, NEW q \in Seq(T), NEW p
  PROVE  WithoutFirst(q, p) \in Seq(T)
<1>1. CASE IndicesOf(q, p) = {}
  BY <1>1 DEF WithoutFirst
<1>2. CASE IndicesOf(q, p) # {}
  <2> DEFINE i == CHOOSE j \in IndicesOf(q, p) :
                    \A k \in IndicesOf(q, p) : j <= k
  <2>1. i \in 1 .. Len(q)
    <3>1. IndicesOf(q, p) \subseteq Nat
      BY DEF IndicesOf
    <3>2. \E j \in IndicesOf(q, p) : \A k \in IndicesOf(q, p) : j <= k
      BY <3>1, <1>2, LeastNatural
    <3>3. i \in IndicesOf(q, p)
      BY <3>2
    <3> QED
      BY <3>3 DEF IndicesOf
  <2> HIDE DEF i
  <2>2. SubSeq(q, 1, i - 1) \in Seq(T) /\ SubSeq(q, i + 1, Len(q)) \in Seq(T)
    BY <2>1, SubSeqProperties
  <2>3. SubSeq(q, 1, i - 1) \o SubSeq(q, i + 1, Len(q)) \in Seq(T)
    BY <2>2
  <2> QED
    BY <1>2, <2>3 DEF WithoutFirst, i
<1> QED
  BY <1>1, <1>2

(* What the server does is what ControlClient's open server may do. *)
LEMMA ServerIsOpenServer ==
  ASSUME "serverClose" \in Faults, ServerStep
  PROVE  Server
<1>0. S!ServerNext /\ UNCHANGED clientVars
  BY DEF ServerStep
<1>1. CASE S!Accept
  BY <1>0, <1>1 DEF S!Accept, Server, Accept, OnlyServer, clientVars, workerVars, mainVars
<1>2. CASE S!ReadFails
  BY <1>0, <1>2 DEF S!ReadFails, Server, ServerClose, OnlyServer, clientVars,
                    workerVars, mainVars
<1>3. ASSUME NEW code \in Codes, session = "serving", c2s # <<>>,
             S!Respond(code), session' \in {session, "closed"}
      PROVE  Server
  BY <1>0, <1>3 DEF S!Respond, Server, Answer, OnlyServer, clientVars, workerVars, mainVars
<1>4. CASE S!Handle
  <2>1. CASE \E match \in BOOLEAN : S!TokenLogin(match)
    BY <1>3, <2>1 DEF S!TokenLogin, S!Received, S!Return, Codes
  <2>2. CASE S!DirectoryVerification
    BY <1>3, <2>2 DEF S!DirectoryVerification, S!Received, S!Return, S!Raise, Codes
  <2>3. CASE S!FileDiff
    BY <1>3, <2>3 DEF S!FileDiff, S!Undecodable, S!RemoveFile, S!WriteFile, S!NoParent,
       S!WriteFails, S!Decoded, S!Received, S!Return, S!Raise, Codes
  <2> QED
    BY <1>4, <2>1, <2>2, <2>3 DEF S!Handle
<1> QED
  BY <1>0, <1>1, <1>2, <1>4 DEF S!ServerNext

LEMMA SessionIsClientStep ==
  ASSUME Compatible, SessionInv, [SessionNext]_sessionVars
  PROVE  [Next]_vars
<1>1. CASE ClientStep
  BY <1>1 DEF ClientStep, Next, Main
<1>2. CASE DeliverDiff
  <2>1. posted # <<>> /\ FileDiff(local[Head(posted).path])
    BY <1>2 DEF DeliverDiff
  <2>2. Head(posted) \in Live
    BY <2>1, HeadTailProperties DEF SessionInv, LiveInv
  <2>3. local[Head(posted).path] \in OnDisk
    BY <2>2 DEF Live
  <2> QED
    BY <2>1, <2>3 DEF Next, Main
<1>3. CASE ServerStep
  BY <1>3, ServerIsOpenServer DEF Compatible, Next
<1>4. CASE Announce
  <2>1. unannounced # <<>> /\ FileChanged(Head(unannounced).path, Head(unannounced).type)
    BY <1>4 DEF Announce
  <2>2. Head(unannounced) \in Changes
    BY <2>1, HeadTailProperties DEF SessionInv, SessionTypeOK
  <2>3. Head(unannounced).path \in Paths /\ Head(unannounced).type \in Announced
    BY <2>2 DEF Changes, Compatible
  <2> QED
    BY <2>1, <2>3 DEF Next, Main
<1>5. ASSUME NEW p \in Paths, NEW new \in OnDisk, Edit(p, new)
      PROVE  UNCHANGED vars
  BY <1>5 DEF Edit
<1> QED
  BY <1>1, <1>2, <1>3, <1>4, <1>5 DEF SessionNext, sessionVars

(* What a change of a file is announced as. *)
LEMMA EditType ==
  ASSUME NEW old \in FileStates, NEW new \in FileStates, new # old
  PROVE  /\ TypeOfChange(old, new) \in ChangeTypes
         /\ TypeOfChange(old, new) = "removed" <=> new = Absent
BY DEF TypeOfChange, ChangeTypes

(* An edit is announced as what it has done, or not at all. *)
LEMMA EditChange ==
  ASSUME SessionInv, NEW p \in Paths, NEW new \in OnDisk, Edit(p, new)
  PROVE  LET change == [path |-> p, type |-> TypeOfChange(local[p], new)]
         IN  /\ change \in Changes
             /\ change.type = "removed" <=> new = Absent
             /\ local' = [local EXCEPT ![p] = new]
             /\ \/ unheard' = unheard \cup {p} /\ unannounced' = unannounced
                \/ /\ unheard' = unheard \ {p}
                   /\ unannounced' = Append(unannounced, change)
             /\ UNCHANGED <<vars, farVars, refused>>
<1>1. local[p] \in FileStates /\ new \in FileStates
  BY SettingsAssumption DEF SessionInv, SessionTypeOK
<1>2. new # local[p]
  BY DEF Edit
<1> QED
  BY <1>1, <1>2, EditType DEF Edit, Changes

(* While no file changes, what is live stays live. *)
LEMMA LiveElsewhere ==
  ASSUME LiveInv, local' = local, unannounced' \in Seq(Live),
         \/ UNCHANGED <<pool, posted, worker, pair, main, arg>>
         \/ /\ pool' \in Seq(Live) /\ posted' \in Seq(Live)
            /\ worker' = "emit" => pair' \in Live
            /\ main' # "loop" => arg' \in Live
  PROVE  LiveInv'
<1>1. Live' = Live
  BY DEF Live
<1> QED
  BY <1>1 DEF LiveInv

LEMMA LiveWorker ==
  ASSUME LiveInv, Worker, UNCHANGED <<local, unannounced>>
  PROVE  LiveInv'
<1> USE DEF LiveInv, OnlyWorker, mainVars, wireVars
<1>1. CASE Run \/ CheckRunning \/ CheckEmpty \/ Claim
  BY <1>1, LiveElsewhere DEF Run, CheckRunning, CheckEmpty, Claim
<1>2. CASE TakeOne
  <2>1. CASE Crash
    BY <2>1, LiveElsewhere DEF Crash, workerVars
  <2>2. CASE ~Crash
    <3>1. /\ pool # <<>> /\ pair' = Head(pool) /\ pool' \in {pool, Tail(pool)}
          /\ UNCHANGED <<posted, main, arg>>
      BY <1>2, <2>2 DEF TakeOne
    <3>2. Head(pool) \in Live /\ Tail(pool) \in Seq(Live)
      BY <3>1, HeadTailProperties
    <3> QED
      BY <3>1, <3>2, LiveElsewhere
  <2> QED
    BY <2>1, <2>2
<1>3. CASE EmitDiff
  <2>1. posted' \in Seq(Live) /\ worker' = "forever" /\ UNCHANGED <<pool, main, arg>>
    BY <1>3 DEF EmitDiff
  <2> QED
    BY <2>1, LiveElsewhere
<1>4. CASE MisreadPool
  BY <1>4, LiveElsewhere DEF MisreadPool, Crash, workerVars
<1> QED
  BY <1>1, <1>2, <1>3, <1>4 DEF Worker

LEMMA LiveNext ==
  ASSUME SessionInv, [SessionNext]_sessionVars
  PROVE  LiveInv'
<1>0. LiveInv /\ pool \in Seq(Live) /\ posted \in Seq(Live) /\ unannounced \in Seq(Live)
      /\ local \in [Paths -> FileStates]
  BY DEF SessionInv, LiveInv, SessionTypeOK
<1>1. CASE ClientStep
  <2>1. UNCHANGED <<local, unannounced>>
    BY <1>1 DEF ClientStep, nearVars
  <2>2. CASE Worker
    BY <1>0, <2>1, <2>2, LiveWorker
  <2>3. CASE Connected \/ ConnectFails \/ OnReadyRead \/ OnDisconnected \/ OnPartialRead
    <3>1. UNCHANGED <<pool, posted, worker, pair, main, arg>>
      BY <2>3 DEF Connected, ConnectFails, OnReadyRead, LoginReactor, VerificationReactor,
         FileDiffReactor, Exit, OnDisconnected, OnPartialRead, Disconnected, Untouched,
         workerVars
    <3> QED
      BY <1>0, <2>1, <3>1, LiveElsewhere
  <2>4. CASE Erase
    <3>1. pool' \in Seq(Live)
      BY <1>0, <2>4, WithoutFirstLive DEF Erase
    <3>2. arg \in Live /\ UNCHANGED <<posted, worker, pair, arg>>
      BY <1>0, <2>4 DEF Erase, LiveInv, workerVars
    <3> QED
      BY <1>0, <2>1, <3>1, <3>2, LiveElsewhere DEF LiveInv
  <2>5. CASE PushBack
    <3>1. arg \in Live /\ main' = "loop" /\ UNCHANGED <<posted, worker, pair>>
      BY <1>0, <2>5 DEF PushBack, LiveInv, workerVars
    <3>2. pool' \in Seq(Live)
      BY <1>0, <2>5, <3>1 DEF PushBack
    <3> QED
      BY <1>0, <2>1, <3>1, <3>2, LiveElsewhere DEF LiveInv
  <2> QED
    BY <1>1, <2>2, <2>3, <2>4, <2>5 DEF ClientStep
<1>2. CASE DeliverDiff
  <2>1. posted # <<>> /\ posted' \in {posted, Tail(posted)}
        /\ UNCHANGED <<pool, worker, pair, main, arg, local, unannounced>>
    BY <1>2 DEF DeliverDiff, FileDiff, Untouched, Crash, workerVars, nearVars
  <2>2. posted' \in Seq(Live)
    BY <1>0, <2>1, HeadTailProperties
  <2> QED
    BY <1>0, <2>1, <2>2, LiveElsewhere DEF LiveInv
<1>3. CASE ServerStep
  BY <1>0, <1>3, LiveElsewhere DEF ServerStep, clientVars, nearVars, workerVars
<1>4. CASE Announce
  <2> DEFINE change == Head(unannounced)
  <2>1. /\ unannounced # <<>> /\ unannounced' = Tail(unannounced) /\ local' = local
        /\ FileChanged(change.path, change.type)
    BY <1>4 DEF Announce
  <2>2. change \in Live /\ Tail(unannounced) \in Seq(Live)
    BY <1>0, <2>1, HeadTailProperties
  <2>3. [path |-> change.path, type |-> change.type] = change
    BY <2>2 DEF Live, Changes
  <2>4. arg' = change /\ UNCHANGED <<pool, posted, worker, pair>>
    BY <2>1, <2>3 DEF FileChanged, workerVars
  <2> QED
    BY <1>0, <2>1, <2>2, <2>4, LiveElsewhere DEF LiveInv
<1>5. ASSUME NEW p \in Paths, NEW new \in OnDisk, Edit(p, new)
      PROVE  LiveInv'
  <2> DEFINE change == [path |-> p, type |-> TypeOfChange(local[p], new)]
  <2>1. /\ change \in Changes /\ local' = [local EXCEPT ![p] = new]
        /\ unannounced' \in {unannounced, Append(unannounced, change)}
        /\ UNCHANGED <<pool, posted, worker, pair, main, arg>>
    BY <1>5, EditChange DEF vars, workerVars, mainVars
  <2>2. change.path = p
    OBVIOUS
  <2> HIDE DEF change
  <2>3. Live \subseteq Live' /\ change \in Live'
    BY <1>0, <1>5, <2>1, <2>2 DEF Live, Changes
  <2>4. pool \in Seq(Live') /\ posted \in Seq(Live') /\ unannounced \in Seq(Live')
    BY <1>0, <2>3, SeqMonotonic
  <2>5. unannounced' \in Seq(Live')
    BY <2>1, <2>3, <2>4
  <2> QED
    BY <1>0, <2>1, <2>3, <2>4, <2>5 DEF LiveInv
<1>6. CASE UNCHANGED sessionVars
  BY <1>0, <1>6, LiveElsewhere DEF sessionVars, vars, workerVars, mainVars, nearVars
<1> QED
  BY <1>1, <1>2, <1>3, <1>4, <1>5, <1>6 DEF SessionNext

(* What the server leaves behind. *)
LEMMA ServerTypes ==
  ASSUME SessionInv, ServerStep
  PROVE  /\ isLogin' \in BOOLEAN /\ dirs' \in SUBSET Dirs
         /\ remote' \in [Paths -> FileStates] /\ refused' \in SUBSET Paths
<1>0. /\ isLogin \in BOOLEAN /\ dirs \in SUBSET Dirs
      /\ remote \in [Paths -> FileStates] /\ refused \in SUBSET Paths
      /\ c2s \in Seq(Requests)
  BY SessionTypes DEF SessionInv, TypeOK
<1>1. S!ServerNext /\ refused' = IF S!FileDiff THEN Refused(Head(c2s)) ELSE refused
  BY DEF ServerStep
<1>2. ASSUME S!FileDiff
      PROVE  /\ isLogin' = isLogin /\ dirs' \in SUBSET Dirs
             /\ remote' \in [Paths -> FileStates] /\ refused' \in SUBSET Paths
  <2>1. c2s # <<>> /\ Head(c2s).proto = "file_diff"
    BY <1>2 DEF S!FileDiff, S!Undecodable, S!RemoveFile, S!WriteFile, S!NoParent,
                S!WriteFails, S!Decoded, S!Received
  <2>2. Head(c2s) \in Requests
    BY <1>0, <2>1, HeadTailProperties
  <2>3. Head(c2s).path \in Paths /\ Head(c2s).content \in FileStates
    BY <2>1, <2>2 DEF Requests, Handshakes
  <2>4. refused' \in SUBSET Paths
    BY <1>0, <1>1, <1>2, <2>3 DEF Refused
  <2>5. DirOf[Head(c2s).path] \in Dirs
    BY <2>3, ServerAssumption
  <2>6. Absent \in FileStates /\ S!Absent \in FileStates /\ S!Torn \in FileStates
    BY DEF FileStates, SpecialStates, S!Absent, S!Torn, Absent, Torn
  <2>7. S!DirsFor(S!Diff) \in SUBSET Dirs
    BY <1>0, <2>5 DEF S!DirsFor, S!Diff
  <2>8. CASE S!Undecodable \/ S!NoParent
    BY <1>0, <2>4, <2>8 DEF S!Undecodable, S!NoParent
  <2>9. CASE S!RemoveFile
    BY <1>0, <2>3, <2>4, <2>6, <2>9 DEF S!RemoveFile, S!Diff
  <2>10. CASE S!WriteFile
    BY <1>0, <2>3, <2>4, <2>7, <2>10 DEF S!WriteFile, S!Diff
  <2>11. CASE S!WriteFails
    BY <1>0, <2>3, <2>4, <2>6, <2>7, <2>11 DEF S!WriteFails, S!Diff
  <2> QED
    BY <1>2, <2>8, <2>9, <2>10, <2>11 DEF S!FileDiff
<1>3. CASE S!Accept \/ S!ReadFails
  BY <1>0, <1>1, <1>2, <1>3 DEF S!Accept, S!ReadFails
<1>4. CASE S!DirectoryVerification \/ \E match \in BOOLEAN : S!TokenLogin(match)
  BY <1>0, <1>1, <1>2, <1>4 DEF S!DirectoryVerification, S!TokenLogin
<1>5. CASE S!FileDiff
  BY <1>0, <1>2, <1>5
<1> QED
  BY <1>1, <1>3, <1>4, <1>5 DEF S!ServerNext, S!Handle

LEMMA SessionInvNext ==
  ASSUME Compatible, SessionInv, [SessionNext]_sessionVars
  PROVE  SessionInv'
<1>0. /\ TypeOK /\ isLogin \in BOOLEAN
      /\ remote \in [Paths -> FileStates] /\ dirs \in SUBSET Dirs
      /\ local \in [Paths -> FileStates] /\ edits \in 0 .. MaxEdits
      /\ unannounced \in Seq(Changes) /\ refused \in SUBSET Paths
      /\ unheard \in SUBSET Paths
  BY SessionTypes DEF SessionInv
<1>1. TypeOK'
  BY <1>0, SessionIsClientStep, TypeNext
<1>2. LiveInv'
  BY LiveNext
<1>3. unannounced' \in Seq(Changes)
  <2>1. unannounced' \in Seq(Live') /\ Live' \subseteq Changes
    BY <1>2 DEF LiveInv, Live
  <2> QED
    BY <2>1, SeqMonotonic
<1>4. /\ local' \in [Paths -> FileStates] /\ edits' \in 0 .. MaxEdits
      /\ unheard' \in SUBSET Paths
  <2>1. ASSUME NEW p \in Paths, NEW new \in OnDisk, Edit(p, new)
        PROVE  /\ local' \in [Paths -> FileStates] /\ edits' \in 0 .. MaxEdits
               /\ unheard' \in SUBSET Paths
    BY <1>0, <2>1, SettingsAssumption, SessionAssumption DEF Edit
  <2>2. UNCHANGED <<local, edits, unheard>> \/ \E p \in Paths, new \in OnDisk : Edit(p, new)
    BY DEF SessionNext, ClientStep, DeliverDiff, ServerStep, Announce, sessionVars, nearVars
  <2> QED
    BY <1>0, <2>1, <2>2
<1>5. /\ isLogin' \in BOOLEAN /\ dirs' \in SUBSET Dirs
      /\ remote' \in [Paths -> FileStates] /\ refused' \in SUBSET Paths
  <2>1. UNCHANGED <<farVars, refused>> \/ ServerStep
    BY DEF SessionNext, ClientStep, DeliverDiff, Announce, Edit, sessionVars
  <2> QED
    BY <1>0, <2>1, ServerTypes DEF farVars
<1>6. SessionTypeOK'
  BY <1>1, <1>3, <1>4, <1>5
  DEF SessionTypeOK, S!ServerTypeOK, TypeOK, S!Requests, Requests, S!Responses,
      Responses, S!Ids, Ids, S!Handshakes, Handshakes, S!ChangeTypes, ChangeTypes,
      S!Codes, Codes, S!FileStates, FileStates, S!SpecialStates, SpecialStates,
      S!Absent, S!Empty, S!Binary, S!TooBig, S!Crlf, S!Lf, S!Torn, Absent, Empty,
      Binary, TooBig, Crlf, Lf, Torn
<1> QED
  BY <1>2, <1>6 DEF SessionInv

(* Every variable of a session keeps to its range, whatever is edited, lost *)
(* or refused, and a change that is under way is one of a file that is as   *)
(* an edit leaves it.                                                       *)
THEOREM SessionTypeCorrect ==
  ASSUME Compatible
  PROVE  SessionSpec => []SessionTypeOK
<1>1. SessionInv /\ [SessionNext]_sessionVars => SessionInv'
  BY SessionInvNext
<1>2. SessionInv => SessionTypeOK
  BY DEF SessionInv
<1> QED
  BY <1>1, <1>2, SessionInvInit, PTL DEF SessionSpec

(* A session is one of ControlClient: what ControlClient_proofs proves with *)
(* the server left open holds with this one.                                *)
THEOREM SessionImplementsClient ==
  ASSUME Compatible
  PROVE  SessionSpec => ClientSpec
<1>1. SessionInv /\ [SessionNext]_sessionVars => SessionInv'
  BY SessionInvNext
<1>2. SessionInv /\ [SessionNext]_sessionVars => [Next]_vars
  BY SessionIsClientStep
<1>3. SessionInit => Init
  BY DEF SessionInit
<1> QED
  BY <1>1, <1>2, <1>3, SessionInvInit, PTL DEF SessionSpec, ClientSpec, Spec

(* In a session, ControlClient keeps one diff under way at most. *)
LEMMA SessionSlot ==
  ASSUME Compatible
  PROVE  SessionSpec => []SlotDiscipline
BY SessionImplementsClient, SlotDisciplined, PTL DEF ClientSpec

LEMMA SessionInvariant ==
  ASSUME Compatible
  PROVE  SessionSpec => []SessionInv
<1>1. SessionInv /\ [SessionNext]_sessionVars => SessionInv'
  BY SessionInvNext
<1> QED
  BY <1>1, SessionInvInit, PTL DEF SessionSpec

-----------------------------------------------------------------------------
(* A session is one of VidServer.                                          *)

(* Nobody calls stop() in a session: once the monitor has been started, a   *)
(* socket that is still there is connected.                                 *)
LinkInv == health = "ok" /\ sock /\ git # "null" => link = "up"

LEMMA LinkNext ==
  ASSUME SlotDiscipline, LinkInv, [SessionNext]_sessionVars
  PROVE  LinkInv'
<1>1. CASE ClientStep
  <2>1. CASE Worker
    BY <2>1 DEF LinkInv, Worker, Run, CheckRunning, CheckEmpty, Claim, TakeOne, Crash,
                EmitDiff, MisreadPool, OnlyWorker, mainVars
  <2>2. CASE Connected \/ ConnectFails
    BY <2>2 DEF LinkInv, SlotDiscipline, Connected, ConnectFails, Untouched
  <2>3. CASE OnReadyRead
    BY <2>3 DEF LinkInv, OnReadyRead, LoginReactor, VerificationReactor, FileDiffReactor,
                Exit, Untouched
  <2>4. CASE OnDisconnected \/ OnPartialRead
    BY <2>4 DEF LinkInv, OnDisconnected, OnPartialRead, Disconnected
  <2>5. CASE Erase \/ PushBack
    BY <2>5 DEF LinkInv, Erase, PushBack
  <2> QED
    BY <1>1, <2>1, <2>2, <2>3, <2>4, <2>5 DEF ClientStep
<1>2. CASE DeliverDiff
  BY <1>2 DEF LinkInv, DeliverDiff, FileDiff, Crash, Untouched
<1>3. CASE ServerStep \/ Announce \/ \E p \in Paths, new \in OnDisk : Edit(p, new)
  <2>1. UNCHANGED <<health, sock, git, link>>
    BY <1>3 DEF ServerStep, Announce, Edit, FileChanged, clientVars, vars, mainVars,
                S!ServerNext, S!Accept, S!ReadFails, S!Handle, S!TokenLogin,
                S!DirectoryVerification, S!FileDiff, S!Undecodable, S!RemoveFile,
                S!WriteFile, S!NoParent, S!WriteFails, S!Return, S!Raise, S!Respond
  <2> QED
    BY <2>1 DEF LinkInv
<1>4. CASE UNCHANGED sessionVars
  BY <1>4 DEF LinkInv, sessionVars, vars, mainVars
<1> QED
  BY <1>1, <1>2, <1>3, <1>4 DEF SessionNext

(* The two modules have the same vocabulary. *)
LEMMA SameRequests == S!Requests = Requests
BY DEF S!Requests, Requests, S!Ids, Ids, S!Handshakes, Handshakes, S!ChangeTypes,
       ChangeTypes, S!FileStates, FileStates, S!SpecialStates, SpecialStates,
       S!Absent, S!Empty, S!Binary, S!TooBig, S!Crlf, S!Lf, S!Torn, Absent, Empty,
       Binary, TooBig, Crlf, Lf, Torn

(* What the client sends, when nothing else is under way, is a turn. *)
LEMMA SendIsTurn ==
  ASSUME MaxInFlight > 0, c2s \in Seq(Requests), Len(c2s) + Len(s2c') = 0,
         link # "down", link' = "up", UNCHANGED <<session, farVars>>,
         s2c' = s2c \/ (s2c # <<>> /\ s2c' = Tail(s2c)),
         NEW request \in Requests, c2s' = Append(c2s, request)
  PROVE  S!Turn
BY SameRequests DEF S!Turn, S!OnlyClient, farVars

(* What a step of the client is to the server. *)
LEMMA ClientIsOpenClient ==
  ASSUME MaxInFlight > 0, SessionInv, SlotDiscipline, LinkInv,
         ClientStep \/ DeliverDiff
  PROVE  [S!Next]_(S!serverVars)
<1>0. UNCHANGED farVars
  BY DEF ClientStep, DeliverDiff
<1>1. /\ TypeOK /\ c2s \in Seq(Requests) /\ s2c \in Seq(Responses)
      /\ posted \in Seq(Changes)
      /\ Len(c2s) \in Nat /\ Len(s2c) \in Nat /\ Len(posted) \in Nat
  BY DEF SessionInv, SessionTypeOK, TypeOK
<1>2. ASSUME Crash \/ Exit \/ Disconnected
      PROVE  S!Next
  BY <1>0, <1>2 DEF Crash, Exit, Disconnected, S!Next, S!Leave, S!OnlyClient, farVars
<1>3. ASSUME UNCHANGED wireVars, link' = link
      PROVE  UNCHANGED S!serverVars
  BY <1>0, <1>3 DEF S!serverVars, farVars, wireVars
<1>4. CASE Worker
  <2>1. CASE Crash
    BY <1>2, <2>1
  <2>2. CASE ~Crash
    BY <1>3, <1>4, <2>2 DEF Worker, Run, CheckRunning, CheckEmpty, Claim, TakeOne,
                            EmitDiff, MisreadPool, OnlyWorker, mainVars
  <2> QED
    BY <2>1, <2>2
<1>5. CASE Connected
  <2>1. c2s = <<>> /\ s2c = <<>> /\ s2c' = s2c
    BY <1>5 DEF Connected, SlotDiscipline
  <2>2. Handshake("token_login") \in Requests
    BY <1>1, HandshakeType DEF TypeOK, Handshakes
  <2>3. /\ link # "down" /\ link' = "up" /\ session' = session
        /\ c2s' = Append(c2s, Handshake("token_login"))
    BY <1>5 DEF Connected, Send, Untouched
  <2> QED
    BY <1>0, <1>1, <2>1, <2>2, <2>3, SendIsTurn DEF S!Next
<1>6. CASE ConnectFails
  BY <1>0, <1>6 DEF ConnectFails, SlotDiscipline, Untouched, S!Next, S!Leave,
                    S!OnlyClient, farVars
<1>7. CASE OnReadyRead /\ ~Exit
  <2>1. link = "up" /\ s2c # <<>> /\ s2c' = Tail(s2c) /\ link' = link /\ session' = session
    BY <1>7 DEF OnReadyRead, LoginReactor, VerificationReactor, FileDiffReactor, Untouched
  <2>2. CASE c2s' = c2s
    BY <1>0, <2>1, <2>2 DEF S!Next, S!Turn, S!OnlyClient, farVars
  <2>3. CASE LoginReactor
    <3>1. Handshake("directory_verification") \in Requests
      BY <1>1, HandshakeType DEF TypeOK, Handshakes
    <3>2. Len(c2s) + Len(s2c) <= 1
      BY <1>1 DEF SlotDiscipline, Outstanding, InHand
    <3>3. Len(s2c') = Len(s2c) - 1 /\ Len(s2c) # 0
      BY <1>1, <2>1, HeadTailProperties, EmptySeq
    <3>4. Len(c2s) + Len(s2c') = 0
      BY <1>1, <3>2, <3>3
    <3>5. c2s' = Append(c2s, Handshake("directory_verification"))
      BY <1>7, <2>3 DEF LoginReactor, Send
    <3> QED
      BY <1>0, <1>1, <2>1, <3>1, <3>4, <3>5, SendIsTurn DEF S!Next
  <2> QED
    BY <1>7, <2>2, <2>3 DEF OnReadyRead, VerificationReactor, FileDiffReactor
<1>8. CASE OnDisconnected \/ OnPartialRead
  BY <1>2, <1>8 DEF OnDisconnected, OnPartialRead
<1>9. CASE Erase \/ PushBack
  BY <1>3, <1>9 DEF Erase, PushBack, wireVars
<1>10. CASE DeliverDiff /\ ~Crash
  <2> DEFINE change == Head(posted)
             found  == local[change.path]
  <2>1. AtLoop /\ posted # <<>> /\ FileDiff(found)
    BY <1>10 DEF DeliverDiff, FileDiff
  <2>2. change \in Live
    BY <2>1, HeadTailProperties DEF SessionInv, LiveInv
  <2>3. change \in Changes /\ found \in OnDisk
    BY <2>2 DEF Live
  <2>4. CASE UNCHANGED <<link, c2s, s2c>>
    BY <1>3, <2>1, <2>4, <1>10 DEF FileDiff, Untouched, wireVars
  <2>5. CASE /\ sock /\ Send("file_diff", FileDiffRequest(change, found))
             /\ Untouched /\ UNCHANGED <<link, s2c>>
    <3>1. FileDiffRequest(change, found) \in Requests
      BY <1>1, <2>3, FileDiffRequestType DEF TypeOK
    <3>2. git # "null" /\ link = "up"
      BY <2>1, <2>5 DEF SlotDiscipline, LinkInv, AtLoop, Alive
    <3>3. Len(posted) # 0
      BY <1>1, <2>1, EmptySeq
    <3>4. Len(c2s) + Len(s2c) = 0
      BY <1>1, <3>2, <3>3 DEF SlotDiscipline, Outstanding, InHand
    <3>5. Len(c2s) + Len(s2c') = 0 /\ c2s' = Append(c2s, FileDiffRequest(change, found))
          /\ link' = "up" /\ session' = session /\ s2c' = s2c /\ link # "down"
      BY <2>5, <3>2, <3>4 DEF Send, Untouched
    <3> QED
      BY <1>0, <1>1, <3>1, <3>5, SendIsTurn DEF S!Next
  <2> QED
    BY <1>10, <2>1, <2>4, <2>5 DEF FileDiff
<1> QED
  BY <1>2, <1>4, <1>5, <1>6, <1>7, <1>8, <1>9, <1>10 DEF ClientStep

LEMMA SessionIsServerStep ==
  ASSUME MaxInFlight > 0, SessionInv, SlotDiscipline, LinkInv,
         [SessionNext]_sessionVars
  PROVE  [S!Next]_(S!serverVars)
<1>1. CASE ServerStep
  BY <1>1 DEF ServerStep, S!Next
<1>2. CASE Announce \/ UNCHANGED sessionVars
           \/ \E p \in Paths, new \in OnDisk : Edit(p, new)
  BY <1>2 DEF Announce, Edit, FileChanged, sessionVars, vars, mainVars, wireVars, farVars,
              S!serverVars
<1> QED
  BY <1>1, <1>2, ClientIsOpenClient DEF SessionNext

LEMMA SessionLink ==
  ASSUME Compatible
  PROVE  SessionSpec => []LinkInv
<1>1. SessionInit => LinkInv
  BY DEF SessionInit, Init, LinkInv
<1>2. SlotDiscipline /\ LinkInv /\ [SessionNext]_sessionVars => LinkInv'
  BY LinkNext
<1> QED
  BY <1>1, <1>2, SessionSlot, PTL DEF SessionSpec

(* A session is one of VidServer: the client never has more than one        *)
(* request or response under way, and sends on a connection only.           *)
THEOREM SessionImplementsServer ==
  ASSUME Compatible, MaxInFlight > 0
  PROVE  SessionSpec => ServerSpec
<1>1. SessionInv /\ SlotDiscipline /\ LinkInv /\ [SessionNext]_sessionVars
        => [S!Next]_(S!serverVars)
  BY SessionIsServerStep
<1>2. SessionInit => S!Init
  BY DEF SessionInit
<1> QED
  BY <1>1, <1>2, SessionInvariant, SessionSlot, SessionLink, PTL
  DEF SessionSpec, ServerSpec, S!Spec

-----------------------------------------------------------------------------
(* Success means success.                                                  *)

(* The client answers nothing. *)
LEMMA ClientNeverAnswers ==
  ASSUME SessionInv, ClientStep \/ DeliverDiff
  PROVE  Len(s2c') <= Len(s2c)
<1>1. s2c \in Seq(Responses) /\ Len(s2c) \in Nat
  BY DEF SessionInv, SessionTypeOK, TypeOK
<1>2. s2c' = s2c \/ s2c' = <<>> \/ (s2c # <<>> /\ s2c' = Tail(s2c))
  BY DEF ClientStep, DeliverDiff, FileDiff, Worker, Run, CheckRunning, CheckEmpty, Claim,
         TakeOne, EmitDiff, MisreadPool, OnlyWorker, Crash, Exit, wireVars, Connected, ConnectFails,
         OnReadyRead, LoginReactor, VerificationReactor, FileDiffReactor, OnDisconnected,
         OnPartialRead, Disconnected, Erase, PushBack
<1>3. s2c # <<>> => Len(Tail(s2c)) = Len(s2c) - 1
  BY <1>1, HeadTailProperties
<1> QED
  BY <1>1, <1>2, <1>3

(* One step of the property. *)
SuccessStep ==
  S!Received("file_diff") /\ Len(s2c') > Len(s2c) /\ s2c'[Len(s2c')].code = 0
    => S!Applied(S!Diff, remote') \/ session' = "closed"

LEMMA FileDiffApplies ==
  ASSUME SessionInv, S!FileDiff
  PROVE  SuccessStep
<1>1. /\ c2s \in Seq(Requests) /\ s2c \in Seq(Responses)
      /\ remote \in [Paths -> FileStates]
  BY SessionTypes DEF SessionInv, TypeOK
<1>2. c2s # <<>> /\ Head(c2s).proto = "file_diff"
  BY DEF S!FileDiff, S!Undecodable, S!RemoveFile, S!WriteFile, S!NoParent,
         S!WriteFails, S!Decoded, S!Received
<1>3. Head(c2s) \in Requests
  BY <1>1, <1>2, HeadTailProperties
<1>4. Head(c2s).path \in Paths
  BY <1>2, <1>3 DEF Requests, Handshakes
<1>5. CASE S!Undecodable \/ S!NoParent \/ S!WriteFails
  BY <1>5 DEF S!Undecodable, S!NoParent, S!WriteFails, S!Raise, SuccessStep
<1>6. CASE S!WriteFile
  <2>1. Head(c2s).type # "removed"
    BY <1>6 DEF S!WriteFile, S!Decoded, S!Diff
  <2>2. remote'[Head(c2s).path] = Head(c2s).content
    BY <1>1, <1>4, <1>6 DEF S!WriteFile, S!Diff
  <2> QED
    BY <2>1, <2>2 DEF SuccessStep, S!Applied, S!Diff
<1>7. CASE S!RemoveFile
  <2>1. Head(c2s).type = "removed"
    BY <1>7 DEF S!RemoveFile, S!Decoded, S!Diff
  <2>2. CASE remote' = [remote EXCEPT ![S!Diff.path] = S!Absent]
    BY <1>1, <1>4, <2>1, <2>2 DEF SuccessStep, S!Applied, S!Diff
  <2>3. CASE S!Return(404)
    <3> DEFINE answer == [id |-> Head(c2s).id, code |-> 404]
    <3>1. s2c' = s2c \/ s2c' = Append(s2c, answer)
      BY <2>3 DEF S!Return, S!Respond
    <3>2. Append(s2c, answer)[Len(Append(s2c, answer))] = answer
      BY <1>1
    <3>3. answer.code # 0
      OBVIOUS
    <3>4. s2c' = s2c => ~ (Len(s2c') > Len(s2c))
      BY <1>1
    <3> QED
      BY <3>1, <3>2, <3>3, <3>4 DEF SuccessStep
  <2> QED
    BY <1>7, <2>2, <2>3 DEF S!RemoveFile
<1> QED
  BY <1>5, <1>6, <1>7 DEF S!FileDiff

(* What the client takes for success has taken effect, or is the last it    *)
(* hears in this session, whatever fails and whatever is in flight          *)
(* (server.py:49-63, 144-184).                                              *)
THEOREM SuccessIsTrue ==
  ASSUME Compatible
  PROVE  SessionSpec => SuccessMeansAppliedOrClosed
<1>1. ASSUME SessionInv, [SessionNext]_sessionVars
      PROVE  SuccessStep \/ UNCHANGED S!serverVars
  <2>1. s2c \in Seq(Responses) /\ Len(s2c) \in Nat
    BY <1>1 DEF SessionInv, SessionTypeOK, TypeOK
  <2>2. CASE ClientStep \/ DeliverDiff
    <3>1. ~ (Len(s2c') > Len(s2c))
      <4>1. Len(s2c') <= Len(s2c)
        BY <1>1, <2>2, ClientNeverAnswers
      <4>2. Len(s2c') \in Nat
        BY <1>1, SessionInvNext DEF SessionInv, SessionTypeOK, TypeOK
      <4> QED
        BY <2>1, <4>1, <4>2
    <3> QED
      BY <3>1 DEF SuccessStep
  <2>3. CASE S!FileDiff
    BY <1>1, <2>3, FileDiffApplies
  <2>4. CASE ServerStep /\ ~ S!FileDiff
    <3>1. S!Received("file_diff") => s2c' = s2c
      BY <2>4 DEF ServerStep, S!ServerNext, S!Accept, S!ReadFails, S!Handle, S!TokenLogin,
                  S!DirectoryVerification, S!Received
    <3> QED
      BY <2>1, <3>1 DEF SuccessStep
  <2>5. CASE Announce \/ UNCHANGED sessionVars
             \/ \E p \in Paths, new \in OnDisk : Edit(p, new)
    BY <2>5 DEF Announce, Edit, FileChanged, sessionVars, vars, mainVars, wireVars,
                farVars, S!serverVars
  <2> QED
    BY <1>1, <2>2, <2>3, <2>4, <2>5 DEF SessionNext
<1>2. SessionInv /\ [SessionNext]_sessionVars => [SuccessStep]_(S!serverVars)
  BY <1>1
<1> QED
  BY <1>2, SessionInvariant, PTL
  DEF SessionSpec, SuccessMeansAppliedOrClosed, S!SuccessMeansAppliedOrClosed, SuccessStep

-----------------------------------------------------------------------------
(* The server's files are the client's whenever the client has nothing     *)
(* left to send (MirrorWhenQuiet).                                         *)
(*                                                                         *)
(* A change of a path travels from the monitor through insert, the pool,   *)
(* the worker, the event queue and the connection to the server.  The      *)
(* invariant follows one path at a time: of all that is under way for it,  *)
(* the entry farthest from the server tells what the file is now; and if   *)
(* there is none, the server has the file.                                 *)

(* A queue has an entry of a path. *)
Mentions(q, p) == \E i \in 1 .. Len(q) : q[i].path = p

(* A change is a removal if, and only if, the file is not there. *)
Tells(change, files) == change.type = "removed" <=> files[change.path] = Absent

(* The last entry of a path tells what its file is. *)
LastTells(q, p, files) ==
  \A i \in 1 .. Len(q) :
    q[i].path = p /\ (\A j \in (i + 1) .. Len(q) : q[j].path # p) => Tells(q[i], files)

-----------------------------------------------------------------------------
(* Queues.                                                                 *)

(* Appending a change makes it the last of its path. *)
LEMMA AppendTells ==
  ASSUME NEW q \in Seq(Changes), NEW change \in Changes, NEW p, NEW files
  PROVE  /\ Mentions(Append(q, change), p) <=> Mentions(q, p) \/ change.path = p
         /\ change.path = p /\ Tells(change, files) => LastTells(Append(q, change), p, files)
         /\ change.path # p /\ LastTells(q, p, files)
              => LastTells(Append(q, change), p, files)
<1> DEFINE r == Append(q, change)
<1>1. /\ Len(q) \in Nat /\ Len(r) = Len(q) + 1 /\ r[Len(q) + 1] = change
      /\ \A i \in 1 .. Len(q) : r[i] = q[i]
  OBVIOUS
<1> HIDE DEF r
<1>2. Mentions(r, p) <=> Mentions(q, p) \/ change.path = p
  BY <1>1 DEF Mentions
<1>3. ASSUME change.path = p, Tells(change, files)
      PROVE  LastTells(r, p, files)
  <2>1. ASSUME NEW i \in 1 .. Len(r), r[i].path = p,
               \A j \in (i + 1) .. Len(r) : r[j].path # p
        PROVE  Tells(r[i], files)
    <3>1. Len(q) + 1 \in (i + 1) .. Len(r) \/ i = Len(q) + 1
      BY <1>1, <2>1
    <3> QED
      BY <1>1, <1>3, <2>1, <3>1
  <2> QED
    BY <2>1 DEF LastTells
<1>4. ASSUME change.path # p, LastTells(q, p, files)
      PROVE  LastTells(r, p, files)
  <2>1. ASSUME NEW i \in 1 .. Len(r), r[i].path = p,
               \A j \in (i + 1) .. Len(r) : r[j].path # p
        PROVE  Tells(r[i], files)
    <3>1. i \in 1 .. Len(q)
      BY <1>1, <1>4, <2>1
    <3>2. \A j \in (i + 1) .. Len(q) : j \in (i + 1) .. Len(r) /\ j \in 1 .. Len(q)
      BY <1>1, <3>1
    <3>3. \A j \in (i + 1) .. Len(q) : q[j].path # p
      BY <1>1, <2>1, <3>2
    <3> QED
      BY <1>1, <1>4, <2>1, <3>1, <3>3 DEF LastTells
  <2> QED
    BY <2>1 DEF LastTells
<1> QED
  BY <1>2, <1>3, <1>4 DEF r

(* Taking the first change away leaves the last of each path, or the first *)
(* was the only one.                                                       *)
LEMMA TailTells ==
  ASSUME NEW q \in Seq(Changes), q # <<>>, NEW p, NEW files
  PROVE  /\ Mentions(q, p) <=> Mentions(Tail(q), p) \/ Head(q).path = p
         /\ LastTells(q, p, files) => LastTells(Tail(q), p, files)
         /\ LastTells(q, p, files) /\ Head(q).path = p /\ ~Mentions(Tail(q), p)
              => Tells(Head(q), files)
<1> DEFINE r == Tail(q)
<1>1. /\ Len(q) \in Nat \ {0} /\ Len(r) = Len(q) - 1 /\ Len(r) \in Nat /\ Head(q) = q[1]
      /\ \A i \in 1 .. Len(r) : r[i] = q[i + 1]
  BY HeadTailProperties, EmptySeq
<1> HIDE DEF r
<1>2. \A i \in 1 .. Len(q) : i = 1 \/ (i - 1 \in 1 .. Len(r) /\ r[i - 1] = q[i])
  <2>1. ASSUME NEW i \in 1 .. Len(q), i # 1
        PROVE  i - 1 \in 1 .. Len(r) /\ r[i - 1] = q[i]
    <3>1. i - 1 \in 1 .. Len(r) /\ (i - 1) + 1 = i
      BY <1>1, <2>1
    <3> QED
      BY <1>1, <3>1
  <2> QED
    BY <2>1
<1>3. \A i \in 1 .. Len(r) : i + 1 \in 1 .. Len(q)
  BY <1>1
<1>4. Mentions(q, p) <=> Mentions(r, p) \/ Head(q).path = p
  BY <1>1, <1>2, <1>3 DEF Mentions
<1>5. ASSUME LastTells(q, p, files)
      PROVE  LastTells(r, p, files)
  <2>1. ASSUME NEW i \in 1 .. Len(r), r[i].path = p,
               \A j \in (i + 1) .. Len(r) : r[j].path # p
        PROVE  Tells(r[i], files)
    <3>1. ASSUME NEW j \in (i + 2) .. Len(q)
          PROVE  q[j].path # p
      <4>1. j - 1 \in (i + 1) .. Len(r) /\ j \in 1 .. Len(q) /\ j # 1
        BY <1>1, <3>1
      <4> QED
        BY <1>2, <2>1, <4>1
    <3>2. (i + 1) + 1 = i + 2
      BY <2>1
    <3> QED
      BY <1>1, <1>3, <1>5, <2>1, <3>1, <3>2 DEF LastTells
  <2> QED
    BY <2>1 DEF LastTells
<1>6. ASSUME LastTells(q, p, files), Head(q).path = p, ~Mentions(r, p)
      PROVE  Tells(Head(q), files)
  <2>1. ASSUME NEW j \in 2 .. Len(q)
        PROVE  q[j].path # p
    <3>1. j \in 1 .. Len(q) /\ j # 1
      BY <1>1, <2>1
    <3> QED
      BY <1>2, <1>6, <3>1 DEF Mentions
  <2>2. 1 \in 1 .. Len(q) /\ 1 + 1 = 2
    BY <1>1
  <2> QED
    BY <1>1, <1>6, <2>1, <2>2 DEF LastTells
<1> QED
  BY <1>4, <1>5, <1>6 DEF r

(* Erasing an entry of another path moves the last one, and leaves it last. *)
LEMMA EraseTells ==
  ASSUME NEW q \in Seq(Changes), NEW other, NEW p, p # other, NEW files
  PROVE  /\ Mentions(WithoutFirst(q, other), p) <=> Mentions(q, p)
         /\ LastTells(q, p, files) => LastTells(WithoutFirst(q, other), p, files)
<1> DEFINE r == WithoutFirst(q, other)
<1>1. CASE IndicesOf(q, other) = {}
  BY <1>1 DEF WithoutFirst
<1>2. CASE IndicesOf(q, other) # {}
  <2> DEFINE n == CHOOSE j \in IndicesOf(q, other) :
                    \A k \in IndicesOf(q, other) : j <= k
  <2>1. n \in 1 .. Len(q) /\ q[n].path = other
    <3>1. IndicesOf(q, other) \subseteq Nat
      BY DEF IndicesOf
    <3>2. \E j \in IndicesOf(q, other) : \A k \in IndicesOf(q, other) : j <= k
      BY <3>1, <1>2, LeastNatural
    <3>3. n \in IndicesOf(q, other)
      BY <3>2
    <3> QED
      BY <3>3 DEF IndicesOf
  <2>2. r = SubSeq(q, 1, n - 1) \o SubSeq(q, n + 1, Len(q))
    BY <1>2 DEF WithoutFirst
  <2> HIDE DEF n
  <2>3. /\ Len(q) \in Nat /\ Len(r) = Len(q) - 1
        /\ \A i \in 1 .. Len(r) : r[i] = IF i < n THEN q[i] ELSE q[i + 1]
    <3> DEFINE a == SubSeq(q, 1, n - 1)
               b == SubSeq(q, n + 1, Len(q))
    <3>1. /\ a \in Seq(Changes) /\ Len(a) = n - 1
          /\ \A i \in 1 .. n - 1 : a[i] = q[i]
      BY <2>1, SubSeqProperties
    <3>2. /\ b \in Seq(Changes) /\ Len(b) = Len(q) - n
          /\ \A i \in 1 .. Len(q) - n : b[i] = q[n + i]
      BY <2>1, SubSeqProperties
    <3> HIDE DEF a, b
    <3>3. /\ Len(a \o b) = Len(a) + Len(b)
          /\ \A i \in 1 .. Len(a) + Len(b) :
               (a \o b)[i] = IF i <= Len(a) THEN a[i] ELSE b[i - Len(a)]
      BY <3>1, <3>2, ConcatProperties
    <3>4. r = a \o b
      BY <2>2 DEF a, b
    <3>5. Len(r) = Len(q) - 1 /\ Len(q) \in Nat
      BY <2>1, <3>1, <3>2, <3>3, <3>4
    <3>6. ASSUME NEW i \in 1 .. Len(r)
          PROVE  r[i] = IF i < n THEN q[i] ELSE q[i + 1]
      <4>1. CASE i < n
        BY <2>1, <3>1, <3>2, <3>3, <3>4, <3>5, <4>1
      <4>2. CASE ~ (i < n)
        <5>1. /\ i - Len(a) \in 1 .. Len(q) - n /\ ~ (i <= Len(a))
              /\ n + (i - Len(a)) = i + 1 /\ i \in 1 .. Len(a) + Len(b)
          BY <2>1, <3>1, <3>2, <3>5, <4>2
        <5> QED
          BY <3>2, <3>3, <3>4, <4>2, <5>1
      <4> QED
        BY <4>1, <4>2
    <3> QED
      BY <3>5, <3>6
  <2> HIDE DEF r
  <2>4. ASSUME NEW i \in 1 .. Len(q), i # n
        PROVE  \E k \in 1 .. Len(r) : /\ r[k] = q[i]
                                      /\ k = IF i < n THEN i ELSE i - 1
    <3>1. CASE i < n
      BY <2>1, <2>3, <3>1
    <3>2. CASE ~ (i < n)
      <4>1. i - 1 \in 1 .. Len(r) /\ ~ (i - 1 < n) /\ (i - 1) + 1 = i
        BY <2>1, <2>3, <2>4, <3>2
      <4> QED
        BY <2>3, <3>2, <4>1
    <3> QED
      BY <3>1, <3>2
  <2>5. ASSUME NEW k \in 1 .. Len(r)
        PROVE  \E i \in 1 .. Len(q) : /\ i # n /\ r[k] = q[i]
                                      /\ k = IF i < n THEN i ELSE i - 1
    <3>1. CASE k < n
      BY <2>1, <2>3, <3>1
    <3>2. CASE ~ (k < n)
      <4>1. k + 1 \in 1 .. Len(q) /\ k + 1 # n /\ ~ (k + 1 < n) /\ (k + 1) - 1 = k
        BY <2>1, <2>3, <3>2
      <4> QED
        BY <2>3, <3>2, <4>1
    <3> QED
      BY <3>1, <3>2
  <2>6. Mentions(r, p) <=> Mentions(q, p)
    BY <2>1, <2>4, <2>5 DEF Mentions
  <2>7. ASSUME LastTells(q, p, files)
        PROVE  LastTells(r, p, files)
    <3>1. ASSUME NEW k \in 1 .. Len(r), r[k].path = p,
                 \A j \in (k + 1) .. Len(r) : r[j].path # p
          PROVE  Tells(r[k], files)
      <4>1. PICK i \in 1 .. Len(q) : /\ i # n /\ r[k] = q[i]
                                     /\ k = IF i < n THEN i ELSE i - 1
        BY <2>5
      <4>2. ASSUME NEW j \in (i + 1) .. Len(q)
            PROVE  q[j].path # p
        <5>1. CASE j = n
          BY <2>1, <5>1
        <5>2. CASE j # n
          <6>1. j \in 1 .. Len(q) /\ j > i
            BY <2>3, <4>2
          <6>2. PICK l \in 1 .. Len(r) : r[l] = q[j] /\ l = IF j < n THEN j ELSE j - 1
            BY <2>4, <5>2, <6>1
          <6>3. l \in (k + 1) .. Len(r)
            BY <2>1, <2>3, <4>1, <5>2, <6>1, <6>2
          <6> QED
            BY <3>1, <6>2, <6>3
        <5> QED
          BY <5>1, <5>2
      <4> QED
        BY <2>7, <3>1, <4>1, <4>2 DEF LastTells
    <3> QED
      BY <3>1 DEF LastTells
  <2> QED
    BY <2>6, <2>7 DEF r
<1> QED
  BY <1>1, <1>2

(* A change tells the same of a file that stays as it is. *)
LEMMA TellsElsewhere ==
  ASSUME NEW p, NEW files, NEW new, new[p] = files[p]
  PROVE  /\ \A change : change.path = p => (Tells(change, new) <=> Tells(change, files))
         /\ \A q : LastTells(q, p, new) <=> LastTells(q, p, files)
<1>1. \A change : change.path = p => (Tells(change, new) <=> Tells(change, files))
  BY DEF Tells
<1> QED
  BY <1>1 DEF LastTells

-----------------------------------------------------------------------------
(* One path.                                                               *)

Inserting(p) == main # "loop" /\ arg.path = p
Carrying(p) == worker = "emit" /\ pair.path = p
Sending(p) == c2s # <<>> /\ Head(c2s).proto = "file_diff" /\ Head(c2s).path = p

(* The request tells what the file is, and brings it. *)
Brings(request, files) ==
  /\ Tells(request, files)
  /\ request.type # "removed" => request.content = files[request.path]

(* The server has the file, unless it is one it said it could not remove,  *)
(* or it serves no more.                                                   *)
Reached(p) == session = "closed" \/ p \in refused \/ remote[p] = local[p]

(* Of what is under way for a path, what is farthest from the server tells *)
(* what the file is now.                                                   *)
Follows(p) ==
  IF Mentions(unannounced, p) THEN LastTells(unannounced, p, local)
  ELSE IF Inserting(p) THEN Tells(arg, local)
  ELSE IF Mentions(pool, p) THEN LastTells(pool, p, local)
  ELSE IF Carrying(p) THEN Tells(pair, local)
  ELSE IF Mentions(posted, p) THEN LastTells(posted, p, local)
  ELSE IF Sending(p) THEN Brings(Head(c2s), local)
  ELSE Reached(p)

MirrorInv == \A p \in Paths \ unheard : Follows(p)

LEMMA MirrorInit == SessionInit => MirrorInv
<1> SUFFICES ASSUME SessionInit, NEW p \in Paths
             PROVE  Follows(p)
  BY DEF MirrorInv
<1>1. ~ Mentions(<<>>, p)
  BY DEF Mentions
<1> QED
  BY <1>1 DEF SessionInit, Init, Follows, Inserting, Carrying, Sending, Reached

(* What the step leaves alone still follows. *)
LEMMA FollowsElsewhere ==
  ASSUME NEW p \in Paths, Follows(p),
         UNCHANGED <<unannounced, local, main, arg, pool, posted, refused, remote>>,
         UNCHANGED <<worker, pair>> \/ (worker # "emit" /\ worker' # "emit"),
         \/ session' = session /\ (c2s' = c2s \/ (~Sending(p) /\ ~Sending(p)'))
         \/ session' = "closed" /\ ~Sending(p)'
  PROVE  Follows(p)'
BY DEF Follows, Inserting, Carrying, Sending, Reached, Brings

LEMMA FollowsWorker ==
  ASSUME SessionInv, NEW p \in Paths, Follows(p), Worker,
         UNCHANGED <<farVars, nearVars, refused>>
  PROVE  Follows(p)'
<1>0. /\ pool \in Seq(Changes) /\ posted \in Seq(Changes) /\ pair \in Changes
      /\ unannounced \in Seq(Changes)
      /\ UNCHANGED <<unannounced, local, refused, remote>>
  BY DEF SessionInv, SessionTypeOK, TypeOK, farVars, nearVars
<1>1. CASE Run \/ CheckRunning \/ CheckEmpty \/ Claim
  <2>1. /\ worker # "emit" /\ worker' # "emit"
        /\ UNCHANGED <<pool, posted, main, arg, c2s, session>>
    BY <1>1 DEF Run, CheckRunning, CheckEmpty, Claim, OnlyWorker, mainVars, wireVars
  <2> QED
    BY <1>0, <2>1, FollowsElsewhere
<1>2. CASE Crash
  BY <1>0, <1>2, FollowsElsewhere DEF Crash, workerVars
<1>3. CASE TakeOne /\ ~Crash
  <2>1. /\ worker = "take_one" /\ worker' = "emit" /\ pool # <<>> /\ pair' = Head(pool)
        /\ pool' \in {pool, Tail(pool)}
        /\ UNCHANGED <<posted, main, arg, c2s, session>>
    BY <1>3 DEF TakeOne, mainVars, wireVars
  <2>2. /\ Mentions(pool, p) <=> Mentions(Tail(pool), p) \/ Head(pool).path = p
        /\ LastTells(pool, p, local) => LastTells(Tail(pool), p, local)
        /\ LastTells(pool, p, local) /\ Head(pool).path = p /\ ~Mentions(Tail(pool), p)
             => Tells(Head(pool), local)
    BY <1>0, <2>1, TailTells
  <2>3. CASE pool' = pool
    BY <1>0, <2>1, <2>2, <2>3
    DEF Follows, Inserting, Carrying, Sending, Reached, Brings
  <2>4. CASE pool' = Tail(pool)
    BY <1>0, <2>1, <2>2, <2>4
    DEF Follows, Inserting, Carrying, Sending, Reached, Brings
  <2> QED
    BY <2>1, <2>3, <2>4
<1>4. CASE EmitDiff
  <2>1. /\ worker = "emit" /\ worker' = "forever" /\ posted' = Append(posted, pair)
        /\ UNCHANGED <<pool, pair, main, arg, c2s, session>>
    BY <1>4 DEF EmitDiff, OnlyWorker, mainVars, wireVars
  <2>2. /\ Mentions(Append(posted, pair), p) <=> Mentions(posted, p) \/ pair.path = p
        /\ pair.path = p /\ Tells(pair, local) => LastTells(Append(posted, pair), p, local)
        /\ pair.path # p /\ LastTells(posted, p, local)
             => LastTells(Append(posted, pair), p, local)
    BY <1>0, AppendTells
  <2> QED
    BY <1>0, <2>1, <2>2 DEF Follows, Inserting, Carrying, Sending, Reached, Brings
<1> QED
  BY <1>1, <1>2, <1>3, <1>4 DEF Worker, MisreadPool

LEMMA FollowsInsert ==
  ASSUME SessionInv, NEW p \in Paths, Follows(p), Erase \/ PushBack,
         UNCHANGED <<farVars, nearVars, refused>>
  PROVE  Follows(p)'
<1>0. /\ pool \in Seq(Changes) /\ arg \in Changes
      /\ UNCHANGED <<unannounced, local, refused, remote>>
  BY DEF SessionInv, SessionTypeOK, TypeOK, farVars, nearVars
<1>1. UNCHANGED <<posted, worker, pair, arg, c2s, session>>
  BY DEF Erase, PushBack, workerVars, wireVars
<1>2. CASE Erase
  <2>1. main # "loop" /\ main' # "loop" /\ pool' = WithoutFirst(pool, arg.path)
    BY <1>2 DEF Erase
  <2>2. CASE arg.path = p
    BY <1>0, <1>1, <2>1, <2>2 DEF Follows, Inserting
  <2>3. CASE arg.path # p
    <3>1. /\ Mentions(WithoutFirst(pool, arg.path), p) <=> Mentions(pool, p)
          /\ LastTells(pool, p, local)
               => LastTells(WithoutFirst(pool, arg.path), p, local)
      BY <1>0, <2>3, EraseTells
    <3> QED
      BY <1>0, <1>1, <2>1, <2>3, <3>1
      DEF Follows, Inserting, Carrying, Sending, Reached, Brings
  <2> QED
    BY <2>2, <2>3
<1>3. CASE PushBack
  <2>1. main # "loop" /\ main' = "loop" /\ pool' = Append(pool, arg)
    BY <1>3 DEF PushBack
  <2>2. /\ Mentions(Append(pool, arg), p) <=> Mentions(pool, p) \/ arg.path = p
        /\ arg.path = p /\ Tells(arg, local) => LastTells(Append(pool, arg), p, local)
        /\ arg.path # p /\ LastTells(pool, p, local)
             => LastTells(Append(pool, arg), p, local)
    BY <1>0, AppendTells
  <2> QED
    BY <1>0, <1>1, <2>1, <2>2 DEF Follows, Inserting, Carrying, Sending, Reached, Brings
<1> QED
  BY <1>2, <1>3

(* The handshakes carry no change, and what ends a connection loses none    *)
(* that has not been sent.                                                  *)
LEMMA FollowsHandshake ==
  ASSUME SessionInv, SlotDiscipline, NEW p \in Paths, Follows(p),
         UNCHANGED <<farVars, nearVars, refused>>,
         Connected \/ ConnectFails \/ OnReadyRead \/ OnDisconnected \/ OnPartialRead
  PROVE  Follows(p)'
<1>0. UNCHANGED <<unannounced, local, refused, remote>>
  BY DEF farVars, nearVars
<1>1. UNCHANGED <<main, arg, pool, posted, worker, pair, session>>
  BY DEF Connected, ConnectFails, OnReadyRead, LoginReactor, VerificationReactor,
         FileDiffReactor, Exit, OnDisconnected, OnPartialRead, Disconnected, Untouched,
         workerVars
<1>2. c2s \in Seq(Requests) /\ s2c \in Seq(Responses) /\ posted \in Seq(Changes)
      /\ Len(c2s) \in Nat /\ Len(s2c) \in Nat /\ Len(posted) \in Nat
  BY DEF SessionInv, SessionTypeOK, TypeOK
<1>3. ASSUME NEW proto \in Handshakes, c2s = <<>>,
             c2s' = Append(c2s, Handshake(proto))
      PROVE  ~Sending(p) /\ ~Sending(p)'
  <2>1. Head(c2s') = Handshake(proto)
    BY <1>3
  <2> QED
    BY <1>3, <2>1 DEF Sending, Handshake, Handshakes
<1>4. CASE c2s' = c2s
  BY <1>0, <1>1, <1>4, FollowsElsewhere
<1>5. CASE Connected
  <2>1. c2s = <<>> /\ c2s' = Append(c2s, Handshake("token_login"))
    BY <1>5 DEF Connected, SlotDiscipline, Send
  <2> QED
    BY <1>0, <1>1, <1>3, <2>1, FollowsElsewhere DEF Handshakes
<1>6. CASE OnReadyRead /\ c2s' # c2s
  <2>1. s2c # <<>> /\ c2s' = Append(c2s, Handshake("directory_verification"))
    BY <1>6 DEF OnReadyRead, LoginReactor, VerificationReactor, FileDiffReactor, Exit, Send
  <2>2. Len(s2c) # 0
    BY <1>2, <2>1, EmptySeq
  <2>3. Len(c2s) = 0
    BY <1>2, <2>2 DEF SlotDiscipline, Outstanding, InHand
  <2>4. c2s = <<>>
    BY <1>2, <2>3, EmptySeq
  <2> QED
    BY <1>0, <1>1, <1>3, <2>1, <2>4, FollowsElsewhere DEF Handshakes
<1> QED
  BY <1>4, <1>5, <1>6 DEF ConnectFails, OnDisconnected, OnPartialRead, Disconnected

(* The slot is taken and nothing is under way that could release it: a file *)
(* of more than 10 MB was not sent, or the connection is gone.              *)
Stalled == git # "null" /\ busy /\ worker # "begin" /\ Outstanding = 0

(* The file is read when the signal is delivered, and the request brings it *)
(* as it is then, but for its CRs.  A file that is not sent stalls the      *)
(* client.                                                                  *)
LEMMA FollowsDeliver ==
  ASSUME Crlf \notin OnDisk, SessionInv, SlotDiscipline, NEW p \in Paths, Follows(p),
         DeliverDiff, ~Stalled'
  PROVE  Follows(p)'
<1> DEFINE change  == Head(posted)
           found   == local[change.path]
           request == FileDiffRequest(change, found)
<1>0. /\ posted # <<>> /\ FileDiff(found)
      /\ UNCHANGED <<unannounced, local, refused, remote>>
  BY DEF DeliverDiff, farVars, nearVars
<1>1. /\ c2s \in Seq(Requests) /\ s2c \in Seq(Responses) /\ posted \in Seq(Changes)
      /\ Len(c2s) \in Nat /\ Len(s2c) \in Nat /\ Len(posted) \in Nat
  BY DEF SessionInv, SessionTypeOK, TypeOK
<1>2. change \in Live
  BY <1>0, HeadTailProperties DEF SessionInv, LiveInv
<1>3. change \in Changes /\ found # Crlf
  BY <1>2 DEF Live
<1>4. UNCHANGED <<main, arg, pool, worker, pair, session>>
  BY <1>0 DEF FileDiff, Crash, Untouched, workerVars
<1>5. CASE Crash
  BY <1>0, <1>4, <1>5, FollowsElsewhere DEF Crash
<1>6. Len(posted) # 0
  BY <1>0, <1>1, EmptySeq
<1>7. CASE UNCHANGED <<busy, git, c2s, s2c>> /\ posted' = Tail(posted)
  <2>1. /\ git # "null" /\ busy /\ worker # "begin"
        /\ InHand = 0 /\ Len(posted) = 1 /\ Len(c2s) = 0 /\ Len(s2c) = 0
    <3>1. InHand \in {0, 1} /\ git # "null"
      BY <1>0 DEF InHand, SlotDiscipline
    <3>2. Outstanding <= IF busy /\ worker # "begin" THEN 1 ELSE 0
      BY <3>1 DEF SlotDiscipline
    <3>3. Outstanding = InHand + Len(posted) + Len(c2s) + Len(s2c)
      BY DEF Outstanding
    <3>4. busy /\ worker # "begin"
      BY <1>1, <1>6, <3>1, <3>2, <3>3
    <3>5. Outstanding <= 1
      BY <3>2, <3>4
    <3>6. InHand = 0 /\ Len(posted) = 1 /\ Len(c2s) = 0 /\ Len(s2c) = 0
      <4>1. \A h, a, b, c \in Nat : a # 0 /\ h + a + b + c <= 1
                                   => h = 0 /\ a = 1 /\ b = 0 /\ c = 0
        OBVIOUS
      <4>2. InHand \in Nat /\ InHand + Len(posted) + Len(c2s) + Len(s2c) <= 1
        BY <3>1, <3>3, <3>5
      <4> QED
        BY <1>1, <1>6, <4>1, <4>2
    <3> QED
      BY <3>1, <3>4, <3>6
  <2>2. Len(posted') = 0 /\ InHand' = 0
    BY <1>0, <1>1, <1>4, <1>7, <2>1, HeadTailProperties DEF InHand
  <2> QED
    BY <1>4, <1>7, <2>1, <2>2 DEF Stalled, Outstanding
<1>8. CASE posted' = Tail(posted) /\ c2s' = Append(c2s, request)
  <2>1. posted' = Tail(posted) /\ c2s' = Append(c2s, request)
    BY <1>8
  <2>3. Len(c2s) = 0
    BY <1>0, <1>1, <1>6 DEF SlotDiscipline, Outstanding, InHand
  <2>4. c2s = <<>>
    BY <1>1, <2>3, EmptySeq
  <2>5. c2s' # <<>> /\ Head(c2s') = request
    BY <2>1, <2>4
  <2>6. /\ request.proto = "file_diff" /\ request.path = change.path
        /\ request.type = change.type /\ request.content = Payload(change, found)
    BY DEF FileDiffRequest
  <2>7. Tells(change, local) => Brings(request, local)
    BY <1>3, <2>6 DEF Tells, Brings, Payload
  <2>8. /\ Mentions(posted, p) <=> Mentions(Tail(posted), p) \/ change.path = p
        /\ LastTells(posted, p, local) => LastTells(Tail(posted), p, local)
        /\ LastTells(posted, p, local) /\ change.path = p /\ ~Mentions(Tail(posted), p)
             => Tells(change, local)
    BY <1>0, <1>1, TailTells
  <2>9. ~Sending(p)
    BY <2>4 DEF Sending
  <2> HIDE DEF change, request
  <2> QED
    BY <1>0, <1>4, <2>1, <2>5, <2>6, <2>7, <2>8, <2>9
    DEF Follows, Inserting, Carrying, Sending, Reached
<1> QED
  BY <1>0, <1>5, <1>7, <1>8 DEF FileDiff, Send

LEMMA FollowsAnnounce ==
  ASSUME SessionInv, NEW p \in Paths, Follows(p), Announce
  PROVE  Follows(p)'
<1> DEFINE change == Head(unannounced)
<1>1. /\ unannounced # <<>> /\ unannounced' = Tail(unannounced)
      /\ main = "loop" /\ main' # "loop"
      /\ arg' = [path |-> change.path, type |-> change.type]
      /\ UNCHANGED <<local, refused, remote, pool, posted, worker, pair, c2s, session>>
  BY DEF Announce, FileChanged, AtLoop, farVars, workerVars, wireVars
<1>2. unannounced \in Seq(Changes)
  BY DEF SessionInv, SessionTypeOK
<1>3. change \in Changes
  BY <1>1, <1>2, HeadTailProperties
<1>4. arg' = change
  BY <1>1, <1>3 DEF Changes
<1>5. /\ Mentions(unannounced, p) <=> Mentions(Tail(unannounced), p) \/ change.path = p
      /\ LastTells(unannounced, p, local) => LastTells(Tail(unannounced), p, local)
      /\ LastTells(unannounced, p, local) /\ change.path = p
          /\ ~Mentions(Tail(unannounced), p) => Tells(change, local)
  BY <1>1, <1>2, TailTells
<1> HIDE DEF change
<1> QED
  BY <1>1, <1>4, <1>5 DEF Follows, Inserting, Carrying, Sending, Reached, Brings

(* The entry of an edit that is announced tells what the file is now. *)
LEMMA FollowsAnnouncedEdit ==
  ASSUME SessionInv, NEW p \in Paths, NEW new \in OnDisk, Edit(p, new), p \notin unheard'
  PROVE  Follows(p)'
<1> DEFINE change == [path |-> p, type |-> TypeOfChange(local[p], new)]
<1>1. /\ change \in Changes /\ (change.type = "removed" <=> new = Absent)
      /\ local' = [local EXCEPT ![p] = new]
      /\ unannounced' = Append(unannounced, change)
  BY EditChange
<1>2. change.path = p
  OBVIOUS
<1>3. unannounced \in Seq(Changes) /\ local \in [Paths -> FileStates]
  BY DEF SessionInv, SessionTypeOK
<1> HIDE DEF change
<1>4. local'[p] = new
  BY <1>1, <1>3
<1>5. Tells(change, local')
  BY <1>1, <1>2, <1>4 DEF Tells
<1>6. Mentions(unannounced', p) /\ LastTells(unannounced', p, local')
  BY <1>1, <1>2, <1>3, <1>5, AppendTells
<1> QED
  BY <1>6 DEF Follows

(* The edit of another file changes nothing for this one. *)
LEMMA FollowsOtherEdit ==
  ASSUME SessionInv, NEW p \in Paths, Follows(p),
         NEW q \in Paths, NEW new \in OnDisk, Edit(q, new), q # p
  PROVE  Follows(p)'
<1> DEFINE change == [path |-> q, type |-> TypeOfChange(local[q], new)]
<1>1. /\ change \in Changes /\ local' = [local EXCEPT ![q] = new]
      /\ unannounced' \in {unannounced, Append(unannounced, change)}
      /\ UNCHANGED <<vars, farVars, refused>>
  BY EditChange
<1>2. change.path = q
  OBVIOUS
<1>3. unannounced \in Seq(Changes) /\ local \in [Paths -> FileStates]
      /\ c2s \in Seq(Requests)
  BY DEF SessionInv, SessionTypeOK, TypeOK
<1> HIDE DEF change
<1>4. /\ Mentions(Append(unannounced, change), p) <=> Mentions(unannounced, p)
      /\ LastTells(unannounced, p, local)
           => LastTells(Append(unannounced, change), p, local)
  BY <1>1, <1>2, <1>3, AppendTells
<1>5. local'[p] = local[p]
  BY <1>1, <1>3
<1>6. \A other : other.path = p => (Tells(other, local') <=> Tells(other, local))
  BY <1>5, TellsElsewhere
<1>7. \A any : LastTells(any, p, local') <=> LastTells(any, p, local)
  BY <1>5, TellsElsewhere
<1>8. Sending(p) => (Brings(Head(c2s), local) => Brings(Head(c2s), local'))
  BY <1>5, <1>6 DEF Sending, Brings
<1>9. UNCHANGED <<main, arg, pool, posted, worker, pair, c2s, session, refused, remote>>
  BY <1>1 DEF vars, workerVars, mainVars, wireVars, farVars
<1>10. /\ Mentions(unannounced', p) <=> Mentions(unannounced, p)
       /\ LastTells(unannounced, p, local) => LastTells(unannounced', p, local')
  BY <1>1, <1>4, <1>7
<1> QED
  BY <1>5, <1>6, <1>7, <1>8, <1>9, <1>10
  DEF Follows, Inserting, Carrying, Sending, Reached

-----------------------------------------------------------------------------
(* The server.                                                             *)

(* Of a request the server has handled, or dropped, nothing is left. *)
LEMMA LastRequest ==
  ASSUME SessionInv, SlotDiscipline, c2s # <<>>
  PROVE  Tail(c2s) = <<>>
<1>1. /\ c2s \in Seq(Requests) /\ s2c \in Seq(Responses) /\ posted \in Seq(Changes)
      /\ Len(c2s) \in Nat /\ Len(s2c) \in Nat /\ Len(posted) \in Nat
  BY DEF SessionInv, SessionTypeOK, TypeOK
<1>2. Len(c2s) <= 1
  BY <1>1 DEF SlotDiscipline, Outstanding, InHand
<1>3. Tail(c2s) \in Seq(Requests) /\ Len(Tail(c2s)) = Len(c2s) - 1
  BY <1>1, HeadTailProperties
<1>4. Len(Tail(c2s)) = 0
  <2>1. Len(c2s) # 0
    BY <1>1, EmptySeq
  <2> QED
    BY <1>1, <1>2, <1>3, <2>1
<1> QED
  BY <1>3, <1>4, EmptySeq

(* A request that tells what its file is makes the server's the same, or    *)
(* is refused, or ends the session.                                         *)
LEMMA FileDiffFollows ==
  ASSUME SessionInv, SlotDiscipline, NEW p \in Paths, ServerStep, S!FileDiff,
         IF Sending(p) THEN Brings(Head(c2s), local) ELSE Reached(p)
  PROVE  Reached(p)'
<1> DEFINE diff == Head(c2s)
<1>1. /\ c2s \in Seq(Requests) /\ remote \in [Paths -> FileStates]
      /\ refused \in SUBSET Paths /\ local' = local
      /\ refused' = Refused(diff)
  BY SessionTypes DEF SessionInv, TypeOK, ServerStep, nearVars
<1>2. c2s # <<>> /\ diff.proto = "file_diff" /\ session = "serving"
  BY DEF S!FileDiff, S!Undecodable, S!RemoveFile, S!WriteFile, S!NoParent,
         S!WriteFails, S!Decoded, S!Received
<1>3. diff \in Requests
  BY <1>1, <1>2, HeadTailProperties
<1>4. diff.path \in Paths
  BY <1>2, <1>3 DEF Requests, Handshakes
<1>5. S!Diff = diff /\ S!Absent = Absent
  BY DEF S!Diff, S!Absent, Absent
<1>6. Sending(p) <=> diff.path = p
  BY <1>2 DEF Sending
<1> HIDE DEF diff
<1>7. CASE session' = "closed"
  BY <1>7 DEF Reached
<1>8. CASE S!RemoveFile
  <2>1. diff.type = "removed"
    BY <1>5, <1>8 DEF S!RemoveFile, S!Decoded
  <2>2. CASE remote' = [remote EXCEPT ![diff.path] = Absent]
    <3>1. CASE diff.path = p
      <4>1. remote'[p] = Absent /\ local[p] = Absent
        BY <1>1, <1>6, <2>1, <2>2, <3>1 DEF Brings, Tells, diff
      <4> QED
        BY <1>1, <4>1 DEF Reached
    <3>2. CASE diff.path # p
      BY <1>1, <1>2, <1>6, <2>2, <3>2 DEF Reached, Refused
    <3> QED
      BY <3>1, <3>2
  <2>3. CASE remote' = remote /\ remote[diff.path] # Absent
    BY <1>1, <1>2, <1>6, <2>1, <2>3 DEF Reached, Refused
  <2> QED
    BY <1>5, <1>8, <2>2, <2>3 DEF S!RemoveFile
<1>9. CASE S!WriteFile
  <2>1. diff.type # "removed" /\ remote' = [remote EXCEPT ![diff.path] = diff.content]
    BY <1>5, <1>9 DEF S!WriteFile, S!Decoded
  <2>2. CASE diff.path = p
    <3>1. remote'[p] = local[p]
      BY <1>1, <1>6, <2>1, <2>2 DEF Brings, diff
    <3> QED
      BY <1>1, <3>1 DEF Reached
  <2>3. CASE diff.path # p
    BY <1>1, <1>2, <1>6, <2>1, <2>3 DEF Reached, Refused
  <2> QED
    BY <2>2, <2>3
<1> QED
  BY <1>7, <1>8, <1>9
  DEF S!FileDiff, S!Undecodable, S!NoParent, S!WriteFails, S!Raise

LEMMA FollowsServer ==
  ASSUME SessionInv, SlotDiscipline, NEW p \in Paths, Follows(p), ServerStep
  PROVE  Follows(p)'
<1>0. UNCHANGED <<unannounced, local, main, arg, pool, posted, worker, pair>>
  BY DEF ServerStep, clientVars, nearVars, workerVars
<1>1. S!ServerNext /\ refused' = IF S!FileDiff THEN Refused(Head(c2s)) ELSE refused
  BY DEF ServerStep
<1>2. CASE S!FileDiff
  <2>1. c2s # <<>> /\ c2s' = Tail(c2s)
    BY <1>2 DEF S!FileDiff, S!Undecodable, S!RemoveFile, S!WriteFile, S!NoParent,
                S!WriteFails, S!Decoded, S!Received, S!Return, S!Raise, S!Respond
  <2>2. ~Sending(p)'
    BY <2>1, LastRequest DEF Sending
  <2>3. (IF Sending(p) THEN Brings(Head(c2s), local) ELSE Reached(p)) => Reached(p)'
    BY <1>2, FileDiffFollows
  <2> QED
    BY <1>0, <2>2, <2>3 DEF Follows, Inserting, Carrying
<1>3. CASE ~S!FileDiff /\ S!Handle
  <2>1. /\ c2s # <<>> /\ Head(c2s).proto # "file_diff" /\ c2s' = Tail(c2s)
        /\ session' \in {session, "closed"} /\ remote' = remote
    BY <1>3 DEF S!Handle, S!TokenLogin, S!DirectoryVerification, S!Received, S!Return,
                S!Raise, S!Respond
  <2>2. ~Sending(p) /\ ~Sending(p)'
    BY <2>1, LastRequest DEF Sending
  <2> QED
    BY <1>0, <1>1, <1>3, <2>1, <2>2, FollowsElsewhere
<1>4. CASE ~S!FileDiff /\ S!ReadFails
  <2>1. ~Sending(p)' /\ session' = "closed" /\ remote' = remote
    BY <1>4 DEF S!ReadFails, Sending
  <2> QED
    BY <1>0, <1>1, <1>4, <2>1, FollowsElsewhere
<1>5. CASE ~S!FileDiff /\ S!Accept
  <2>1. session = "waiting" /\ UNCHANGED <<c2s, remote, refused>>
    BY <1>1, <1>5 DEF S!Accept
  <2> QED
    BY <1>0, <2>1 DEF Follows, Inserting, Carrying, Sending, Reached, Brings
<1> QED
  BY <1>1, <1>2, <1>3, <1>4, <1>5 DEF S!ServerNext, S!Handle

-----------------------------------------------------------------------------
(* A client that has stalled stays so: nothing that could release the slot  *)
(* is sent until it is.                                                     *)
LEMMA StalledNext ==
  ASSUME SessionInv, SlotDiscipline, Stalled, [SessionNext]_sessionVars
  PROVE  Stalled'
<1>1. /\ c2s \in Seq(Requests) /\ s2c \in Seq(Responses) /\ posted \in Seq(Changes)
      /\ Len(c2s) \in Nat /\ Len(s2c) \in Nat /\ Len(posted) \in Nat
  BY DEF SessionInv, SessionTypeOK, TypeOK
<1>2. /\ worker \notin {"begin", "take_one", "emit"} /\ git # "null" /\ busy
      /\ Len(posted) = 0 /\ Len(c2s) = 0 /\ Len(s2c) = 0
  BY <1>1 DEF Stalled, Outstanding, InHand
<1>3. posted = <<>> /\ c2s = <<>> /\ s2c = <<>>
  BY <1>1, <1>2, EmptySeq
<1>4. ASSUME worker' \notin {"begin", "take_one", "emit"}, git' # "null", busy' = busy,
             UNCHANGED <<posted, c2s>>, s2c' = <<>>
      PROVE  Stalled'
  <2>1. Len(posted') = 0 /\ Len(c2s') = 0 /\ Len(s2c') = 0 /\ InHand' = 0
    BY <1>2, <1>4 DEF InHand
  <2> QED
    BY <1>2, <1>4, <2>1 DEF Stalled, Outstanding
<1>5. CASE ClientStep
  <2>1. CASE Worker
    BY <1>2, <1>3, <1>4, <2>1
    DEF Worker, Run, CheckRunning, CheckEmpty, Claim, TakeOne, EmitDiff, MisreadPool,
        Crash, OnlyWorker, mainVars, workerVars, wireVars
  <2>2. CASE ConnectFails \/ OnDisconnected \/ OnPartialRead \/ Erase \/ PushBack
    BY <1>2, <1>3, <1>4, <2>2
    DEF ConnectFails, OnDisconnected, OnPartialRead, Disconnected, Erase, PushBack,
        Untouched, workerVars, wireVars
  <2>3. ~Connected /\ ~OnReadyRead
    BY <1>2, <1>3 DEF Connected, OnReadyRead, SlotDiscipline
  <2> QED
    BY <1>5, <2>1, <2>2, <2>3 DEF ClientStep
<1>6. ~DeliverDiff
  BY <1>3 DEF DeliverDiff
<1>7. CASE ServerStep
  BY <1>2, <1>3, <1>4, <1>7
  DEF ServerStep, clientVars, workerVars, S!ServerNext, S!Accept, S!ReadFails, S!Handle,
      S!TokenLogin, S!DirectoryVerification, S!FileDiff, S!Undecodable, S!RemoveFile,
      S!WriteFile, S!NoParent, S!WriteFails, S!Decoded, S!Received
<1>8. CASE Announce
  BY <1>2, <1>3, <1>4, <1>8 DEF Announce, FileChanged, workerVars, wireVars
<1>9. CASE UNCHANGED sessionVars \/ \E p \in Paths, new \in OnDisk : Edit(p, new)
  BY <1>2, <1>3, <1>4, <1>9 DEF Edit, sessionVars, vars, workerVars, mainVars, wireVars
<1> QED
  BY <1>5, <1>6, <1>7, <1>8, <1>9 DEF SessionNext

LEMMA MirrorNext ==
  ASSUME Crlf \notin OnDisk,
         SessionInv, SlotDiscipline, MirrorInv, [SessionNext]_sessionVars, ~Stalled'
  PROVE  MirrorInv'
<1> SUFFICES ASSUME NEW p \in Paths, p \notin unheard'
             PROVE  Follows(p)'
  BY DEF MirrorInv
<1>0. unheard' = unheard => Follows(p)
  BY DEF MirrorInv
<1>1. CASE ClientStep
  <2>1. Follows(p) /\ UNCHANGED <<farVars, nearVars, refused>>
    BY <1>0, <1>1 DEF ClientStep, nearVars
  <2> QED
    BY <1>1, <2>1, FollowsWorker, FollowsInsert, FollowsHandshake DEF ClientStep
<1>2. CASE DeliverDiff
  <2>1. Follows(p)
    BY <1>0, <1>2 DEF DeliverDiff, nearVars
  <2> QED
    BY <1>2, <2>1, FollowsDeliver
<1>3. CASE ServerStep
  <2>1. Follows(p)
    BY <1>0, <1>3 DEF ServerStep, nearVars
  <2> QED
    BY <1>3, <2>1, FollowsServer
<1>4. CASE Announce
  <2>1. Follows(p)
    BY <1>0, <1>4 DEF Announce
  <2> QED
    BY <1>4, <2>1, FollowsAnnounce
<1>5. ASSUME NEW q \in Paths, NEW new \in OnDisk, Edit(q, new)
      PROVE  Follows(p)'
  <2>1. CASE q = p
    BY <1>5, <2>1, FollowsAnnouncedEdit
  <2>2. CASE q # p
    <3>1. unheard' \in {unheard \cup {q}, unheard \ {q}}
      BY <1>5 DEF Edit
    <3>2. Follows(p)
      BY <2>2, <3>1 DEF MirrorInv
    <3> QED
      BY <1>5, <2>2, <3>2, FollowsOtherEdit
  <2> QED
    BY <2>1, <2>2
<1>6. CASE UNCHANGED sessionVars
  <2>1. Follows(p)
    BY <1>0, <1>6 DEF sessionVars, nearVars
  <2> QED
    BY <1>6, <2>1, FollowsElsewhere
    DEF sessionVars, vars, workerVars, mainVars, wireVars, farVars, nearVars
<1> QED
  BY <1>1, <1>2, <1>3, <1>4, <1>5, <1>6 DEF SessionNext

(* When the client has nothing left to send, nothing is under way for any   *)
(* path.                                                                    *)
LEMMA MirrorAtRest ==
  ASSUME SessionInv, SlotDiscipline, Stalled \/ MirrorInv
  PROVE  MirrorWhenQuiet
<1> SUFFICES ASSUME Quiet, NEW p \in Paths \ (refused \cup unheard)
             PROVE  remote[p] = local[p]
  BY DEF MirrorWhenQuiet, Mirror
<1>1. /\ Len(c2s) \in Nat /\ Len(s2c) \in Nat /\ Len(posted) \in Nat
      /\ c2s \in Seq(Requests) /\ posted \in Seq(Changes)
  BY DEF SessionInv, SessionTypeOK, TypeOK
<1>2. worker # "emit" /\ Len(c2s) = 0 /\ Len(posted) = 0
  BY <1>1 DEF Quiet, SlotDiscipline, Outstanding, InHand
<1>3. c2s = <<>> /\ posted = <<>> /\ pool = <<>> /\ unannounced = <<>> /\ main = "loop"
      /\ session = "serving"
  BY <1>1, <1>2, EmptySeq DEF Quiet, AtLoop
<1>4. ~Mentions(<<>>, p)
  BY DEF Mentions
<1>5. Follows(p)
  BY DEF MirrorInv, Stalled, Quiet
<1> QED
  BY <1>2, <1>3, <1>4, <1>5 DEF Follows, Inserting, Carrying, Sending, Reached

(* Whenever the client has nothing left to send, the server's files are the *)
(* client's but for the removals the server refused and the files whose     *)
(* last change nobody announced: whatever else fails, whatever the unlocked *)
(* pool does to its entries short of losing them, and files of any size     *)
(* included, as these stall the client for good (ControlClient.cpp:33-59,   *)
(* 146-162, Client.cpp:121-166, server.py:144-184).  Only no file may       *)
(* contain CRs.                                                             *)
THEOREM QuietMeansMirrored ==
  ASSUME Compatible, Crlf \notin OnDisk
  PROVE  SessionSpec => []MirrorWhenQuiet
<1> DEFINE Inv == Stalled \/ MirrorInv
<1>1. SessionInv /\ SlotDiscipline /\ Inv /\ [SessionNext]_sessionVars => Inv'
  BY MirrorNext, StalledNext
<1>2. SessionInv /\ SlotDiscipline /\ Inv => MirrorWhenQuiet
  BY MirrorAtRest
<1>3. SessionInit => Inv
  BY MirrorInit
<1> QED
  BY <1>1, <1>2, <1>3, SessionInvariant, SessionSlot, PTL DEF SessionSpec
=============================================================================
