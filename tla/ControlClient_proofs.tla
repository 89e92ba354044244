------------------------ MODULE ControlClient_proofs ------------------------
(***************************************************************************)
(* Proofs about ControlClient, for every set of paths and contents, every  *)
(* bound, every modulus of the query ids and every choice of faults: one   *)
(* diff at a time, every response awaited, where it can crash, and that it *)
(* implements SyncPump.  All of it rests on the types and the slot         *)
(* discipline, which come first.                                           *)
(***************************************************************************)
EXTENDS ControlClient, WellFoundedInduction, SequenceTheorems, TLAPS

-----------------------------------------------------------------------------
(* A non-empty set of naturals has a least element. *)
LEMMA LeastNatural ==
  ASSUME NEW I, I \subseteq Nat, I # {}
  PROVE  \E i \in I : \A k \in I : i <= k
<1>1. PICK i \in I : \A k \in I : ~ (<<k, i>> \in OpToRel(<, Nat))
  BY NatLessThanWellFounded, WFMin
<1>2. \A k \in I : ~ (k < i)
  BY <1>1 DEF OpToRel
<1> QED
  BY <1>2

(* The id after an id is an id: the counter wraps around in range. *)
LEMMA NextIdType == \A id \in Ids : NextId(id) \in Ids
BY IdModulusAssumption DEF Ids, NextId

(* Erasing the first entry of a path from a queue of changes leaves one. *)
LEMMA WithoutFirstType ==
  ASSUME NEW q \in Seq(Changes), NEW p
  PROVE  WithoutFirst(q, p) \in Seq(Changes)
<1>1. CASE IndicesOf(q, p) = {}
  BY <1>1 DEF WithoutFirst
<1>2. CASE IndicesOf(q, p) # {}
  <2> DEFINE i == CHOOSE j \in IndicesOf(q, p) :
                    \A k \in IndicesOf(q, p) : j <= k
  <2>1. i \in IndicesOf(q, p)
    <3>1. IndicesOf(q, p) \subseteq Nat
      BY DEF IndicesOf
    <3>2. \E j \in IndicesOf(q, p) : \A k \in IndicesOf(q, p) : j <= k
      BY <3>1, <1>2, LeastNatural
    <3> QED
      BY <3>2
  <2>2. i \in 1 .. Len(q)
    BY <2>1 DEF IndicesOf
  <2> HIDE DEF i
  <2>3. SubSeq(q, 1, i - 1) \in Seq(Changes)
    BY <2>2, SubSeqProperties
  <2>4. SubSeq(q, i + 1, Len(q)) \in Seq(Changes)
    BY <2>2, SubSeqProperties
  <2>5. SubSeq(q, 1, i - 1) \o SubSeq(q, i + 1, Len(q)) \in Seq(Changes)
    BY <2>3, <2>4
  <2> QED
    BY <1>2, <2>5 DEF WithoutFirst, i
<1> QED
  BY <1>1, <1>2

(* The requests the client makes are requests. *)
LEMMA HandshakeType ==
  ASSUME lastId \in Ids, NEW proto \in Handshakes
  PROVE  Handshake(proto) \in Requests
BY NextIdType DEF Handshake, Requests

LEMMA FileDiffRequestType ==
  ASSUME lastId \in Ids, NEW change \in Changes, NEW found \in OnDisk
  PROVE  FileDiffRequest(change, found) \in Requests
<1>1. Payload(change, found) \in FileStates
  BY SettingsAssumption DEF Payload, FileStates, SpecialStates, Absent, Empty, Lf
<1> QED
  BY <1>1, NextIdType DEF FileDiffRequest, Requests, Changes

-----------------------------------------------------------------------------
(* Type correctness. *)
LEMMA TypeInit == Init => TypeOK
<1> SUFFICES ASSUME Init
             PROVE  TypeOK
  OBVIOUS
<1>1. NoReactors \in [Ids -> Protocols \cup {"none"}]
  BY DEF NoReactors
<1>2. stops \in 0 .. MaxStops
  BY BoundsAssumption DEF Init
<1>3. isRunning \in BOOLEAN /\ busy \in BOOLEAN /\ client \in BOOLEAN /\ sock \in BOOLEAN
  BY DEF Init
<1> QED
  BY <1>1, <1>2, <1>3 DEF Init, TypeOK

(* The steps shared by several actions keep the types. *)
LEMMA TypeCrash == TypeOK /\ Crash => TypeOK'
BY DEF TypeOK, Crash, workerVars

LEMMA TypeExit == TypeOK /\ Exit => TypeOK'
BY DEF TypeOK, Exit, workerVars

LEMMA TypeDisconnected ==
  TypeOK /\ Disconnected /\ isRunning' \in BOOLEAN /\ stops' \in 0 .. MaxStops
    => TypeOK'
<1> SUFFICES ASSUME TypeOK, Disconnected,
                    isRunning' \in BOOLEAN, stops' \in 0 .. MaxStops
             PROVE  TypeOK'
  OBVIOUS
<1>1. busy' \in BOOLEAN /\ client' \in BOOLEAN /\ sock' \in BOOLEAN
  BY DEF TypeOK, Disconnected
<1>2. reactors' \in [Ids -> Protocols \cup {"none"}]
  BY DEF Disconnected, NoReactors
<1> QED
  BY <1>1, <1>2 DEF TypeOK, Disconnected, workerVars

(* Sending a well-formed request keeps the types of what Send changes. *)
LEMMA TypeSend ==
  ASSUME TypeOK, NEW proto \in Protocols, NEW request \in Requests,
         Send(proto, request)
  PROVE  /\ lastId' \in Ids /\ c2s' \in Seq(Requests)
         /\ reactors' \in [Ids -> Protocols \cup {"none"}]
BY NextIdType DEF TypeOK, Send

LEMMA TypeWorker == TypeOK /\ Worker => TypeOK'
<1> SUFFICES ASSUME TypeOK, Worker
             PROVE  TypeOK'
  OBVIOUS
<1> USE DEF TypeOK, OnlyWorker, mainVars, wireVars
<1>1. CASE Run
  BY <1>1 DEF Run
<1>2. CASE CheckRunning
  BY <1>2 DEF CheckRunning
<1>3. CASE CheckEmpty
  BY <1>3 DEF CheckEmpty
<1>4. CASE Claim
  BY <1>4 DEF Claim
<1>5. CASE TakeOne
  <2>1. CASE Crash
    BY <2>1, TypeCrash
  <2>2. CASE ~Crash
    <3>0. pool # <<>>
      BY <1>5, <2>2 DEF TakeOne
    <3>1. Head(pool) \in Changes /\ Tail(pool) \in Seq(Changes)
      <4>1. pool \in Seq(Changes)
        OBVIOUS
      <4> QED
        BY <3>0, <4>1, HeadTailProperties
    <3>2. pair' \in Changes /\ pool' \in Seq(Changes)
      BY <1>5, <2>2, <3>1 DEF TakeOne
    <3>3. worker' = "emit"
          /\ UNCHANGED <<health, isRunning, busy, posted, mainVars, wireVars>>
      BY <1>5, <2>2 DEF TakeOne
    <3> QED
      BY <3>2, <3>3
  <2> QED
    BY <2>1, <2>2
<1>6. CASE EmitDiff
  BY <1>6 DEF EmitDiff
<1>7. CASE MisreadPool
  BY <1>7 DEF MisreadPool, Crash, workerVars
<1> QED
  BY <1>1, <1>2, <1>3, <1>4, <1>5, <1>6, <1>7 DEF Worker

LEMMA TypeServer == TypeOK /\ Server => TypeOK'
<1> SUFFICES ASSUME TypeOK, Server
             PROVE  TypeOK'
  OBVIOUS
<1> USE DEF TypeOK, OnlyServer, workerVars, mainVars
<1>1. CASE Accept
  BY <1>1 DEF Accept
<1>2. CASE ServerClose
  BY <1>2 DEF ServerClose
<1>3. ASSUME NEW code \in Codes, Answer(code)
      PROVE  TypeOK'
  <2>1. Head(c2s) \in Requests
    BY <1>3 DEF Answer
  <2>2. [id |-> Head(c2s).id, code |-> code] \in Responses
    BY <2>1 DEF Requests, Responses
  <2> QED
    BY <1>3, <2>2 DEF Answer
<1> QED
  BY <1>1, <1>2, <1>3 DEF Server

-----------------------------------------------------------------------------
LEMMA TypeOnReadyRead == TypeOK /\ OnReadyRead => TypeOK'
<1> SUFFICES ASSUME TypeOK, OnReadyRead
             PROVE  TypeOK'
  OBVIOUS
<1> DEFINE response == Head(s2c)
<1>0. s2c # <<>> /\ Tail(s2c) \in Seq(Responses)
  BY DEF OnReadyRead, TypeOK
<1>1. CASE Exit
  BY <1>1, TypeExit
<1>2. CASE LoginReactor /\ ~Exit
  <2>1. Send("directory_verification", Handshake("directory_verification"))
    BY <1>2 DEF LoginReactor
  <2>2. Handshake("directory_verification") \in Requests
    BY HandshakeType DEF TypeOK, Handshakes
  <2>3. /\ lastId' \in Ids /\ c2s' \in Seq(Requests)
        /\ reactors' \in [Ids -> Protocols \cup {"none"}]
    BY <2>1, <2>2, TypeSend DEF Protocols, Handshakes
  <2> QED
    <3>1. s2c' \in Seq(Responses)
      BY <1>0, <1>2 DEF LoginReactor
    <3>2. Untouched /\ UNCHANGED <<busy, posted, git, link>>
      BY <1>2 DEF LoginReactor
    <3> QED
      BY <2>3, <3>1, <3>2 DEF Untouched, TypeOK, workerVars
<1>3. CASE VerificationReactor(response.code) /\ ~Exit
  BY <1>0, <1>3 DEF VerificationReactor, Untouched, TypeOK, workerVars
<1>4. CASE FileDiffReactor
  <2>1. busy' \in BOOLEAN
    BY <1>4 DEF FileDiffReactor
  <2> QED
    BY <1>0, <1>4, <2>1 DEF FileDiffReactor, Untouched, TypeOK, workerVars
<1> QED
  BY <1>1, <1>2, <1>3, <1>4 DEF OnReadyRead

LEMMA TypeFileDiff ==
  ASSUME TypeOK, NEW found \in OnDisk, FileDiff(found)
  PROVE  TypeOK'
<1> DEFINE change == Head(posted)
<1>1. CASE Crash
  BY <1>1, TypeCrash
<1>2. CASE change.type # "removed" /\ found = TooBig
  <2>1. /\ posted # <<>> /\ posted' = Tail(posted) /\ Untouched
        /\ UNCHANGED <<busy, git, link, reactors, lastId, c2s, s2c>>
    BY <1>2 DEF FileDiff
  <2> QED
    BY <2>1 DEF Untouched, TypeOK, workerVars
<1>3. CASE ~(change.type # "removed" /\ found = TooBig) /\ ~Crash
  <2>1. /\ posted # <<>> /\ posted' = Tail(posted)
        /\ Send("file_diff", FileDiffRequest(change, found))
        /\ Untouched /\ UNCHANGED <<busy, link, git, s2c>>
    BY <1>3 DEF FileDiff
  <2>2. FileDiffRequest(change, found) \in Requests
    BY <2>1, FileDiffRequestType DEF TypeOK
  <2>3. /\ lastId' \in Ids /\ c2s' \in Seq(Requests)
        /\ reactors' \in [Ids -> Protocols \cup {"none"}]
    BY <2>1, <2>2, TypeSend DEF Protocols
  <2> QED
    BY <2>1, <2>3 DEF Untouched, TypeOK, workerVars
<1> QED
  BY <1>1, <1>2, <1>3

LEMMA TypeStop == TypeOK /\ Stop => TypeOK'
<1> SUFFICES ASSUME TypeOK, Stop
             PROVE  TypeOK'
  OBVIOUS
<1>1. CASE Crash
  BY <1>1, TypeCrash
<1>2. CASE ~Crash
  <2>1. isRunning' = FALSE /\ stops' = stops + 1 /\ stops < MaxStops
    BY <1>2 DEF Stop
  <2>2. isRunning' \in BOOLEAN /\ stops' \in 0 .. MaxStops
    <3>1. isRunning' \in BOOLEAN
      BY <2>1
    <3>2. stops' \in 0 .. MaxStops
      BY <2>1, BoundsAssumption DEF TypeOK
    <3> QED
      BY <3>1, <3>2
  <2>3. CASE Disconnected
    BY <2>2, <2>3, TypeDisconnected
  <2>4. CASE ~Disconnected
    BY <1>2, <2>2, <2>4 DEF Stop, TypeOK, NoReactors, workerVars, wireVars
  <2> QED
    BY <2>3, <2>4
<1> QED
  BY <1>1, <1>2

LEMMA TypeMain == TypeOK /\ Main => TypeOK'
<1> SUFFICES ASSUME TypeOK, Main
             PROVE  TypeOK'
  OBVIOUS
<1>1. CASE Connected
  <2>1. Handshake("token_login") \in Requests
    BY HandshakeType DEF TypeOK, Handshakes
  <2>2. /\ lastId' \in Ids /\ c2s' \in Seq(Requests)
        /\ reactors' \in [Ids -> Protocols \cup {"none"}]
    BY <1>1, <2>1, TypeSend DEF Connected, Protocols, Handshakes
  <2> QED
    BY <1>1, <2>2 DEF Connected, Untouched, TypeOK, workerVars
<1>2. CASE ConnectFails
  BY <1>2 DEF ConnectFails, Untouched, TypeOK, workerVars
<1>3. CASE OnReadyRead
  BY <1>3, TypeOnReadyRead
<1>4. CASE OnDisconnected \/ OnPartialRead
  BY <1>4, TypeDisconnected DEF OnDisconnected, OnPartialRead, TypeOK
<1>5. CASE Erase
  <2>1. pool' \in Seq(Changes)
    BY <1>5, WithoutFirstType DEF Erase, TypeOK
  <2> QED
    BY <1>5, <2>1 DEF Erase, TypeOK, workerVars, wireVars
<1>6. CASE PushBack
  BY <1>6 DEF PushBack, TypeOK, workerVars, wireVars
<1>7. CASE Stop
  BY <1>7, TypeStop
<1>8. ASSUME NEW p \in Paths, NEW t \in Announced, FileChanged(p, t)
      PROVE  TypeOK'
  BY <1>8, SettingsAssumption
  DEF FileChanged, TypeOK, Changes, workerVars, wireVars
<1>9. ASSUME NEW found \in OnDisk, FileDiff(found)
      PROVE  TypeOK'
  BY <1>9, TypeFileDiff
<1> QED
  BY <1>1, <1>2, <1>3, <1>4, <1>5, <1>6, <1>7, <1>8, <1>9 DEF Main

LEMMA TypeNext == TypeOK /\ [Next]_vars => TypeOK'
<1>1. TypeOK /\ UNCHANGED vars => TypeOK'
  BY DEF TypeOK, vars, workerVars, mainVars, wireVars
<1> QED
  BY <1>1, TypeWorker, TypeMain, TypeServer DEF Next

(* Every variable keeps to its range, for all constants. *)
THEOREM TypeCorrect == Spec => []TypeOK
BY TypeInit, TypeNext, PTL DEF Spec

-----------------------------------------------------------------------------
(* One diff at a time.                                                     *)
(*                                                                         *)
(* OneDiffOutstanding is not inductive: when the monitor starts, the       *)
(* response that starts it must have been the only message under way, and  *)
(* the worker must have found the pool empty until then.  SlotDiscipline   *)
(* says so.  Each lemma below takes one group of actions.                  *)

LEMMA SlotInit == Init => SlotDiscipline
BY DEF Init, SlotDiscipline, InHand

(* The end of the process loses messages and makes none. *)
LEMMA SlotCrash == TypeOK /\ SlotDiscipline /\ (Crash \/ Exit) => SlotDiscipline'
<1> SUFFICES ASSUME TypeOK, SlotDiscipline, Crash \/ Exit
             PROVE  SlotDiscipline'
  OBVIOUS
<1>1. /\ link' = "down" /\ s2c' = <<>>
      /\ UNCHANGED <<busy, pool, posted, worker, main, git, c2s>>
  BY DEF Crash, Exit, workerVars
<1>2. Len(s2c) \in Nat /\ Len(c2s) \in Nat /\ Len(posted) \in Nat /\ Len(s2c') = 0
  BY <1>1 DEF TypeOK
<1> QED
  BY <1>1, <1>2 DEF SlotDiscipline, Outstanding, InHand

LEMMA SlotWorker == TypeOK /\ SlotDiscipline /\ Worker => SlotDiscipline'
<1> SUFFICES ASSUME TypeOK, SlotDiscipline, Worker
             PROVE  SlotDiscipline'
  OBVIOUS
<1> USE DEF SlotDiscipline, Outstanding, InHand, OnlyWorker, mainVars, wireVars
<1>0. Len(s2c) \in Nat /\ Len(c2s) \in Nat /\ Len(posted) \in Nat
  BY DEF TypeOK
<1>1. CASE Run
  BY <1>0, <1>1 DEF Run
<1>2. CASE CheckRunning
  BY <1>0, <1>2 DEF CheckRunning
<1>3. CASE CheckEmpty
  BY <1>0, <1>3 DEF CheckEmpty
<1>4. CASE Claim
  BY <1>0, <1>4 DEF Claim
<1>5. CASE TakeOne
  <2>1. CASE Crash
    BY <2>1, SlotCrash
  <2>2. CASE ~Crash
    <3>1. /\ worker = "take_one" /\ worker' = "emit"
          /\ UNCHANGED <<busy, posted, main, git, link, c2s, s2c>>
      BY <1>5, <2>2 DEF TakeOne
    <3> QED
      BY <1>0, <3>1
  <2> QED
    BY <2>1, <2>2
<1>6. CASE EmitDiff
  <2>1. Len(posted') = Len(posted) + 1
    BY <1>6 DEF EmitDiff, TypeOK
  <2> QED
    BY <1>0, <1>6, <2>1 DEF EmitDiff
<1>7. CASE MisreadPool
  BY <1>7 DEF MisreadPool, Crash, workerVars
<1> QED
  BY <1>1, <1>2, <1>3, <1>4, <1>5, <1>6, <1>7 DEF Worker

LEMMA SlotServer == TypeOK /\ SlotDiscipline /\ Server => SlotDiscipline'
<1> SUFFICES ASSUME TypeOK, SlotDiscipline, Server
             PROVE  SlotDiscipline'
  OBVIOUS
<1> USE DEF SlotDiscipline, Outstanding, InHand, OnlyServer, workerVars, mainVars
<1>0. Len(s2c) \in Nat /\ Len(c2s) \in Nat /\ Len(posted) \in Nat
  BY DEF TypeOK
<1>1. CASE Accept
  BY <1>0, <1>1 DEF Accept
<1>2. CASE ServerClose
  <2>1. Len(c2s') = 0
    BY <1>2 DEF ServerClose
  <2> QED
    BY <1>0, <1>2, <2>1 DEF ServerClose
<1>3. ASSUME NEW code \in Codes, Answer(code)
      PROVE  SlotDiscipline'
  <2>1. c2s # <<>> /\ Len(c2s') = Len(c2s) - 1
    BY <1>3 DEF Answer, TypeOK
  <2>2. Len(s2c') \in Nat /\ Len(s2c') <= Len(s2c) + 1
    <3>1. [id |-> Head(c2s).id, code |-> code] \in Responses
      BY <1>3, <2>1 DEF TypeOK, Requests, Responses
    <3> QED
      BY <1>0, <1>3, <3>1 DEF Answer, TypeOK
  <2>3. UNCHANGED <<busy, pool, posted, worker, main, git, link>>
    BY <1>3 DEF Answer
  <2>4. link # "connecting"
    BY <2>1
  <2> QED
    BY <1>0, <2>1, <2>2, <2>3, <2>4
<1> QED
  BY <1>1, <1>2, <1>3 DEF Server

-----------------------------------------------------------------------------
(* A request that takes the place of a response or of a posted diff.       *)
LEMMA SendLength ==
  ASSUME TypeOK, NEW proto, NEW request \in Requests, Send(proto, request)
  PROVE  Len(c2s') = Len(c2s) + 1
BY DEF Send, TypeOK

LEMMA SlotOnReadyRead == TypeOK /\ SlotDiscipline /\ OnReadyRead => SlotDiscipline'
<1> SUFFICES ASSUME TypeOK, SlotDiscipline, OnReadyRead
             PROVE  SlotDiscipline'
  OBVIOUS
<1> USE DEF SlotDiscipline, Outstanding, InHand
<1>0. Len(s2c) \in Nat /\ Len(c2s) \in Nat /\ Len(posted) \in Nat
  BY DEF TypeOK
<1>1. /\ s2c # <<>> /\ Len(Tail(s2c)) = Len(s2c) - 1 /\ Len(s2c) >= 1
      /\ link = "up"
  BY DEF OnReadyRead, TypeOK
<1>2. CASE Exit
  BY <1>2, SlotCrash
<1>3. CASE LoginReactor /\ ~Exit
  <2>1. Handshake("directory_verification") \in Requests
    BY HandshakeType DEF TypeOK, Handshakes
  <2>2. Len(c2s') = Len(c2s) + 1
    BY <1>3, <2>1, SendLength DEF LoginReactor
  <2>3. s2c' = Tail(s2c) /\ Untouched /\ UNCHANGED <<busy, posted, git, link>>
    BY <1>3 DEF LoginReactor
  <2>4. Len(c2s') + Len(s2c') = Len(c2s) + Len(s2c)
    BY <1>0, <1>1, <2>2, <2>3
  <2>5. UNCHANGED <<busy, pool, posted, worker, main, git, link>>
    BY <2>3 DEF Untouched, workerVars
  <2>6. /\ Len(c2s') \in Nat /\ Len(s2c') \in Nat
        /\ link # "connecting" /\ Len(posted') = Len(posted)
    BY <1>0, <1>1, <2>2, <2>3
  <2> QED
    BY <1>0, <2>4, <2>5, <2>6
<1>4. CASE VerificationReactor(Head(s2c).code) /\ ~Exit
  <2>1. /\ s2c' = Tail(s2c) /\ git' \in {git, "live"} /\ Untouched
        /\ UNCHANGED <<busy, posted, link, c2s>>
    BY <1>4 DEF VerificationReactor
  <2> QED
    BY <1>0, <1>1, <2>1 DEF Untouched, workerVars
<1>5. CASE FileDiffReactor
  <2>1. /\ s2c' = Tail(s2c) /\ busy' = FALSE /\ Untouched
        /\ UNCHANGED <<posted, git, link, c2s>>
    BY <1>5 DEF FileDiffReactor
  <2> QED
    BY <1>0, <1>1, <2>1 DEF Untouched, workerVars
<1> QED
  BY <1>2, <1>3, <1>4, <1>5 DEF OnReadyRead

LEMMA SlotFileDiff ==
  ASSUME TypeOK, SlotDiscipline, NEW found \in OnDisk, FileDiff(found)
  PROVE  SlotDiscipline'
<1> USE DEF SlotDiscipline, Outstanding, InHand
<1>0. Len(s2c) \in Nat /\ Len(c2s) \in Nat /\ Len(posted) \in Nat
  BY DEF TypeOK
<1>1. CASE Crash
  BY <1>1, SlotCrash
<1>2. CASE ~Crash
  <2>1. posted # <<>> /\ posted' = Tail(posted) /\ Untouched
        /\ UNCHANGED <<busy, git, link, s2c>>
    BY <1>2 DEF FileDiff
  <2>2. Len(posted') = Len(posted) - 1
    BY <2>1 DEF TypeOK
  <2>3. Len(c2s') \in Nat /\ Len(c2s') <= Len(c2s) + 1
    <3>1. CASE Send("file_diff", FileDiffRequest(Head(posted), found))
      <4>1. FileDiffRequest(Head(posted), found) \in Requests
        BY <2>1, FileDiffRequestType DEF TypeOK
      <4> QED
        BY <1>0, <3>1, <4>1, SendLength
    <3>2. CASE c2s' = c2s
      BY <1>0, <3>2
    <3> QED
      BY <1>2, <3>1, <3>2 DEF FileDiff
  <2> QED
    BY <1>0, <2>1, <2>2, <2>3 DEF Untouched, workerVars
<1> QED
  BY <1>1, <1>2

(* What ends a connection loses messages and makes none. *)
LEMMA SlotDisconnected ==
  ASSUME TypeOK, SlotDiscipline,
         link' = "down", Len(s2c') \in Nat, Len(s2c') <= Len(s2c),
         git' \in {git, "dangling"}, git' = "null" <=> git = "null",
         UNCHANGED <<busy, pool, posted, worker, main, c2s>>
  PROVE  SlotDiscipline'
<1>0. Len(s2c) \in Nat /\ Len(c2s) \in Nat /\ Len(posted) \in Nat
  BY DEF TypeOK
<1> QED
  BY <1>0 DEF SlotDiscipline, Outstanding, InHand

LEMMA SlotMain == TypeOK /\ SlotDiscipline /\ Main => SlotDiscipline'
<1> SUFFICES ASSUME TypeOK, SlotDiscipline, Main
             PROVE  SlotDiscipline'
  OBVIOUS
<1>0. Len(s2c) \in Nat /\ Len(c2s) \in Nat /\ Len(posted) \in Nat
  BY DEF TypeOK
<1>1. CASE Connected
  <2>1. Handshake("token_login") \in Requests
    BY HandshakeType DEF TypeOK, Handshakes
  <2>2. Len(c2s') = Len(c2s) + 1
    BY <1>1, <2>1, SendLength DEF Connected
  <2>3. /\ link = "connecting" /\ link' = "up" /\ Untouched
        /\ UNCHANGED <<busy, posted, git, s2c>>
    BY <1>1 DEF Connected
  <2>4. Len(c2s) = 0 /\ Len(s2c) = 0
    BY <2>3 DEF SlotDiscipline
  <2> QED
    BY <2>2, <2>3, <2>4 DEF Untouched, workerVars, SlotDiscipline, InHand
<1>2. CASE ConnectFails
  BY <1>2 DEF ConnectFails, Untouched, workerVars, SlotDiscipline, Outstanding, InHand
<1>3. CASE OnReadyRead
  BY <1>3, SlotOnReadyRead
<1>4. CASE Disconnected
  <2>1. /\ link' = "down" /\ s2c' = <<>>
        /\ git' = IF git = "live" THEN "dangling" ELSE git
        /\ UNCHANGED <<busy, pool, posted, worker, main, c2s>>
    BY <1>4 DEF Disconnected, workerVars
  <2>2. Len(s2c') = 0
    BY <2>1
  <2> QED
    BY <1>0, <2>1, <2>2, SlotDisconnected
<1>5. CASE Erase \/ PushBack
  <2>1. main # "loop"
    BY <1>5 DEF Erase, PushBack
  <2>2. UNCHANGED <<busy, posted, worker, git, link, c2s, s2c>>
    BY <1>5 DEF Erase, PushBack, workerVars, wireVars
  <2> QED
    BY <2>1, <2>2 DEF SlotDiscipline, Outstanding, InHand
<1>6. CASE Stop /\ ~Disconnected
  <2>1. CASE Crash
    BY <2>1, SlotCrash
  <2>2. CASE ~Crash
    <3>1. /\ link' = "down" /\ git' = IF git = "live" THEN "dangling" ELSE git
          /\ UNCHANGED <<busy, pool, posted, worker, main, c2s, s2c>>
      BY <1>6, <2>2 DEF Stop, workerVars, wireVars
    <3> QED
      BY <1>0, <3>1, SlotDisconnected
  <2> QED
    BY <2>1, <2>2
<1>7. ASSUME NEW p \in Paths, NEW t \in Announced, FileChanged(p, t)
      PROVE  SlotDiscipline'
  <2>1. git = "live"
        /\ UNCHANGED <<busy, pool, posted, worker, git, link, c2s, s2c>>
    BY <1>7 DEF FileChanged, workerVars, wireVars
  <2> QED
    BY <2>1 DEF SlotDiscipline, Outstanding, InHand
<1>8. ASSUME NEW found \in OnDisk, FileDiff(found)
      PROVE  SlotDiscipline'
  BY <1>8, SlotFileDiff
<1> QED
  BY <1>1, <1>2, <1>3, <1>4, <1>5, <1>6, <1>7, <1>8
  DEF Main, OnDisconnected, OnPartialRead

LEMMA SlotNext == TypeOK /\ SlotDiscipline /\ [Next]_vars => SlotDiscipline'
<1>1. SlotDiscipline /\ UNCHANGED vars => SlotDiscipline'
  BY DEF SlotDiscipline, Outstanding, InHand, vars, workerVars, mainVars, wireVars
<1> QED
  BY <1>1, SlotWorker, SlotMain, SlotServer DEF Next

(* The slot discipline holds throughout. *)
THEOREM SlotDisciplined == Spec => []SlotDiscipline
BY SlotInit, SlotNext, TypeCorrect, PTL DEF Spec

(* The point of queryId: never more than one diff under way, for any paths, *)
(* any number of changes and any choice of failures, the unlocked list's    *)
(* lost updates and stop() included.                                        *)
THEOREM OneDiffAtATime == Spec => []OneDiffOutstanding
<1>1. ASSUME TypeOK, SlotDiscipline
      PROVE  OneDiffOutstanding
  <2>1. Outstanding \in Nat
    BY <1>1 DEF TypeOK, Outstanding, InHand
  <2>2. CASE busy
    BY <1>1, <2>1, <2>2 DEF SlotDiscipline, OneDiffOutstanding
  <2>3. CASE ~busy
    BY <1>1, <2>1, <2>3 DEF SlotDiscipline, OneDiffOutstanding
  <2> QED
    BY <2>2, <2>3
<1> QED
  BY <1>1, TypeCorrect, SlotDisciplined, PTL

-----------------------------------------------------------------------------
(* Responses and their reactors.                                           *)

(* What the requests under way are registered as. *)
AwaitedProtos == IF git = "null" THEN Handshakes ELSE {"file_diff"}

(* ResponsesAreAwaited is not inductive: a response takes the id of its     *)
(* request, so that every request under way needs a reactor of the right    *)
(* kind as well - until the connection is lost, when the reactors are       *)
(* dropped and its answer goes nowhere.                                     *)
AwaitedDiscipline ==
  /\ link # "up" => s2c = <<>>
  /\ \A i \in 1 .. Len(s2c) : reactors[s2c[i].id] \in AwaitedProtos
  /\ link = "up" =>
       \A i \in 1 .. Len(c2s) : reactors[c2s[i].id] \in AwaitedProtos
  /\ health = "exited" => "git" \in Faults

LEMMA AwaitedInit == Init => AwaitedDiscipline
BY DEF Init, AwaitedDiscipline

(* The end of the process, or of the connection, empties s2c. *)
LEMMA AwaitedEnd ==
  ASSUME AwaitedDiscipline, link' = "down", s2c' = <<>>,
         health' = "exited" => "git" \in Faults
  PROVE  AwaitedDiscipline'
BY DEF AwaitedDiscipline

(* A step of the worker, or of insert, touches none of this. *)
LEMMA AwaitedElsewhere ==
  ASSUME AwaitedDiscipline, UNCHANGED <<health, git, link, reactors, c2s, s2c>>
  PROVE  AwaitedDiscipline'
BY DEF AwaitedDiscipline, AwaitedProtos

LEMMA AwaitedWorker == AwaitedDiscipline /\ Worker => AwaitedDiscipline'
<1> SUFFICES ASSUME AwaitedDiscipline, Worker
             PROVE  AwaitedDiscipline'
  OBVIOUS
<1>1. CASE Crash
  BY <1>1, AwaitedEnd DEF Crash
<1>2. CASE ~Crash
  <2>1. UNCHANGED <<health, git, link, reactors, c2s, s2c>>
    BY <1>2 DEF Worker, Run, CheckRunning, CheckEmpty, Claim, TakeOne, EmitDiff,
                MisreadPool, OnlyWorker, mainVars, wireVars
  <2> QED
    BY <2>1, AwaitedElsewhere
<1> QED
  BY <1>1, <1>2

LEMMA AwaitedServer == TypeOK /\ AwaitedDiscipline /\ Server => AwaitedDiscipline'
<1> SUFFICES ASSUME TypeOK, AwaitedDiscipline, Server
             PROVE  AwaitedDiscipline'
  OBVIOUS
<1>0. UNCHANGED <<health, git, link, reactors>>
  BY DEF Server, Accept, ServerClose, Answer, OnlyServer, mainVars
<1>1. CASE Accept
  BY <1>0, <1>1, AwaitedElsewhere DEF Accept
<1>2. CASE ServerClose
  <2>1. s2c' = s2c /\ c2s' = <<>>
    BY <1>2 DEF ServerClose
  <2> QED
    BY <1>0, <2>1 DEF AwaitedDiscipline, AwaitedProtos
<1>3. ASSUME NEW code \in Codes, Answer(code)
      PROVE  AwaitedDiscipline'
  <2> DEFINE response == [id |-> Head(c2s).id, code |-> code]
  <2>1. c2s # <<>> /\ c2s' = Tail(c2s)
    BY <1>3 DEF Answer
  <2>2. s2c' = IF link = "up" THEN Append(s2c, response) ELSE s2c
    BY <1>3 DEF Answer
  <2>3. CASE link # "up"
    BY <1>0, <2>2, <2>3 DEF AwaitedDiscipline, AwaitedProtos
  <2>4. CASE link = "up"
    <3>1. c2s \in Seq(Requests) /\ s2c \in Seq(Responses) /\ response \in Responses
      BY <1>3, <2>1 DEF TypeOK, Requests, Responses
    <3>2. reactors[response.id] \in AwaitedProtos
      <4>1. Len(c2s) >= 1 /\ Head(c2s) = c2s[1]
        BY <2>1, <3>1
      <4> QED
        BY <2>4, <3>1, <4>1 DEF AwaitedDiscipline
    <3>3. \A i \in 1 .. Len(s2c') : reactors[s2c'[i].id] \in AwaitedProtos
      <4>1. s2c' = Append(s2c, response)
        BY <2>2, <2>4
      <4>2. \A i \in 1 .. Len(s2c') : s2c'[i] = response \/ (i \in 1 .. Len(s2c) /\ s2c'[i] = s2c[i])
        BY <3>1, <4>1
      <4> QED
        BY <3>2, <4>2 DEF AwaitedDiscipline
    <3>4. \A i \in 1 .. Len(c2s') : reactors[c2s'[i].id] \in AwaitedProtos
      <4>1. \A i \in 1 .. Len(c2s') : i + 1 \in 1 .. Len(c2s) /\ c2s'[i] = c2s[i + 1]
        BY <2>1, <3>1
      <4> QED
        BY <2>4, <4>1 DEF AwaitedDiscipline
    <3> QED
      BY <1>0, <2>4, <3>3, <3>4 DEF AwaitedDiscipline, AwaitedProtos
  <2> QED
    BY <2>3, <2>4
<1> QED
  BY <1>1, <1>2, <1>3 DEF Server

(* A request is sent: its own reactor is of the right kind, and where its   *)
(* id is in use again, so is the one it replaces.                           *)
LEMMA AwaitedSend ==
  ASSUME TypeOK, AwaitedDiscipline, link = "up",
         NEW proto \in AwaitedProtos, NEW request \in Requests,
         request.id = NextId(lastId), Send(proto, request),
         s2c' \in {s2c, Tail(s2c)}, s2c' # s2c => s2c # <<>>,
         UNCHANGED <<health, git, link>>
  PROVE  AwaitedDiscipline'
<1>1. c2s \in Seq(Requests) /\ s2c \in Seq(Responses)
      /\ reactors \in [Ids -> Protocols \cup {"none"}] /\ NextId(lastId) \in Ids
  BY NextIdType DEF TypeOK
<1>2. reactors' = [reactors EXCEPT ![NextId(lastId)] = proto]
      /\ c2s' = Append(c2s, request)
  BY DEF Send
<1>3. \A id \in Ids : reactors[id] \in AwaitedProtos => reactors'[id] \in AwaitedProtos
  BY <1>1, <1>2
<1>4. \A i \in 1 .. Len(s2c') : reactors'[s2c'[i].id] \in AwaitedProtos
  <2>1. \A i \in 1 .. Len(s2c') : \E j \in 1 .. Len(s2c) : s2c'[i] = s2c[j]
    <3>1. CASE s2c' = s2c
      BY <3>1
    <3>2. CASE s2c' # s2c
      <4>1. s2c' = Tail(s2c) /\ s2c # <<>>
        BY <3>2
      <4>2. \A i \in 1 .. Len(s2c') : i + 1 \in 1 .. Len(s2c) /\ s2c'[i] = s2c[i + 1]
        BY <1>1, <4>1
      <4> QED
        BY <4>2
    <3> QED
      BY <3>1, <3>2
  <2>2. \A j \in 1 .. Len(s2c) : s2c[j].id \in Ids
    <3>1. \A j \in 1 .. Len(s2c) : s2c[j] \in Responses
      BY <1>1
    <3> QED
      BY <3>1 DEF Responses
  <2> QED
    BY <1>3, <2>1, <2>2 DEF AwaitedDiscipline
<1>5. \A i \in 1 .. Len(c2s') : reactors'[c2s'[i].id] \in AwaitedProtos
  <2>1. \A i \in 1 .. Len(c2s') :
          c2s'[i] = request \/ (i \in 1 .. Len(c2s) /\ c2s'[i] = c2s[i])
    BY <1>1, <1>2
  <2>2. \A j \in 1 .. Len(c2s) : c2s[j].id \in Ids
    BY <1>1 DEF Requests
  <2>3. reactors'[request.id] \in AwaitedProtos
    BY <1>1, <1>2
  <2> QED
    BY <1>3, <2>1, <2>2, <2>3 DEF AwaitedDiscipline
<1> QED
  BY <1>4, <1>5 DEF AwaitedDiscipline, AwaitedProtos

LEMMA AwaitedOnReadyRead ==
  TypeOK /\ SlotDiscipline /\ AwaitedDiscipline /\ OnReadyRead => AwaitedDiscipline'
<1> SUFFICES ASSUME TypeOK, SlotDiscipline, AwaitedDiscipline, OnReadyRead
             PROVE  AwaitedDiscipline'
  OBVIOUS
<1> DEFINE kind == reactors[Head(s2c).id]
<1>0. /\ c2s \in Seq(Requests) /\ s2c \in Seq(Responses)
      /\ s2c # <<>> /\ link = "up" /\ health = "ok"
  BY DEF TypeOK, OnReadyRead, AtLoop, Alive
<1>1. kind \in AwaitedProtos
  <2>1. Len(s2c) >= 1 /\ Head(s2c) = s2c[1]
    BY <1>0
  <2> QED
    BY <1>0, <2>1 DEF AwaitedDiscipline
<1>2. kind # "none"
  BY <1>1 DEF AwaitedProtos, Handshakes
<1>3. CASE Exit
  <2>1. "git" \in Faults
    BY <1>2, <1>3, <1>0 DEF OnReadyRead, LoginReactor, VerificationReactor,
                            FileDiffReactor, Exit, Untouched
  <2> QED
    BY <1>3, <2>1, AwaitedEnd DEF Exit
<1>4. CASE kind = "token_login" /\ LoginReactor /\ ~Exit
  <2>1. /\ Send("directory_verification", Handshake("directory_verification"))
        /\ s2c' = Tail(s2c) /\ UNCHANGED <<health, git, link>>
    BY <1>4 DEF LoginReactor, Untouched
  <2>2. "directory_verification" \in AwaitedProtos
    BY <1>1, <1>4 DEF AwaitedProtos, Handshakes
  <2>3. Handshake("directory_verification") \in Requests
    BY HandshakeType DEF TypeOK, Handshakes
  <2>4. Handshake("directory_verification").id = NextId(lastId)
    BY DEF Handshake
  <2> QED
    BY <1>0, <2>1, <2>2, <2>3, <2>4, AwaitedSend
<1>5. CASE kind = "directory_verification" /\ VerificationReactor(Head(s2c).code) /\ ~Exit
  <2>1. git = "null"
    BY <1>1, <1>5 DEF AwaitedProtos
  <2>2. s2c' = Tail(s2c) /\ UNCHANGED <<health, link, reactors, c2s>>
    BY <1>5 DEF VerificationReactor, Untouched
  <2>3. Len(c2s) = 0 /\ Len(s2c) = 1
    <3>1. Len(c2s) \in Nat /\ Len(s2c) \in Nat /\ Len(s2c) # 0
      BY <1>0
    <3>2. Len(c2s) + Len(s2c) <= 1
      BY <2>1 DEF SlotDiscipline
    <3> QED
      BY <3>1, <3>2
  <2>4. Len(c2s') = 0 /\ Len(s2c') = 0 /\ s2c' = <<>>
    BY <1>0, <2>2, <2>3
  <2> QED
    <3>1. 1 .. Len(c2s') = {} /\ 1 .. Len(s2c') = {}
      BY <2>4
    <3>2. link' = "up" /\ health' = "ok"
      BY <1>0, <2>2
    <3> QED
      BY <3>1, <3>2 DEF AwaitedDiscipline
<1>6. CASE kind = "file_diff" /\ FileDiffReactor
  <2>1. s2c' = Tail(s2c) /\ UNCHANGED <<health, git, link, reactors, c2s>>
    BY <1>6 DEF FileDiffReactor, Untouched
  <2>2. \A i \in 1 .. Len(s2c') : i + 1 \in 1 .. Len(s2c) /\ s2c'[i] = s2c[i + 1]
    BY <1>0, <2>1
  <2> QED
    BY <1>0, <2>1, <2>2 DEF AwaitedDiscipline, AwaitedProtos
<1> QED
  BY <1>2, <1>3, <1>4, <1>5, <1>6 DEF OnReadyRead

LEMMA AwaitedFileDiff ==
  ASSUME TypeOK, SlotDiscipline, AwaitedDiscipline,
         NEW found \in OnDisk, FileDiff(found)
  PROVE  AwaitedDiscipline'
<1> DEFINE request == FileDiffRequest(Head(posted), found)
<1>1. CASE Crash
  BY <1>1, AwaitedEnd DEF Crash
<1>2. CASE ~Crash /\ ~Send("file_diff", request)
  BY <1>2, AwaitedElsewhere DEF FileDiff, Untouched
<1>3. CASE ~Crash /\ Send("file_diff", request)
  <2>1. posted # <<>> /\ UNCHANGED <<health, git, link, s2c>>
    BY <1>3 DEF FileDiff, Untouched
  <2>2. git # "null"
    BY <2>1 DEF SlotDiscipline
  <2>3. request \in Requests
    BY <2>1, FileDiffRequestType DEF TypeOK
  <2>4. request.id = NextId(lastId) /\ "file_diff" \in AwaitedProtos
    BY <2>2 DEF FileDiffRequest, AwaitedProtos
  <2>5. CASE link = "up"
    BY <1>3, <2>1, <2>3, <2>4, <2>5, AwaitedSend
  <2>6. CASE link # "up"
    BY <2>1, <2>6 DEF AwaitedDiscipline
  <2> QED
    BY <2>5, <2>6
<1> QED
  BY <1>1, <1>2, <1>3

LEMMA AwaitedMain ==
  TypeOK /\ SlotDiscipline /\ AwaitedDiscipline /\ Main => AwaitedDiscipline'
<1> SUFFICES ASSUME TypeOK, SlotDiscipline, AwaitedDiscipline, Main
             PROVE  AwaitedDiscipline'
  OBVIOUS
<1>1. CASE Connected
  <2> DEFINE request == Handshake("token_login")
  <2>1. /\ link = "connecting" /\ link' = "up" /\ UNCHANGED <<health, git, s2c>>
        /\ Send("token_login", request)
    BY <1>1 DEF Connected, Untouched
  <2>2. git = "null" /\ c2s = <<>> /\ s2c = <<>>
    BY <2>1 DEF SlotDiscipline
  <2>3. c2s' = <<request>> /\ reactors'[request.id] = "token_login"
    BY <2>1, <2>2, NextIdType DEF Send, TypeOK, Handshake
  <2> QED
    BY <2>1, <2>2, <2>3 DEF AwaitedDiscipline, AwaitedProtos, Handshakes
<1>2. CASE ConnectFails
  <2>1. link # "up" /\ link' = "down" /\ UNCHANGED <<health, s2c>>
    BY <1>2 DEF ConnectFails, Untouched
  <2> QED
    BY <2>1 DEF AwaitedDiscipline
<1>3. CASE OnReadyRead
  BY <1>3, AwaitedOnReadyRead
<1>4. CASE Disconnected
  <2>1. link' = "down" /\ s2c' = <<>> /\ health' = health
    BY <1>4 DEF Disconnected
  <2> QED
    BY <2>1, AwaitedEnd DEF AwaitedDiscipline
<1>5. CASE Erase \/ PushBack
  BY <1>5, AwaitedElsewhere DEF Erase, PushBack, wireVars
<1>6. CASE Stop /\ ~Disconnected
  <2>1. CASE Crash
    BY <2>1, AwaitedEnd DEF Crash
  <2>2. CASE ~Crash
    <3>1. link # "up" /\ link' = "down" /\ UNCHANGED <<health, s2c>>
      BY <1>6, <2>2 DEF Stop, wireVars
    <3> QED
      BY <3>1 DEF AwaitedDiscipline
  <2> QED
    BY <2>1, <2>2
<1>7. ASSUME NEW p \in Paths, NEW t \in Announced, FileChanged(p, t)
      PROVE  AwaitedDiscipline'
  BY <1>7, AwaitedElsewhere DEF FileChanged, wireVars
<1>8. ASSUME NEW found \in OnDisk, FileDiff(found)
      PROVE  AwaitedDiscipline'
  BY <1>8, AwaitedFileDiff
<1> QED
  BY <1>1, <1>2, <1>3, <1>4, <1>5, <1>6, <1>7, <1>8
  DEF Main, OnDisconnected, OnPartialRead

LEMMA AwaitedNext ==
  TypeOK /\ SlotDiscipline /\ AwaitedDiscipline /\ [Next]_vars => AwaitedDiscipline'
<1>1. AwaitedDiscipline /\ UNCHANGED vars => AwaitedDiscipline'
  BY AwaitedElsewhere DEF vars, mainVars, wireVars
<1> QED
  BY <1>1, AwaitedWorker, AwaitedMain, AwaitedServer DEF Next

(* Every request under way has a reactor of the kind its answer needs. *)
THEOREM AwaitedDisciplined == Spec => []AwaitedDiscipline
BY AwaitedInit, AwaitedNext, TypeCorrect, SlotDisciplined, PTL DEF Spec

(* Whatever is lost, however often the ids wrap around and whenever stop()  *)
(* is called: no answer reaches exit(31), and none of a file_diff the       *)
(* reactor of a handshake (Client.cpp:191-197).                             *)
THEOREM EveryResponseIsAwaited == Spec => []ResponsesAreAwaited
<1>1. AwaitedDiscipline => ResponsesAreAwaited
  BY DEF AwaitedDiscipline, AwaitedProtos, ResponsesAreAwaited
<1> QED
  BY <1>1, AwaitedDisciplined, PTL

-----------------------------------------------------------------------------
(* Where the client crashes, when nobody calls stop() and the list is not  *)
(* corrupted.                                                              *)

(* What the worker has seen in the pool stays there for takeFirst, unless   *)
(* an insert has just erased it and not pushed its own entry yet; and the   *)
(* socket is there while the monitor runs or the connection lasts.          *)
HandOver ==
  /\ main = "erase" => arg.type = "removed"
  /\ worker \in {"claim", "take_one"} /\ pool = <<>> =>
       main = "push_back" /\ arg.type = "removed"
  /\ git = "live" => sock
  /\ link # "down" => sock

LEMMA HandOverInit == Init => HandOver
BY DEF Init, HandOver

LEMMA HandOverEnd == HandOver /\ (Crash \/ Exit) => HandOver'
BY DEF HandOver, Crash, Exit, workerVars

LEMMA HandOverWorker == TypeOK /\ HandOver /\ Worker => HandOver'
<1> SUFFICES ASSUME TypeOK, HandOver, Worker
             PROVE  HandOver'
  OBVIOUS
<1> USE DEF HandOver, OnlyWorker, mainVars, wireVars
<1>1. CASE Run
  BY <1>1 DEF Run
<1>2. CASE CheckRunning
  BY <1>2 DEF CheckRunning
<1>3. CASE CheckEmpty
  BY <1>3 DEF CheckEmpty
<1>4. CASE Claim
  BY <1>4 DEF Claim
<1>5. CASE TakeOne
  BY <1>5, HandOverEnd DEF TakeOne
<1>6. CASE EmitDiff
  BY <1>6 DEF EmitDiff
<1>7. CASE MisreadPool
  BY <1>7, HandOverEnd DEF MisreadPool
<1> QED
  BY <1>1, <1>2, <1>3, <1>4, <1>5, <1>6, <1>7 DEF Worker

LEMMA HandOverMain ==
  TypeOK /\ AwaitedDiscipline /\ HandOver /\ Main => HandOver'
<1> SUFFICES ASSUME TypeOK, AwaitedDiscipline, HandOver, Main
             PROVE  HandOver'
  OBVIOUS
<1> USE DEF HandOver, workerVars, wireVars
<1>1. CASE Connected \/ ConnectFails
  BY <1>1 DEF Connected, ConnectFails, Untouched
<1>2. CASE OnReadyRead
  <2>1. CASE Exit
    BY <2>1, HandOverEnd
  <2>2. CASE ~Exit
    <3>1. sock
      BY <1>2 DEF OnReadyRead
    <3>2. UNCHANGED <<main, arg, worker, pool, link, sock>>
      BY <1>2, <2>2 DEF OnReadyRead, LoginReactor, VerificationReactor,
                        FileDiffReactor, Untouched
    <3> QED
      BY <3>1, <3>2
  <2> QED
    BY <2>1, <2>2
<1>3. CASE Disconnected
  BY <1>3 DEF Disconnected
<1>4. CASE Erase
  <2>1. main' = "push_back" /\ main = "erase"
        /\ UNCHANGED <<worker, arg, git, sock, link>>
    BY <1>4 DEF Erase
  <2> QED
    BY <2>1
<1>5. CASE PushBack
  <2>1. pool' # <<>> /\ main' = "loop" /\ UNCHANGED <<git, sock, link>>
    <3>1. pool' = Append(pool, arg)
      BY <1>5 DEF PushBack
    <3>2. pool' # <<>>
      BY <3>1 DEF TypeOK
    <3> QED
      BY <1>5, <3>2 DEF PushBack
  <2> QED
    BY <2>1
<1>6. CASE Stop /\ ~Disconnected
  BY <1>6, HandOverEnd DEF Stop
<1>7. ASSUME NEW p \in Paths, NEW t \in Announced, FileChanged(p, t)
      PROVE  HandOver'
  BY <1>7 DEF FileChanged, AtLoop
<1>8. ASSUME NEW found \in OnDisk, FileDiff(found)
      PROVE  HandOver'
  BY <1>8, HandOverEnd DEF FileDiff, Untouched
<1> QED
  BY <1>1, <1>2, <1>3, <1>4, <1>5, <1>6, <1>7, <1>8
  DEF Main, OnDisconnected, OnPartialRead

LEMMA HandOverNext ==
  TypeOK /\ AwaitedDiscipline /\ HandOver /\ [Next]_vars => HandOver'
<1>1. HandOver /\ (UNCHANGED vars \/ Server) => HandOver'
  BY DEF HandOver, vars, workerVars, mainVars, wireVars, Server, Accept,
         ServerClose, Answer, OnlyServer
<1> QED
  BY <1>1, HandOverWorker, HandOverMain DEF Next

(* What the worker has seen is there to take, and the socket to write to. *)
THEOREM HandedOver == Spec => []HandOver
BY HandOverInit, HandOverNext, TypeCorrect, AwaitedDisciplined, PTL DEF Spec

(* A step that does not end in undefined behaviour makes no new crash, and  *)
(* after a crash only the server moves.                                     *)
LEMMA CrashesSafe ==
  ASSUME CrashesOnlyAtRaces,
         health' = "crashed" =>
           /\ health = "crashed"
           /\ UNCHANGED <<git, posted, worker, pool, main, arg>>
  PROVE  CrashesOnlyAtRaces'
BY DEF CrashesOnlyAtRaces

LEMMA CrashesNext ==
  ASSUME MaxStops = 0, "race" \notin Faults,
         TypeOK, SlotDiscipline, HandOver, CrashesOnlyAtRaces, [Next]_vars
  PROVE  CrashesOnlyAtRaces'
<1>0. ~ Stop
  BY DEF Stop, TypeOK
<1>1. CASE TakeOne /\ Crash
  <2>1. worker = "take_one" /\ pool = <<>>
    BY <1>1 DEF TakeOne, Crash, Alive
  <2>2. UNCHANGED <<git, posted, worker, pool, main, arg>>
    BY <1>1 DEF Crash, workerVars
  <2> QED
    BY <2>1, <2>2 DEF HandOver, CrashesOnlyAtRaces
<1>2. ASSUME NEW found \in OnDisk, FileDiff(found), Crash
      PROVE  CrashesOnlyAtRaces'
  <2>1. posted # <<>> /\ ~sock
    BY <1>2 DEF FileDiff, Crash, Untouched, AtLoop, Alive
  <2>2. git = "dangling"
    BY <2>1 DEF TypeOK, SlotDiscipline, HandOver
  <2>3. UNCHANGED <<git, posted>>
    BY <1>2 DEF Crash
  <2> QED
    BY <2>1, <2>2, <2>3 DEF CrashesOnlyAtRaces
<1>3. CASE Worker /\ ~(TakeOne /\ Crash)
  BY <1>3, CrashesSafe
  DEF Worker, Run, CheckRunning, CheckEmpty, Claim, TakeOne, EmitDiff, MisreadPool,
      OnlyWorker, Alive
<1>4. CASE Server \/ UNCHANGED vars
  BY <1>4, CrashesSafe
  DEF vars, Server, Accept, ServerClose, Answer, OnlyServer, workerVars, mainVars
<1>5. ASSUME Main, ~ \E found \in OnDisk : FileDiff(found) /\ Crash
      PROVE  CrashesOnlyAtRaces'
  <2>1. health' # "crashed"
    BY <1>0, <1>5
    DEF Main, Connected, ConnectFails, OnReadyRead, LoginReactor, VerificationReactor,
        FileDiffReactor, Exit, OnDisconnected, OnPartialRead, Disconnected, Erase,
        PushBack, FileChanged, FileDiff, Untouched, AtLoop, Alive
  <2> QED
    BY <2>1, CrashesSafe
<1> QED
  BY <1>1, <1>2, <1>3, <1>4, <1>5 DEF Next

(* Without stop() and without a corrupted list, undefined behaviour needs   *)
(* one of the two races at the boundary of the threads, however many paths, *)
(* entries and lost connections there are                                   *)
(* (ControlClient.cpp:28-59, 97-101, 149-157, Client.cpp:41-44).            *)
THEOREM CrashesNeedARace ==
  ASSUME MaxStops = 0, "race" \notin Faults
  PROVE  Spec => []CrashesOnlyAtRaces
<1>1. Init => CrashesOnlyAtRaces
  BY DEF Init, CrashesOnlyAtRaces
<1>2. TypeOK /\ SlotDiscipline /\ HandOver /\ CrashesOnlyAtRaces /\ [Next]_vars
        => CrashesOnlyAtRaces'
  BY CrashesNext
<1> QED
  BY <1>1, <1>2, TypeCorrect, SlotDisciplined, HandedOver, PTL DEF Spec

-----------------------------------------------------------------------------
(* ControlClient implements SyncPump.                                      *)

(* A change that is being synchronised is not NoChange. *)
LEMMA ChangeIsAChange == \A change \in Changes : change # NoChange
BY DEF Changes, ChangeTypes, NoChange

(* What erase leaves of the pool is what the pump allows. *)
LEMMA WithoutFirstSupersedes ==
  ASSUME NEW q \in Seq(Changes), NEW p
  PROVE  Pump!IsSuperseded(q, p, WithoutFirst(q, p))
<1>1. CASE IndicesOf(q, p) = {}
  BY <1>1 DEF WithoutFirst, IndicesOf, Pump!IsSuperseded
<1>2. CASE IndicesOf(q, p) # {}
  <2> DEFINE i == CHOOSE j \in IndicesOf(q, p) :
                    \A k \in IndicesOf(q, p) : j <= k
  <2>1. i \in IndicesOf(q, p) /\ \A k \in IndicesOf(q, p) : i <= k
    <3>1. IndicesOf(q, p) \subseteq Nat
      BY DEF IndicesOf
    <3>2. \E j \in IndicesOf(q, p) : \A k \in IndicesOf(q, p) : j <= k
      BY <3>1, <1>2, LeastNatural
    <3> QED
      BY <3>2
  <2>2. WithoutFirst(q, p) = SubSeq(q, 1, i - 1) \o SubSeq(q, i + 1, Len(q))
    BY <1>2 DEF WithoutFirst
  <2> HIDE DEF i
  <2>3. i \in 1 .. Len(q) /\ q[i].path = p
    BY <2>1 DEF IndicesOf
  <2>4. \A j \in 1 .. (i - 1) : q[j].path # p
    <3>1. ASSUME NEW j \in 1 .. (i - 1), q[j].path = p
          PROVE  FALSE
      <4>1. j \in IndicesOf(q, p) /\ ~(i <= j)
        BY <2>3, <3>1 DEF IndicesOf
      <4> QED
        BY <2>1, <4>1
    <3> QED
      BY <3>1
  <2> QED
    BY <2>2, <2>3, <2>4 DEF Pump!IsSuperseded
<1> QED
  BY <1>1, <1>2

(* An append to the queue is an announcement, when what was there before is *)
(* the queue, or the queue superseded by a removal.                         *)
LEMMA AppendAnnounces ==
  ASSUME NEW change \in Changes, NEW rest \in Seq(Changes),
         Queue' = Append(rest, change), Current' = Current,
         IF change.type = "removed" THEN Pump!IsSuperseded(Queue, change.path, rest)
                                    ELSE rest = Queue
  PROVE  Pump!Next
<1>1. /\ Len(Queue') = Len(rest) + 1 /\ Len(rest) \in Nat
      /\ Queue'[Len(Queue')] = change
      /\ SubSeq(Queue', 1, Len(Queue') - 1) = rest
  BY AppendProperties
<1>2. Len(Queue') > 0 /\ Queue'[Len(Queue')] = change
  BY <1>1
<1>3. Pump!Announce(change)
  <2> DEFINE r == SubSeq(Queue', 1, Len(Queue') - 1)
  <2>1. IF change.type = "removed" THEN Pump!IsSuperseded(Queue, change.path, r)
        ELSE r = Queue
    BY <1>1, Zenon
  <2> HIDE DEF r
  <2> QED
    BY <1>2, <2>1 DEF Pump!Announce, r
<1> QED
  BY <1>3 DEF Pump!Next

(* A worker that holds a change holds the slot. *)
LEMMA HeldSlot == TypeOK /\ SlotDiscipline /\ worker \in {"take_one", "emit"} => busy
<1> SUFFICES ASSUME TypeOK, SlotDiscipline, worker \in {"take_one", "emit"}, ~busy
             PROVE  FALSE
  OBVIOUS
<1>1. Len(s2c) \in Nat /\ Len(c2s) \in Nat /\ Len(posted) \in Nat
  BY DEF TypeOK
<1>2. InHand = 1
  BY DEF InHand
<1>3. git # "null" /\ Outstanding <= 0
  BY <1>2 DEF SlotDiscipline
<1> QED
  BY <1>1, <1>2, <1>3 DEF Outstanding

(* The variables the pump looks at. *)
PumpUnseen == UNCHANGED <<busy, worker, pair, pool, main, arg>>

LEMMA UnseenStutters == PumpUnseen => UNCHANGED Pump!pump
BY DEF PumpUnseen, Pump!pump, Queue, Current

LEMMA PumpWorker ==
  ASSUME "race" \notin Faults, TypeOK, SlotDiscipline, Worker
  PROVE  [Pump!Next]_(Pump!pump)
<1>1. CASE Run
  <2>1. UNCHANGED <<pool, main, arg>> /\ worker = "begin" /\ busy' = FALSE
    BY <1>1 DEF Run, OnlyWorker, mainVars
  <2> QED
    BY <2>1 DEF Pump!pump, Queue, Current
<1>2. CASE CheckRunning \/ CheckEmpty \/ EmitDiff
  <2>1. /\ UNCHANGED <<busy, pair, pool, main, arg>>
        /\ worker \notin {"begin", "take_one"} /\ worker' \notin {"begin", "take_one"}
    BY <1>2 DEF CheckRunning, CheckEmpty, EmitDiff, OnlyWorker, mainVars
  <2> QED
    BY <2>1 DEF Pump!pump, Queue, Current
<1>3. CASE Claim
  <2>1. /\ UNCHANGED <<pair, pool, main, arg>> /\ worker = "claim"
        /\ busy' = TRUE /\ worker' = IF busy THEN "forever" ELSE "take_one"
    BY <1>3 DEF Claim, OnlyWorker, mainVars
  <2> QED
    BY <2>1 DEF Pump!pump, Queue, Current
<1>4. CASE TakeOne /\ Crash
  BY <1>4, UnseenStutters DEF Crash, PumpUnseen, workerVars
<1>5. CASE TakeOne /\ ~Crash
  <2>1. /\ worker = "take_one" /\ worker' = "emit" /\ UNCHANGED <<busy, main, arg>>
        /\ pool # <<>> /\ pair' = Head(pool) /\ pool' = Tail(pool)
    BY <1>5 DEF TakeOne, mainVars
  <2>2. busy
    BY <2>1, HeldSlot
  <2>3. Current = NoChange /\ Current' = Head(pool)
    BY <2>1, <2>2 DEF Current
  <2>4. Queue # <<>> /\ Head(Queue) = Head(pool) /\ Queue' = Tail(Queue)
    <3>1. CASE main = "push_back" /\ arg.type = "removed"
      <4>1. Queue = Append(pool, arg) /\ Queue' = Append(Tail(pool), arg)
        BY <2>1, <3>1 DEF Queue
      <4>2. pool \in Seq(Changes) /\ arg \in Changes
        BY DEF TypeOK
      <4>3. /\ Append(pool, arg) # <<>> /\ Head(Append(pool, arg)) = Head(pool)
            /\ Tail(Append(pool, arg)) = Append(Tail(pool), arg)
        BY <2>1, <4>2, HeadTailAppend
      <4> QED
        BY <4>1, <4>3
    <3>2. CASE ~(main = "push_back" /\ arg.type = "removed")
      BY <2>1, <3>2 DEF Queue
    <3> QED
      BY <3>1, <3>2
  <2> QED
    BY <2>3, <2>4 DEF Pump!Next, Pump!Begin
<1> QED
  BY <1>1, <1>2, <1>3, <1>4, <1>5 DEF Worker, MisreadPool

LEMMA PumpMain ==
  ASSUME TypeOK, TypeOK', HandOver, Main
  PROVE  [Pump!Next]_(Pump!pump)
<1> USE DEF workerVars
<1>0. pool \in Seq(Changes) /\ arg \in Changes
  BY DEF TypeOK
<1>1. CASE Connected \/ ConnectFails
  BY <1>1, UnseenStutters DEF Connected, ConnectFails, Untouched, PumpUnseen
<1>2. CASE OnReadyRead /\ FileDiffReactor
  <2>1. UNCHANGED <<worker, pair, pool, main, arg>> /\ busy' = FALSE
    BY <1>2 DEF FileDiffReactor, Untouched
  <2>2. Current' = NoChange /\ Queue' = Queue
    BY <2>1 DEF Current, Queue
  <2> QED
    BY <2>2 DEF Pump!Next, Pump!Finish, Pump!pump
<1>3. CASE OnReadyRead /\ ~FileDiffReactor
  BY <1>3, UnseenStutters
  DEF OnReadyRead, LoginReactor, VerificationReactor, Exit, Untouched, PumpUnseen
<1>4. CASE Disconnected \/ Stop
  BY <1>4, UnseenStutters DEF Disconnected, Stop, Crash, PumpUnseen
<1>5. CASE Erase
  <2> DEFINE rest == WithoutFirst(pool, arg.path)
  <2>1. /\ main = "erase" /\ main' = "push_back" /\ pool' = rest
        /\ UNCHANGED <<busy, worker, pair, arg>> /\ arg.type = "removed"
    BY <1>5 DEF Erase, HandOver
  <2>2. Queue = pool /\ Queue' = Append(rest, arg) /\ Current' = Current
    BY <2>1 DEF Queue, Current
  <2>3. rest \in Seq(Changes) /\ Pump!IsSuperseded(Queue, arg.path, rest)
    BY <1>0, <2>2, WithoutFirstType, WithoutFirstSupersedes
  <2> HIDE DEF rest
  <2>4. Pump!Next
    BY <1>0, <2>1, <2>2, <2>3, AppendAnnounces
  <2> QED
    BY <2>4
<1>6. CASE PushBack
  <2>1. /\ main = "push_back" /\ main' = "loop" /\ pool' = Append(pool, arg)
        /\ UNCHANGED <<busy, worker, pair, arg>>
    BY <1>6 DEF PushBack
  <2>2. Queue' = Append(pool, arg) /\ Current' = Current
    BY <2>1 DEF Queue, Current
  <2>3. CASE arg.type = "removed"
    BY <2>1, <2>2, <2>3 DEF Queue, Pump!pump
  <2>4. CASE arg.type # "removed"
    <3>1. Queue = pool
      BY <2>4 DEF Queue
    <3> QED
      BY <1>0, <2>2, <2>4, <3>1, AppendAnnounces
  <2> QED
    BY <2>3, <2>4
<1>7. ASSUME NEW p \in Paths, NEW t \in Announced, FileChanged(p, t)
      PROVE  UNCHANGED Pump!pump
  <2>1. /\ main = "loop" /\ main' = (IF t = "removed" THEN "erase" ELSE "push_back")
        /\ arg'.type = t /\ UNCHANGED <<busy, worker, pair, pool>>
    BY <1>7 DEF FileChanged, AtLoop
  <2> QED
    BY <2>1 DEF Pump!pump, Queue, Current
<1>8. ASSUME NEW found \in OnDisk, FileDiff(found)
      PROVE  UNCHANGED Pump!pump
  BY <1>8, UnseenStutters DEF FileDiff, Crash, Untouched, PumpUnseen
<1> QED
  BY <1>1, <1>2, <1>3, <1>4, <1>5, <1>6, <1>7, <1>8
  DEF Main, OnDisconnected, OnPartialRead

LEMMA PumpStep ==
  ASSUME "race" \notin Faults, TypeOK, TypeOK', SlotDiscipline, HandOver, [Next]_vars
  PROVE  [Pump!Next]_(Pump!pump)
<1>1. CASE Server \/ UNCHANGED vars
  BY <1>1, UnseenStutters
  DEF vars, Server, Accept, ServerClose, Answer, OnlyServer, workerVars, mainVars, PumpUnseen
<1> QED
  BY <1>1, PumpWorker, PumpMain DEF Next

LEMMA PumpInit == Init => Pump!Init
BY DEF Init, Pump!Init, Queue, Current

(* ControlClient implements SyncPump whatever fails, stop() included, as    *)
(* long as the unlocked list is not corrupted: changes are begun in the     *)
(* order of their announcement, one after the other has been answered, and  *)
(* none is skipped or begun twice (ControlClient.cpp:28-59, 146-182).       *)
THEOREM ClientImplementsPump ==
  ASSUME "race" \notin Faults
  PROVE  Spec => PumpSafely
<1>1. TypeOK /\ TypeOK' /\ SlotDiscipline /\ HandOver /\ [Next]_vars
        => [Pump!Next]_(Pump!pump)
  BY PumpStep
<1> QED
  BY <1>1, PumpInit, TypeCorrect, SlotDisciplined, HandedOver, PTL
  DEF Spec, PumpSafely, Pump!Spec
=============================================================================
