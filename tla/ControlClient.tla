--------------------------- MODULE ControlClient ---------------------------
(***************************************************************************)
(* The C++ client: class ControlClient (control/ControlClient.cpp), the    *)
(* Client it owns (client/Client.cpp) and the start/stop of its            *)
(* FileMonitor.                                                            *)
(*                                                                         *)
(* Two threads share the object.  The main thread runs the Qt event loop:  *)
(* socket events, the signal of the file monitor and the queued signal     *)
(* diff.  The worker (QThread::run) moves changes, one at a time, from the *)
(* pool to the event loop: it claims the single slot queryId, takes an     *)
(* entry and posts diff; the slot is released when the response to that    *)
(* diff has been read.                                                     *)
(*                                                                         *)
(* The server is open here: it may answer each request with any code, and  *)
(* close.  VidSession composes this module with the real server.           *)
(***************************************************************************)
EXTENDS VidProtocol

CONSTANTS
  Strict,        \* the setting local/strict
  OnDisk,        \* the states a changed file may be found in
  Announced,     \* the change types the file monitor announces
  MaxPool,       \* bound: entries of the pool
  MaxStops,      \* bound: calls of the slot stop()
  Faults         \* which of FaultKinds the environment may cause

FaultKinds == {
  "refused",      \* the TCP connection is not established
  "drop",         \* the connection is lost at any time
  "partialRead",  \* readyRead fires before the whole frame has arrived
  "git",          \* the watched directory or its repository cannot be opened
  "serverClose",  \* the server's handler raises and the session ends
  "race"}         \* an access to the unlocked QList loses an update or crashes

ASSUME BoundsAssumption == MaxPool \in Nat /\ MaxStops \in Nat
ASSUME SettingsAssumption ==
  /\ Strict \in BOOLEAN /\ Faults \subseteq FaultKinds
  /\ OnDisk \subseteq FileStates /\ Announced \subseteq ChangeTypes

VARIABLES
  health,     \* "ok", "exited" by exit(), or "crashed" by undefined behaviour
  \* shared by the two threads
  isRunning,  \* data->isRunning
  busy,       \* data->queryId = BUSYING
  pool,       \* data->pool.data
  posted,     \* diff signals in the event queue of the main thread
  \* the worker thread
  worker,     \* where run() is
  pair,       \* its local variable, the change it has taken
  \* the main thread
  main,       \* "loop", or inside FilePathPool::insert
  arg,        \* the entry being inserted
  git,        \* FileMonitor's data->git: "null", "live" or "dangling"
  client,     \* ControlClient's client # nullptr
  sock,       \* Client's sock # nullptr
  link,       \* the TCP connection as the socket sees it
  reactors,   \* Client's requestReact
  lastId,     \* Client's queryId
  stops,      \* how often stop() has been called
  \* the connection and the far end
  c2s,        \* requests sent and not handled
  s2c,        \* responses sent and not read
  session     \* the server's handler: "waiting", "serving" or "closed"

workerVars == <<worker, pair>>
mainVars   == <<main, arg, git, client, sock, link, reactors, lastId, stops>>
wireVars   == <<c2s, s2c, session>>
vars == <<health, isRunning, busy, pool, posted, workerVars, mainVars, wireVars>>

-----------------------------------------------------------------------------
(* isRunning, queryId and Client::queryId are atomics without a value until *)
(* they are assigned (ControlClientPrivate, Client.h:48).                   *)
NoReactors == [id \in Ids |-> "none"]

Init ==
  /\ health = "ok"
  /\ isRunning \in BOOLEAN /\ busy \in BOOLEAN
  /\ pool = <<>> /\ posted = <<>>
  /\ worker = "begin" /\ pair \in Changes
  /\ main = "loop" /\ arg = pair
  /\ git = "null" /\ client = TRUE /\ sock = TRUE /\ link = "connecting"
  /\ reactors = NoReactors /\ lastId \in Ids /\ stops = 0
  /\ c2s = <<>> /\ s2c = <<>> /\ session = "waiting"

Alive == health = "ok"
AtLoop == Alive /\ main = "loop"

(* exit(): the process ends and the kernel closes the connection. *)
Exit ==
  /\ health' = "exited" /\ link' = "down" /\ s2c' = <<>>
  /\ UNCHANGED <<isRunning, busy, pool, posted, workerVars, main, arg, git,
                 client, sock, reactors, lastId, stops, c2s, session>>

(* A null or dangling pointer is used, or a list is read past its end. *)
Crash ==
  /\ health' = "crashed" /\ link' = "down" /\ s2c' = <<>>
  /\ UNCHANGED <<isRunning, busy, pool, posted, workerVars, main, arg, git,
                 client, sock, reactors, lastId, stops, c2s, session>>

-----------------------------------------------------------------------------
(* The worker thread, ControlClient::run.                                  *)

OnlyWorker(next) ==
  /\ worker' = next
  /\ UNCHANGED <<health, pair, mainVars, wireVars>>

Run ==
  /\ Alive /\ worker = "begin"
  /\ isRunning' = TRUE /\ busy' = FALSE
  /\ OnlyWorker("forever") /\ UNCHANGED <<pool, posted>>

CheckRunning ==
  /\ Alive /\ worker = "forever"
  /\ OnlyWorker(IF isRunning THEN "isEmpty" ELSE "quit")
  /\ UNCHANGED <<isRunning, busy, pool, posted>>

(* BUG: run() does not look whether there is anything to take. *)
CheckNothing ==
  /\ Alive /\ worker = "isEmpty"
  /\ OnlyWorker("claim")
  /\ UNCHANGED <<isRunning, busy, pool, posted>>

CheckEmpty ==
  /\ Alive /\ worker = "isEmpty"
  /\ OnlyWorker(IF pool = <<>> THEN "forever" ELSE "claim")
  /\ UNCHANGED <<isRunning, busy, pool, posted>>

(* BUG: the test of queryId is left out. *)
ClaimUnconditionally ==
  /\ Alive /\ worker = "claim"
  /\ OnlyWorker("take_one") /\ busy' = TRUE
  /\ UNCHANGED <<isRunning, pool, posted>>

(* The test and the assignment of queryId are one step: no other thread    *)
(* ever makes it BUSYING.                                                  *)
Claim ==
  /\ Alive /\ worker = "claim"
  /\ OnlyWorker(IF busy THEN "forever" ELSE "take_one") /\ busy' = TRUE
  /\ UNCHANGED <<isRunning, pool, posted>>

(* BUG: the newest change is taken first. *)
TakeNewest ==
  /\ Alive /\ worker = "take_one" /\ pool # <<>>
  /\ pair' = pool[Len(pool)] /\ pool' = SubSeq(pool, 1, Len(pool) - 1)
  /\ worker' = "emit"
  /\ UNCHANGED <<health, isRunning, busy, posted, mainVars, wireVars>>

(* FilePathPool::lock is only ever released, so an insert of the main      *)
(* thread may be under way: then the unsynchronised QList operations can   *)
(* also leave the entry in the list, or break it.                          *)
TakeOne ==
  /\ Alive /\ worker = "take_one"
  /\ \/ /\ pool # <<>>
        /\ pair' = Head(pool)
        /\ \/ pool' = Tail(pool)
           \/ "race" \in Faults /\ main # "loop" /\ pool' = pool
        /\ worker' = "emit"
        /\ UNCHANGED <<health, isRunning, busy, posted, mainVars, wireVars>>
     \/ /\ pool = <<>> \/ ("race" \in Faults /\ main # "loop")
        /\ Crash

(* emit diff: receiver and sender live in different threads, so the signal *)
(* is queued.  What follows in the loop only logs (but see MisreadPool).   *)
EmitDiff ==
  /\ Alive /\ worker = "emit"
  /\ posted' = Append(posted, pair)
  /\ OnlyWorker("forever") /\ UNCHANGED <<isRunning, busy, pool>>

(* isEmpty, and isEmpty and description when the change is logged, read    *)
(* the list while an insert moves it.  A read that goes well is that of    *)
(* CheckEmpty, or of the log and without effect.                           *)
MisreadPool ==
  /\ Alive /\ worker \in {"isEmpty", "emit"}
  /\ "race" \in Faults /\ main # "loop" /\ Crash

Worker ==
  Run \/ CheckRunning \/ CheckEmpty \/ Claim \/ TakeOne \/ EmitDiff \/ MisreadPool

-----------------------------------------------------------------------------
(* The main thread: FilePathPool::insert, called by onFileChanged.         *)

(* FileMonitor::fileChanged, while the monitor is started. *)
FileChanged(p, t) ==
  /\ AtLoop /\ git = "live" /\ Len(pool) < MaxPool
  /\ arg' = [path |-> p, type |-> t]
  /\ main' = IF t = "removed" THEN "erase" ELSE "push_back"
  /\ UNCHANGED <<health, isRunning, busy, pool, posted, workerVars, git,
                 client, sock, link, reactors, lastId, stops, wireVars>>

(* std::find_if and erase: the first entry of the same path goes. *)
IndicesOf(q, p) == {i \in 1 .. Len(q) : q[i].path = p}

WithoutFirst(q, p) ==
  IF IndicesOf(q, p) = {} THEN q
  ELSE LET i == CHOOSE j \in IndicesOf(q, p) : \A k \in IndicesOf(q, p) : j <= k
       IN  SubSeq(q, 1, i - 1) \o SubSeq(q, i + 1, Len(q))

Erase ==
  /\ Alive /\ main = "erase"
  /\ pool' = WithoutFirst(pool, arg.path)
  /\ main' = "push_back"
  /\ UNCHANGED <<health, isRunning, busy, posted, workerVars, arg, git, client,
                 sock, link, reactors, lastId, stops, wireVars>>

(* BUG: the new entry overtakes the others. *)
PushFront ==
  /\ Alive /\ main = "push_back"
  /\ pool' = <<arg>> \o pool
  /\ main' = "loop"
  /\ UNCHANGED <<health, isRunning, busy, posted, workerVars, arg, git, client,
                 sock, link, reactors, lastId, stops, wireVars>>

PushBack ==
  /\ Alive /\ main = "push_back"
  /\ pool' = Append(pool, arg)
  /\ main' = "loop"
  /\ UNCHANGED <<health, isRunning, busy, posted, workerVars, arg, git, client,
                 sock, link, reactors, lastId, stops, wireVars>>

-----------------------------------------------------------------------------
(* The main thread: requests.                                              *)

Untouched == UNCHANGED <<health, isRunning, pool, workerVars, main, arg, client,
                         sock, stops, session>>

(* The reactor is registered under a fresh id before the frame is written. *)
Send(proto, request) ==
  /\ lastId' = NextId(lastId)
  /\ reactors' = [reactors EXCEPT ![NextId(lastId)] = proto]
  /\ c2s' = Append(c2s, request)

Handshake(proto) == [proto |-> proto, id |-> NextId(lastId)]

(* readAll of a file opened with QIODevice::Text: the CRs are dropped, and *)
(* a file that is gone yields no bytes.  A removal reads nothing.          *)
Payload(change, found) ==
  CASE change.type = "removed" \/ found = Absent -> Empty
    [] change.type # "removed" /\ found = Crlf -> Lf
    [] OTHER -> found

FileDiffRequest(change, found) ==
  [proto |-> "file_diff", id |-> NextId(lastId), path |-> change.path,
   type |-> change.type, content |-> Payload(change, found)]

Connected ==
  /\ AtLoop /\ link = "connecting" /\ sock
  /\ link' = "up"
  /\ Send("token_login", Handshake("token_login"))
  /\ Untouched /\ UNCHANGED <<busy, posted, git, s2c>>

(* The socket reports an error, which is logged. *)
ConnectFails ==
  /\ "refused" \in Faults /\ AtLoop /\ link = "connecting"
  /\ link' = "down"
  /\ Untouched
  /\ UNCHANGED <<busy, posted, git, reactors, lastId, c2s, s2c>>

(* BUG: the release of the slot is not tied to the response. *)
FileDiffReleases(found) ==
  /\ AtLoop /\ posted # <<>> /\ sock
  /\ posted' = Tail(posted) /\ busy' = FALSE
  /\ Send("file_diff", FileDiffRequest(Head(posted), found))
  /\ Untouched /\ UNCHANGED <<link, git, s2c>>

(* BUG: the reactor is not registered. *)
FileDiffWithoutReactor(found) ==
  /\ AtLoop /\ posted # <<>> /\ sock
  /\ posted' = Tail(posted) /\ lastId' = NextId(lastId)
  /\ c2s' = Append(c2s, FileDiffRequest(Head(posted), found))
  /\ Untouched /\ UNCHANGED <<busy, link, git, s2c, reactors>>

(* Client::fileDiff, when the queued signal is delivered: the file is read *)
(* now, and not when the change was announced.                             *)
FileDiff(found) ==
  /\ AtLoop /\ posted # <<>>
  /\ LET change == Head(posted)
         skipped == change.type # "removed" /\ found = TooBig
     IN  \/ /\ skipped                         \* "请手动传输", and return
            /\ posted' = Tail(posted)
            /\ Untouched
            /\ UNCHANGED <<busy, git, link, reactors, lastId, c2s, s2c>>
         \/ /\ ~skipped /\ sock
            /\ posted' = Tail(posted)
            /\ Send("file_diff", FileDiffRequest(change, found))
            /\ Untouched /\ UNCHANGED <<busy, link, git, s2c>>
         \/ ~skipped /\ ~sock /\ Crash         \* sock->write on nullptr

-----------------------------------------------------------------------------
(* The main thread: responses.                                             *)

(* loginSuccess, whatever the code: the repository is opened and hashed,   *)
(* and the listing sent for verification.                                  *)
LoginReactor ==
  \/ /\ Send("directory_verification", Handshake("directory_verification"))
     /\ s2c' = Tail(s2c)
     /\ Untouched /\ UNCHANGED <<busy, posted, git, link>>
  \/ "git" \in Faults /\ Exit

(* shouldBegin starts the file monitor, unless strict and different.       *)
VerificationReactor(code) ==
  \/ /\ s2c' = Tail(s2c)
     /\ git' = IF code # 0 /\ Strict THEN git ELSE "live"
     /\ Untouched /\ UNCHANGED <<busy, posted, link, reactors, lastId, c2s>>
  \/ "git" \in Faults /\ ~(code # 0 /\ Strict) /\ Exit

(* BUG: only a diff that succeeded releases the slot. *)
FileDiffReactorOnSuccess ==
  /\ s2c' = Tail(s2c)
  /\ busy' = IF Head(s2c).code = 0 THEN FALSE ELSE busy
  /\ Untouched /\ UNCHANGED <<posted, git, link, reactors, lastId, c2s>>

(* diffComplete releases the slot, whatever the code. *)
FileDiffReactor ==
  /\ s2c' = Tail(s2c) /\ busy' = FALSE
  /\ Untouched /\ UNCHANGED <<posted, git, link, reactors, lastId, c2s>>

OnReadyRead ==
  /\ AtLoop /\ link = "up" /\ s2c # <<>>
  /\ LET response == Head(s2c)
         kind == reactors[response.id]
     IN  \/ kind = "token_login" /\ LoginReactor
         \/ kind = "directory_verification" /\ VerificationReactor(response.code)
         \/ kind = "file_diff" /\ FileDiffReactor
         \/ kind = "none" /\ Exit              \* "错误的响应id", exit(31)

-----------------------------------------------------------------------------
(* The main thread: the end of a connection, and stop().                   *)

(* The signal disconnected of an open socket: fm->stop(), client->abort()  *)
(* and client = nullptr.  The worker is not told.                          *)
Disconnected ==
  /\ git' = IF git = "live" THEN "dangling" ELSE git
  /\ client' = FALSE /\ sock' = FALSE /\ link' = "down"
  /\ reactors' = NoReactors /\ s2c' = <<>>
  /\ UNCHANGED <<health, busy, pool, posted, workerVars, main, arg,
                 lastId, c2s, session>>

(* The server has closed and every response was read, or the link is lost. *)
OnDisconnected ==
  /\ AtLoop /\ link = "up"
  /\ (session = "closed" /\ s2c = <<>>) \/ "drop" \in Faults
  /\ Disconnected /\ UNCHANGED <<isRunning, stops>>

(* onReadyRead of a partial frame: sock->abort() emits disconnected.       *)
OnPartialRead ==
  /\ "partialRead" \in Faults /\ AtLoop /\ link = "up" /\ s2c # <<>>
  /\ Disconnected /\ UNCHANGED <<isRunning, stops>>

(* stop(): fm->stop() deletes git, then client->abort() aborts the socket; *)
(* if that was connected, the handler of disconnected runs inside and      *)
(* fm->stop() deletes git again.                                           *)
Stop ==
  /\ AtLoop /\ stops < MaxStops
  /\ LET crash == git = "dangling" \/ ~client \/ ~sock
                    \/ (git = "live" /\ link = "up")
     IN  \/ crash /\ Crash
         \/ /\ ~crash /\ link = "up" /\ Disconnected
            /\ isRunning' = FALSE /\ stops' = stops + 1
         \/ /\ ~crash /\ link # "up"
            /\ isRunning' = FALSE /\ stops' = stops + 1
            /\ sock' = FALSE /\ link' = "down" /\ reactors' = NoReactors
            /\ git' = IF git = "live" THEN "dangling" ELSE git
            /\ UNCHANGED <<health, busy, pool, posted, workerVars, main, arg,
                           client, lastId, wireVars>>

-----------------------------------------------------------------------------
(* The server, left open.                                                  *)

OnlyServer ==
  UNCHANGED <<health, isRunning, busy, pool, posted, workerVars, mainVars>>

Accept == session = "waiting" /\ session' = "serving" /\ OnlyServer
          /\ UNCHANGED <<c2s, s2c>>

(* A request is answered under its own id; the session may end with it.    *)
Answer(code) ==
  /\ session = "serving" /\ c2s # <<>>
  /\ c2s' = Tail(c2s)
  /\ s2c' = IF link = "up" THEN Append(s2c, [id |-> Head(c2s).id, code |-> code])
            ELSE s2c
  /\ session' \in {session} \cup (IF "serverClose" \in Faults THEN {"closed"} ELSE {})
  /\ OnlyServer

(* The session ends without an answer: the client is gone, or recv was short *)
ServerClose ==
  /\ session = "serving"
  /\ link = "down" \/ "serverClose" \in Faults
  /\ session' = "closed" /\ c2s' = <<>>
  /\ OnlyServer /\ UNCHANGED s2c

-----------------------------------------------------------------------------
Main ==
  \/ Connected \/ ConnectFails \/ OnReadyRead \/ OnDisconnected \/ OnPartialRead
  \/ Erase \/ PushBack \/ Stop
  \/ \E p \in Paths, t \in Announced : FileChanged(p, t)
  \/ \E found \in OnDisk : FileDiff(found)

Server == Accept \/ ServerClose \/ \E code \in Codes : Answer(code)

Next == Worker \/ Main \/ Server

Spec == Init /\ [][Next]_vars

(* The worker thread is scheduled; the event loop delivers every event that *)
(* is pending, between any two calls of the monitor; the server answers.    *)
(* Nothing obliges files to change, links to break or anybody to stop.      *)
Fairness ==
  /\ WF_vars(Worker)
  /\ WF_vars(Connected) /\ WF_vars(Erase \/ PushBack)
  /\ SF_vars(OnReadyRead)
  /\ SF_vars(\E found \in OnDisk : FileDiff(found))
  /\ WF_vars(Accept) /\ SF_vars(\E code \in Codes : Answer(code))

FairSpec == Spec /\ Fairness

-----------------------------------------------------------------------------
(* Properties. *)

(* Every variable keeps to its range. *)
TypeOK ==
  /\ health \in {"ok", "exited", "crashed"}
  /\ isRunning \in BOOLEAN /\ busy \in BOOLEAN
  /\ pool \in Seq(Changes) /\ posted \in Seq(Changes)
  /\ worker \in {"begin", "forever", "isEmpty", "claim", "take_one", "emit", "quit"}
  /\ pair \in Changes
  /\ main \in {"loop", "erase", "push_back"} /\ arg \in Changes
  /\ git \in {"null", "live", "dangling"}
  /\ client \in BOOLEAN /\ sock \in BOOLEAN
  /\ link \in {"connecting", "up", "down"}
  /\ reactors \in [Ids -> Protocols \cup {"none"}] /\ lastId \in Ids
  /\ stops \in 0 .. MaxStops
  /\ c2s \in Seq(Requests) /\ s2c \in Seq(Responses)
  /\ session \in {"waiting", "serving", "closed"}

(* What the worker has claimed the slot for and not yet posted. *)
InHand == IF worker \in {"take_one", "emit"} THEN 1 ELSE 0

(* Everything of one diff that is under way, wherever it is. *)
Outstanding == InHand + Len(posted) + Len(c2s) + Len(s2c)

(* Once the monitor has been started, at most one diff is under way        *)
(* anywhere between the pool and the reactor, and none unless the slot     *)
(* queryId is taken: onReadyRead, which reads one frame per readyRead,     *)
(* depends on it (ControlClient.cpp:152-162, Client.cpp:175-198).          *)
OneDiffOutstanding ==
  git # "null" => Outstanding <= IF busy THEN 1 ELSE 0

(* What makes OneDiffOutstanding inductive: before the monitor is started   *)
(* no change has entered the client, and one handshake request or response  *)
(* is under way at most; afterwards nothing is, unless run() has begun and  *)
(* taken the slot.                                                          *)
SlotDiscipline ==
  /\ link = "connecting" => git = "null" /\ c2s = <<>> /\ s2c = <<>>
  /\ git = "null" =>
       /\ pool = <<>> /\ posted = <<>> /\ main = "loop" /\ InHand = 0
       /\ worker # "claim" /\ Len(c2s) + Len(s2c) <= 1
  /\ git # "null" => Outstanding <= IF busy /\ worker # "begin" THEN 1 ELSE 0

(* Every response on its way will find the reactor of its own request:     *)
(* onReadyRead never reaches exit(31), and no response of a file_diff      *)
(* restarts the handshake, although ids wrap around and old reactors are   *)
(* never taken out of requestReact (Client.cpp:191-197).                   *)
ResponsesAreAwaited ==
  /\ \A i \in 1 .. Len(s2c) :
       reactors[s2c[i].id] \in IF git = "null" THEN Handshakes ELSE {"file_diff"}
  /\ health = "exited" => "git" \in Faults

(* While nobody calls stop(), there are two ways to undefined behaviour,    *)
(* both at a boundary between the threads: a diff posted around the loss of *)
(* the connection, which finds the socket gone; and a removal that empties  *)
(* the pool between isEmpty and takeFirst.  In particular what isEmpty has  *)
(* seen is otherwise still there for takeFirst, without any lock            *)
(* (ControlClient.cpp:28-59, 97-101, 149-157, Client.cpp:41-44).            *)
CrashesOnlyAtRaces ==
  health = "crashed" =>
    \/ git = "dangling" /\ posted # <<>>
    \/ /\ worker = "take_one" /\ pool = <<>>
       /\ main = "push_back" /\ arg.type = "removed"

(* The refinement of SyncPump: the change that is being synchronised is the *)
(* one the worker has taken, until its slot is released; an insert of a     *)
(* removal takes effect when it erases, any other when it pushes.           *)
NoChange == [type |-> "none"]

Current ==
  IF busy /\ worker \notin {"begin", "take_one"} THEN pair ELSE NoChange

Queue ==
  IF main = "push_back" /\ arg.type = "removed" THEN Append(pool, arg) ELSE pool

Pump == INSTANCE SyncPump WITH queue <- Queue, current <- Current

(* ControlClient implements the pump, whatever fails: a change is begun     *)
(* only after the one before has been answered, in the order of the         *)
(* announcements, and none is skipped or begun twice                        *)
(* (ControlClient.cpp:146-162, 172-182).                                    *)
PumpSafely == Pump!Spec

(* And, with nothing failing, every change of the pump is begun and         *)
(* finished.                                                                *)
PumpFairly == Pump!FairSpec

(* Every change that enters the pool is handed to Client::fileDiff.        *)
ChangesAreSent ==
  \A p \in Paths : (\E i \in 1 .. Len(pool) : pool[i].path = p)
                     ~> (posted # <<>> /\ Head(posted).path = p)

(* stop() "stop thread safely" (ControlClient.h:27): it does not run into  *)
(* undefined behaviour.                                                    *)
StopIsSafe == [][AtLoop /\ Stop => health' = "ok"]_vars

=============================================================================
