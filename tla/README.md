# A TLA+ model of Vid

Vid keeps a remote directory equal to a local one: "本端更新文件，远端自动更新对应文件"
(`README.md:2`). A C++/Qt client watches a git work tree and sends the files
that change over TCP to a Python server, which writes them under its own root.
A later version (`v2/`) does the same with watchdog and HTTPS.

This directory holds a model of the client and the server, the TLC
configurations that check it, and theorems about it that the TLA+ proof system
checks for every value of the constants.

    tlc -config ClientSafety.cfg MCControlClient     one run
    tlapm ControlClient_proofs.tla                   the proofs about it

## The system

| part | source | state | operations |
|---|---|---|---|
| `ControlClient` | `control/ControlClient.{h,cpp}` | `isRunning`, `queryId` (idle/BUSYING), the pool of changes, pointers to `Client` and `FileMonitor` | `run()` (worker thread), `onFileChanged`, `onDiffComplete`, `stop`, and the lambdas on `loginSuccess`, `shouldBegin`, `disconnected` |
| `Client` | `client/Client.{h,cpp}` | socket, `requestReact` (id to reactor), id counter | `tokenLogin`, `directoryVerification`, `fileDiff`, `onReadyRead`, `abort` |
| `FileMonitor` | `client/FileMonitor.{h,cpp}` | watcher, metadata per file, `git` | `start`, `stop`, `onDirectoryChanged`, `onFileChanged` |
| `Git`, `GitFile` | `git/` | the tree of HEAD | `allFiles`, `isIgnored` |
| `Configure`, `Section` | `settings/` | a QSettings group stack | `value`, `beginGroup` |
| `SerializedTool` | `model/` | none | the length prefix of a frame |
| `vidserver` | `Vid-Server/vidserver/` | a session, `is_login`, the directory | `handle`, `read_request`, `token_login`, `directory_verification`, `file_diff` |
| generated protobuf code | `model/*.pb.cc`, `*_pb2.py` | the fields of a message | serialise, size, parse, merge |
| v2 client, v2 server | `v2/vid/` | watchdog's queue and thread; the two directories | `on_created`, `on_modified`, `on_moved`, `on_deleted` on both ends, `_send`, `do_POST` |
| `main.cpp`, `run_server` | `main.cpp`, `server.py` | none | `_main`, `testLogin`, `serve_forever` |

**How the parts interact.** The main thread of the client runs the Qt event loop;
the socket, `FileMonitor` and all slots of `ControlClient` and `Client` live there.
`ControlClient` is also a `QThread` whose `run()` polls the pool. The two threads
share the pool (a `QList` behind a semaphore that is only ever released, never
acquired, `ControlClient.cpp:28-59`), `isRunning` and `queryId`. Work crosses from
main to worker through the pool, and back through the queued signal `diff`.
Client and server talk in length-prefixed protobuf frames: `token_login`, then
`directory_verification`, then any number of `file_diff`, each request answered
once. The server is single-threaded: it serves one connection and the others wait in the
listen queue. In v2 watchdog's observer thread dispatches events one after the other, each an HTTPS POST
whose answer is printed; the server repeats the event in its own directory.

**A session.** connect -> `token_login` -> (any answer) the client hashes the tree of
HEAD and sends `directory_verification` -> the answer starts the monitor, unless it
reports a difference and `local/strict` is set -> for each change: pool ->
worker claims `queryId`, takes the entry, emits `diff` -> main thread reads the
file and sends `file_diff` -> server writes or removes -> the response's reactor
emits `diffComplete`, which releases `queryId`.

**What is hard.** Two threads without a lock; a slot that must be claimed once and
released on every path; content that is read later than the change it stands for;
a connection that ends while the worker holds work; slots that re-enter each other
through synchronous Qt signals; a server that reports success from a `finally`
block whatever happened; ids that wrap; frames that TCP cuts in pieces; v2 events that wait while
the tree they describe changes. `PROJECT.json` lists each hazard at its line.

At this commit `main()` lists a repository and exits (`main.cpp:26-31`) before it
starts a client. Modelled is what `_main()` and `testLogin()` would start.

## What makes each part correct

* **Pump** (worker, pool, slot): one change at a time; in order; none lost or sent
  twice; a removal supersedes the oldest queued change of its path; every change is
  eventually sent; `stop()` ends the thread.
* **Client**: every response finds the reactor of its own request; the handshake
  happens once and in order; no use of a dead socket.
* **Server**: an answer of success means the change was applied.
* **Session**: with nothing left to do, both directories are equal; what is announced arrives.
* **FileMonitor**: every change of a file is announced, with its type, and none twice.
* **Start**: a client is started with what the settings say; it gets to `fm->start()` only after
  a verification; a client in the queue is served in the end.
* **Verification**: code 0 when both sides have the same files with the same hashes.
* **Frames and messages**: what one end has set is what the other reads, or nothing is read; a
  buffer is never left with bytes nobody comes back for; a size is the number of bytes written.
* **v2**: with nothing under way both trees are equal; the thread that dispatches does not die.

Not each of these holds. Where the code does something else, the property says exactly how far it holds.

## Modules

| module | models | notes |
|---|---|---|
| `VidProtocol` | both ends' vocabulary: what can be on disk, changes, requests, responses, ids | no state |
| `SyncPump` | the promise of `ControlClient`, without threads or a network | abstract specification: a queue and the change in hand |
| `ControlClient` | `ControlClient.cpp` and `Client.cpp`, and the life of `FileMonitor`'s `git` | the server is open: any code, may close |
| `VidServer` | `server.py`, one session | the client is open: any request, may leave |
| `VidSession` | the two on one connection, the local files, an editor | composes by sharing `link`, `c2s`, `s2c`, `session` |
| `FileMonitor` | `FileMonitor.cpp` with `Git::allFiles`, `GitFile` and `isIgnored` as it uses them | the editor works while the handler runs |
| `Settings` | `Configure`, `Section` over QSettings | operators: a lookup and the group it leaves behind |
| `Listing` | what either end lists of HEAD: `GitFile`, `files_hahs`, `Client::directoryVerification`'s map; `git.py`, `file_hash`, the comparison | operators on paths as sequences of characters |
| `Startup` | `_main`, `testLogin`, connecting, login, verification; `run_server` and its accept loop | several clients, one server; uses the two above |
| `Messages` | `base.pb.cc`, `requests.pb.cc`: five messages as bytes | operators; the protobuf library in a section of its own |
| `Exchange` | the promise of a connection, without bytes: each request handled, answered and heard once, in order | abstract specification |
| `Wire` | `sendRequest`, `onReadyRead`, `SerializedTool`; `read_request`, `send_response`, `handle` | one connection, byte by byte |
| `V2Mirror` | `v2/vid/client/monitor.py`, `v2/vid/server/_http.py` | the user and watchdog are external |
| `ControlClient_proofs` | theorems and proofs about `ControlClient` | the slot; responses, crashes, the refinement of `SyncPump` |
| `VidSession_proofs` | about `VidSession` | it implements both ends; equal when quiet |
| `FileMonitor_proofs`, `Startup_proofs` | about `FileMonitor` and `Startup` | with lemmas about `Settings` and `Listing` |
| `V2Mirror_proofs`, `V2Damage_proofs` | about `V2Mirror` | the file-system operators and trees; damage and names |
| `Messages_proofs` | about the operators of `Messages` | for each message: what is written is read back, in how many bytes, and merges |
| `Wire_proofs` | about `Wire` | the inductive invariant of a connection; the refinement of `Exchange` |
| `MC*` | instances for TLC | symmetry, the layout of the files |

### State and actions

`ControlClient`. `worker` is the program counter of `run()`, one value for each
access to shared state: `Run` (144), `CheckRunning` (147), `CheckEmpty` (149), `Claim`
(152-155), `TakeOne` (157), `EmitDiff` (162). The test and the assignment of `queryId`
are one step because only the worker makes it BUSYING, so that nothing another
thread does between them changes what the step does. On the main thread one event handler is one
action, except `FilePathPool::insert`, which touches the shared list twice (`Erase`,
`PushBack`). `FileDiff` is the delivery of the queued signal; it reads the file at
that moment. `OnReadyRead` dispatches through `reactors` to `LoginReactor`,
`VerificationReactor`, `FileDiffReactor` or `exit(31)`. `Stop` and `OnDisconnected` include
the slots they run synchronously. `git`, `client` and `sock` are the pointers: what is
null or dangling when used makes `health = "crashed"`, after which nothing is modelled;
`exit()` makes it `"exited"`.

The unlocked list is undefined behaviour in C++. With the fault `"race"`, a `take_one` that overlaps an insert may leave the
entry in the list (it will be sent again) or crash; without it the list
operations are taken as atomic, which is what the two-step insert is checked under.

`isRunning`, `queryId` and the id counter have no initial value in the code, so `Init`
lets them be anything.

`VidServer`. Every way through a handler is an action: the ordinary `Return`s, and the
exceptions. `Raise` is the `finally` block, which answers with the code so far (0, "success"),
followed by the `break` of `handle()`. `WriteFails` may leave the file truncated (`Torn`),
since `open(path, 'w')` comes first. The comparison in `directory_verification` is reduced to the
codes it can return.

Data. File contents are of the few kinds the code treats differently: a text, nothing,
not UTF-8 (`Binary`: protobuf cannot parse the body), over 10 MiB (`TooBig`: `fileDiff` returns),
CR LF text (`Crlf`: `QIODevice::Text` turns it into `Lf`). A frame is one message;
`"partialRead"` and `"shortRecv"` are the two ways a frame that comes in parts is seen.

`FileMonitor`. `DirectoryChanged`, `FindFiles`, `Emplace`, `FileChanged` (one for each flagged file) and `Return` are
the steps of `onDirectoryChanged` between which somebody can edit. `noticed` holds the notifications that
are not delivered; those of one directory are merged. `dead` is a watch whose directory is gone and of which the
watcher does not know yet. `isIgnored` tests a destroyed temporary (`Git.cpp:149`), so `Emplace` lets it answer
anything. `EndsInSlash` matters because `GitFile` glues names to the root as given: without the slash nothing of HEAD is
watched. `announced`, `told` and `unexamined` are history. A rename is a removal and a creation; hidden and ignored
files are left out.

The monitor in `VidSession` is any that announces some of the changes of a watched file, with their types and in
order (`FileMonitor.h:15-31`), at whatever time it likes. A change it leaves out is left out for good, as are those made between
the hashing of the files and `fm->start()`; `unheard` holds the files of which the last change is one of those. The monitor of this commit
is among these as far as it types a new file as added: it leaves out writes in place and removals (`monitor_silent`) and announces each path once. In
`ControlClient` alone, announcements are arbitrary. Because of `AnnouncedOnce` what goes wrong with a removal of a queued path (it erases the add of a new
directory's file, or empties the pool under `takeFirst`) is latent at this commit.

`Startup`. `stage` is how far a client is. `ReadSetting` is one `Section::get` of `_main`; `group` is the group its
QSettings object is left in. `LoginSuccess` lists HEAD, hashes and sends in one step, as the slot does.
`Accept` takes the head of the listen queue when `handle()` has returned; a client that has connected is in the
queue already and has sent its login, since the kernel completes the connection. `Leave` ends a client at any time
after it has connected. An answer of `TokenLogin` is 0 or 403 as the password decides; a client reads only that
it has come, so both are allowed. `DirectoryVerification` answers what `Listing!Verify` says; when `list_all_files`
raises (a repository without a commit) or `file_hash` does (a file of HEAD that is not on the disk), the `finally` block answers 0 and the
session ends (`raised`). A client whose repository has no commit, or is none, ends its process there (`Leave`).

`Listing`. Paths are sequences of characters, because the client cuts names by the length of a path that may end in
a slash and glues a directory to a root without one. `CleanPaths` are those with nothing to clean but a slash at the end; `AbsolutePath` puts a relative one after the current
directory, and keeps the slash of `/`. Both ends cut names by the same rule, `Contents`, which is a set: when two files end up under one
name (only below `/`, or with a slash at the end), the dictionary keeps one of them.

`Wire`. `toServer` and `toClient` are the bytes under way, `buffered` those the socket has taken over. `Received(n)` is
`recv(n)`: any number of bytes from 1 to n. `OnReadyRead` runs for whatever has arrived, which may be one byte. `assertions`
says whether `Q_ASSERT` is compiled in; without it `charToInt` copies bytes that are not there. The fourth byte of a header
of three is the terminating NUL of the `QByteArray`; with fewer, the length is unknown and the two cases stand for all:
negative or more than there is, and 0. A handler answers any code it has, since the files are left out. `sent`, `handled`,
`answer` and `reactions` are history. `Misled` says that the client has read an empty response, which only a release build can
do without the server's having sent one. `Exchange` is the same without bytes: its `lost` is `Misled` and its `heard` is `reactions`.

`Messages`. A byte is a number below 256, and a field the code does not know is kept in `unknown`. `Empty*` are the
constructors, `Serialize*`, `*Size`, `Parse*` and `Merge*` are the generated methods. `Fields` cuts bytes into fields as the
library does, and each message is made of them with one rule: the last field of a number wins (`LastOf`), and what the switch has no case for is
kept as it was (`Unknown`). A map is written in any order of its keys; `SetToSeqs` has them all.

`V2Mirror`. `local` and `remote` are the two trees, `events` is watchdog's queue, `post` the request on its way.
`On*` is a handler up to its POST; it reads the file at that moment, so that `E` may describe what is no longer there.
`Post*` is the server's handler: it ends in `OK` (200) or `Failed` (an exception: 500), with what it has
done so far left in place; `WriteFails` and `RemoveFails` are what the file system may refuse. `Die` is an exception in the observer's thread because of what is at
the path, `Unreadable` one because the file that is there cannot be opened or read. Both trees are equal at the start because
nothing is sent then: the user has copied the tree. watchdog's order is taken as one queue in the order of the edits; a
rename of a directory reports it and then what is in it. A rename out of the directory or into it does not occur.

## Runs

| run | question | bounds | states |
|---|---|---|---|
| `client_safety` | type correctness, one diff at a time, every response finds its reactor, under all faults and `stop()` | 2 paths, 3 ids, pool of 2, 2 stops | 254 k |
| `client_pump` | `ControlClient` implements `SyncPump`; where undefined behaviour is reached | 2 paths, 2 ids, pool of 2, strict | 59 k |
| `client_live` | the pump never stops; every change is sent | the same, no fault | 22 k |
| `session_mirror` | both directories are equal when quiet, but for refused removals and changes that were not announced; success means applied, or the session ends with that answer; the composition is a behaviour of both open components | 2 paths in 2 directories, which start with one of 2 texts or without a file; one of the texts, a content that is not UTF-8 and nothing are written; 3 edits, pool of 3 | 4.3 M |
| `session_live` | an announced change is applied, refused, overtaken by one that is not announced, or ends the session | the same paths, one text and nothing are written, pool of 2; removals may be refused | 302 k |
| `monitor` | no path is announced twice; no file created under a watch is missed | 3 paths in 3 nested directories, 4 edits | 1.4 M |
| `startup` | which settings are used; what a verification answered with 0 means; whether a waiting client is served | 2 clients, 5 machines (ini file, HEAD, disk), 9 servers | 654 k |
| `v2_mirror` | where the trees may differ and where not; when the observer dies | 6 paths (a name to ignore and one to refuse among them), 2 contents, 2 start trees, 4 edits; reading, writing, removing and connections may fail | 2.1 M |
| `wire` | what a handler and a reactor are given; sizes; nothing left in a buffer; `Wire` implements `Exchange` | 2 requests of 9 bodies, bytes in any pieces, ids around 0 and 127 and at the largest int32 | 141 k |

and three that TLC refutes:

| run | what a doc or a name says | what the code does |
|---|---|---|
| `client_too_big` | changes are updated automatically | `fileDiff` of a file over 10 MiB returns without `diffComplete`: the slot is kept for ever and nothing is sent any more |
| `client_stop_crash` | "stop thread safely" | on a connected client the `disconnected` handler runs inside `stop()` and deletes `git` a second time |
| `monitor_silent` | changes are updated | `fileChanged` of the watcher is not connected: a file written in place is never announced |

**What the newer runs show.**

* `startup`: no value of an ordinary ini file is ever used. `beginGroup` is never ended, so a key that is there is looked up
  one group too deep and reads as an invalid value: a `host` that is set becomes `""` and the client never connects;
  `port`, `path` and `strict` are the defaults whether set or not (`SettingsAreDefaults`).
* Because `GitFile` leaves out the files of the root and glues the others to a root without a slash, equal trees do not verify:
  code 0 in a session that goes on means that HEAD is empty, that files beside the work tree have the glued names, or that the
  work tree is `/`, the one absolute path that ends in a slash (`OnlyEmptyPasses`). There both ends cut the first letter off every name, equal
  trees with no file in the root are answered 0, and so may be different ones of which two names have become one. What 0 is
  meant to say holds all the same, of the names as they are cut (`VerifiedMeansSent`), except after an exception: in `file_hash`, or in
  `list_all_files` when the server's repository has no commit. The `finally` block then answers 0 and the session ends, and a
  strict client starts its monitor.
* `v2_mirror`: creating, writing and removing are mirrored however late the events are handled. A path named by a rename
  or by a request that failed, what is above it and what is below it, may differ for good; no other path does
  (`DamageIsLocal`). A rename of one ordinary file leaves the right names (`NamesAreMirrored`), but not always the right content:
  create f, write it, rename it to g and create f again before the first event is handled, and g is empty on the server.
  The observer's thread dies of a file that is gone or cannot be read when its event is handled, and of a connection that fails, and of
  nothing else (`OnlyLossKills`): not of what fails on the server.
* `wire`: the client takes a cut frame for the end of the connection, and the server does too, so that no handler is ever given a
  message read from the wrong bytes (`HandledIsSentText`). A reactor may be, and in one way only: in a release build a header of
  which three bytes have come is the length 0, and the empty response says id 0, code 0, success, if a request of that id was
  made. The id counter is not initialised and wraps, so 0 is an id like any other. From then on the client's place in the
  bytes is lost and it may call a reactor with whatever it finds (`AnswersAreMeant` says that an empty response comes first; with three
  requests and ids from -1, a response read from the middle of another is reached). With the assertions compiled in, the client
  never leaves its place, each answer is heard once and in its turn (`Exchanges`), and nothing stays behind in a buffer
  (`NothingStranded`). That the client never has two requests under way, which all this rests on, is what
  `OneDiffOutstanding` proves. A verification of the root directory `/` with nothing listed has a body of no bytes, which
  the server takes for a body that does not parse: `ParseFromString` returns the number of bytes read.

Not runs, but shown by the same models: CR LF files lose their CRs (`SessionMirror.cfg` with
`OnDisk = {"crlf"}` violates `MirrorWhenQuiet`); a file changed between the hashing and `fm->start()` is never
synchronised (it is in `unheard`, without which `MirrorWhenQuiet` is violated); a file that is not UTF-8 is answered with 0 and not written (that is what
"or the session ends" in `SuccessMeansAppliedOrClosed` is for); a `stop()` before the first statement of `run()` is
overwritten there, and the thread polls for ever.

**Why the bounds are enough.** Two paths tell an entry of the same path from another
one; a pool of two or three holds an entry to erase, one before it and one after it. At most one
diff is under way (proved), so one message in flight is the most the session reaches, and the ids
wrap within one handshake and one diff with two or three of them. Three edits
make add-modify-remove of one path and the interleavings with another. The two texts let
the server's file be different from, and equal to, an older version. For the monitor, three levels are what tells
a directory whose parent is watched from one whose parent is new, and four edits are enough to remove and make again
a directory with a file in it while a notification is pending.

Two clients are enough for one to be served and one to wait; each machine is one case of the listing (a file of the
root, one of a directory, a file beside the work tree that a glued name hits, two directories of `/` whose files get one name) and of the ini file (ordinary, without a host,
nested as deep as the lookups go), each server one way to answer (equal, another name, another hash, a file that is
missing, no commit, the root `/`, another port, no directory). In v2 four edits are what the wrong content above takes, and two names with one below each
tell a directory with something in it from an empty one and a rename into a directory from one beside it. For the wire, two requests make a
second one follow a response that was cut short, bodies differ in every field that may be empty and in a string that is not
UTF-8, and the ids take one byte, two, ten and none, and wrap.

`MirrorWhenQuiet` needs the session to be up at the end. That is the property's meaning: a
session that ends leaves the ends different, and the next verification has to find it. It is not
vacuous: its mutant (entries overtaking each other) violates it in that very state, with every change announced. When `os.remove` fails the server answers 404, which the client logs and does not repeat, and the file stays: the
history variable `refused` says so, and only until the next outcome for that path. `AnnouncedArrives` needs the
session to be up as long as it takes: add, modify and remove of one file in a new directory makes the removal erase the queued
add, so that the modify finds no directory and ends the session, with the monitor the header describes. It assumes no file that is not UTF-8
and none over 10 MiB (that one keeps the slot: `client_too_big`). Its mutant keeps the slot after an answer that is not 0, such as that of a
refused removal.

`CHECK_DEADLOCK FALSE` stands where the system may stop: the process exits or crashes, the
connection is gone and nobody reconnects, or every edit and request the bounds allow has been made.

**Fairness.** `FairSpec` and `SessionFairSpec` assume: the worker thread is scheduled (WF); the Qt
event loop delivers every event that is queued, and a stream of file notifications does not starve
the socket, since one iteration handles all that is pending (SF on `OnReadyRead`, `FileDiff`, which are
disabled while an insert is under way); an insert that has begun finishes; a TCP connection that
is accepted is served, and the server answers each request (`handle()` is a loop that blocks in `recv` only).
Nobody is obliged to edit a file, to announce a change, break a link or call `stop()`: the monitor has no fairness, since that of this
commit leaves changes out, and an announcement that has not been made is excluded by `AnnouncedArrives` itself.
`Startup` assumes that the server goes on while it can and that a client handles the answers it has (WF); no client has to
start or to leave. `QueuedIsServed` is conditional: a client that stays keeps all others waiting, which `serve_forever` cannot
prevent, so the property assumes that the server is idle again and again, and says that the queue is then emptied
and each login answered.

## Proofs

Every theorem holds for every set of paths, clients and contents, every bound, and every choice of faults that its row does
not exclude. Nothing is taken on trust but the named assumptions about the constants, which TLC evaluates in the runs:
`IdModulusAssumption` and `TextsAssumption` (`VidProtocol`), `BoundsAssumption` and `SettingsAssumption` (`ControlClient`),
`SessionAssumption` and `ServerAssumption` (`VidSession`), `TreeAssumption` and `MonitorAssumption` (`FileMonitor`), `CwdAssumption`,
`ClientsAssumption` and `MachinesAssumption` (`Startup`), the five of `V2Mirror`, and `BodiesAssumption` and `WireAssumption` (`Wire`).
They say that names do not coincide, that bounds are numbers and that the layout of the files is a tree; of a connection, that bodies are messages
of bytes that take less than 2 GB, which is all that protobuf can write and far more than `fileDiff` sends (10 MiB), that
the server's texts are UTF-8, as Python's are, and that nobody sends more than an int32 of requests. The strings of a body may be any bytes.

| theorem | states | supposes |
|---|---|---|
| `TypeCorrect`, `MonitorTypeCorrect`, `StartupTypeCorrect`, `V2TypeCorrect` | the type invariants | |
| `SessionTypeCorrect` | that of `VidSession` | `Compatible` |
| `SlotDisciplined`, `OneDiffAtATime` | at most one diff between pool and reactor, none while `queryId` is idle (`OneDiffOutstanding`) | |
| `EveryResponseIsAwaited` | every response finds a reactor of its own request's kind (`ResponsesAreAwaited`) | |
| `CrashesNeedARace` | undefined behaviour only at the two races (`CrashesOnlyAtRaces`) | no `stop()`; the list is intact |
| `ClientImplementsPump` | `ControlClient` implements `SyncPump` (`PumpSafely`) | the list is intact |
| `SessionImplementsClient`, `SessionImplementsServer` | a session is a behaviour of either open component | `Compatible`; room for a request |
| `SuccessIsTrue` | `SuccessMeansAppliedOrClosed` | `Compatible` |
| `QuietMeansMirrored` | both directories are equal when quiet, but for what was refused or not announced (`MirrorWhenQuiet`) | `Compatible`; no CR LF file |
| `AnnouncedAtMostOnce`, `NoNewFileIsMissed` | the monitor (`AnnouncedOnce`, `NewFilesAreFound`) | |
| `ZeroCanBeBelieved`, `IniFilesAreIgnored`, `EqualTreesFail` | `VerifiedMeansSent`, `SettingsAreDefaults`, `OnlyEmptyPasses` | |
| `OnlyLossEndsDispatching`, `DamageStaysLocal`, `RenamesKeepNames` | `OnlyLossKills`, `DamageIsLocal`, `NamesAreMirrored` | |
| `RequestReadBack`, `ResponseReadBack`, `VerificationReadBack` | what is written of a message is read as that message, in whatever order a map is written | strings below 2 GB |
| `VerificationWritten` | a map takes exactly the bytes that were computed for it, in every order | the same |
| `WireInvariant`, `WireTyped` | the inductive invariant of a connection; `WireTypeOK` | |
| `WireHandlesWhatWasSent`, `WireAnswers`, `WireStrandsNothing` | `HandledIsSentText`, `AnswersAreMeant`, `NothingStranded` | |
| `WireSizes`, `WireMerges` | `SizesAreExact`, `ConcatenationMerges` | |
| `WireImplementsExchange` | `Wire` implements `Exchange` (`Exchanges`) | |

What is supposed is what the properties need and not what the proofs needed. `Compatible` fixes the interface of the two
components: the open server of `ControlClient` may close, as `VidServer` does, and its open monitor may announce each
of the three types of change. A session takes no step because of it. "The list is intact" is
`"race" \notin Faults`: the unlocked `QList` is used by two threads at once but keeps its entries. CR LF files are one of the
divergences named above.

**The invariants, and why they are needed.**

* `OneDiffOutstanding` is not inductive. It says nothing of the handshake, and a step of
  `VerificationReactor` could start the monitor with a second response on its way; and `queryId`
  is not initialised, so until `run()` has begun it may be BUSYING without anything under
  way and be reset. `SlotDiscipline` adds what is true before the monitor starts (no change in the
  client, the worker nowhere near the slot, one handshake message at most) and that a taken slot counts
  only once the worker has begun. It is what makes an `onReadyRead` that reads one frame per signal right.
* `ResponsesAreAwaited` speaks of responses, which take the id of their request. `AwaitedDiscipline` therefore follows the
  requests, too, and says of which kind the reactor is: one of the handshake until the monitor starts and `file_diff` after. When
  ids wrap around, a new request could take over the reactor of one that is still under way; `SlotDiscipline`
  excludes that, since there is none.
* For the crashes, `HandOver` follows what the worker has seen in the pool: it is there for `takeFirst`,
  unless an insert is between its erase and its push. It also says that the socket is there as long as the monitor runs.
* `ClientImplementsPump` maps pool and change in hand as `PumpSafely` does. Each action is one step of the abstract pump or none;
  `SlotDiscipline` tells that the slot is the worker's own when it takes an entry. `stop()`, a lost connection and the end of the process
  leave the abstract pump as it is: a change in hand is then never finished, which the safety part of `SyncPump` permits.
* A session is one of `ControlClient` because every file that is read for a change is in a state an edit leaves it in
  (`LiveInv`); and it is one of `VidServer` because the slot keeps the second request away (`LinkInv` adds that a
  socket that is still there is connected).
* `MirrorWhenQuiet` is about the end of a long way. `Follows(p)` finds, among the changes of a path that are not announced, being inserted, in the
  pool, taken, posted and sent, the one that is farthest from the server, and says that this one tells what the file is
  now, unless the file is in `unheard`; when there is none, the server has the file, has refused to remove it, or has closed. Two exits have to be closed: a removal
  erases an older entry of its path, which must not be the one that tells (`insert` appends its own), and a
  file of more than 10 MiB is never sent. That one leaves the client `Stalled` for ever, with a slot that is not released, which is not quiet.
* `AnnouncedOnce` says nothing of a path that is flagged and not
  announced yet; `FlaggedIsUnannounced` adds that a flagged path has metadata and no announcement, and that a path without
  metadata has none either.
* `NewFilesAreFound`: `UnexaminedIsPending` says where a file that was not
  found yet still is: its directory has a pending notification, or the handler is about to list it. That the
  notification cannot be dropped by the early return for a vanished directory needs the work tree to be one: an existing file
  is in an existing directory.
* `StartupInv` follows `group` through the four lookups of `_main` (`SettledInv`), a connection through the
  listen queue (`QueueInv`: at most once, and never in service too), and the request and the answer of a client
  (`VerdictInv`). `EqualTreesFail` adds what concatenation and slashes do to a listing: a name that is glued to the root without a slash
  is the name of no file below the root. The work tree `/` is left out, where the property says nothing.
* `V2Inv` adds to the types that the server's directory is a tree. Its lemmas say of each file-system operator (`MakeDirs`, `WriteTo`,
  `RemoveDirs`, `RemoveTree`, the rename) that it makes a tree of a tree, also when it fails half-way. That a file system is a tree is no
  property of this code; the model's operators must keep to it for the other proofs to be about file systems.
* `ReportsHold`: until something is lost, an event that waits is about something that is still there, of the kind it was.
* `DamageInv`: of the messages about an undamaged path the last one says what is there now, those below it say that it is a directory, deletions
  above it that it is gone; once none is left the path is equal on both sides. A rename is inside the damage.
* `NamesInv`: there is a sequence of trees of names, one before each waiting event and one at the end, of which the
  first is the server's and the last is the client's, and each event leads from one to the next. The server does not have to be where the client
  is: it lags behind and repeats the client's steps.
* Nothing of a connection's properties is inductive without saying what the bytes under way are. `Queued`: the server has
  still to read exactly the frames of the requests it has not handled, from the next one on or from its body on, as long as it has
  not closed. `InStep`: a client that waits has a request that is not answered and nothing to read, or some first bytes of the frame
  of the last answer; one that is idle has nothing, and neither has the server. It holds until the client is misled, and
  what is misled stays so; `Queued` does not depend on it, so that the server is right whatever the client does.
  A piece of a frame that is shorter than its length says is then always an end (`ReadsAnswer`), and a whole one is read back as what was set.
* For `Exchange`, `Heard` counts: as many answers as requests when the client is idle, one less when it waits.
* The messages: `XWritten` says what the bytes of a message are as fields, that reading finds those fields and nothing else, and how
  many bytes they take; `XReadBack` and `XMerges` follow by looking at the last field of each number, in one sequence or in two. The numbers are
  the heart of it: an int32 is read of the groups of seven bits it was written as (`VarintIs`), and a negative one of ten. For a map, `Sums`
  is a sum over a finite set that does not depend on the order, to which both the bytes written and `SumFunction` are shown equal.

These lemmas are inductions, over numbers, sequences and finite sets. They are made with sets instead of predicates: `MeasureInduction` says that a set
that contains an element whenever it contains all of smaller measure contains everything, which follows from the well-founded order
of the naturals.

**Only model-checked.** Everything that is temporal under fairness (`ChangesAreSent`, `PumpFairly`, `AnnouncedArrives` and
`QueuedIsServed`) and the three refuted properties, since the prover has neither fairness nor counterexamples. Every invariant
and every other action property of the passing runs is a theorem.

## Not modelled, and the plan

Not modelled: the logger, `LoggerI` and `defer` (no state a property is about); the terminal; `GitPrivate`'s
`status` and `Git::addAll`, which nobody calls; `responses.proto`, which nobody sends; of the generated code copying, swapping,
arenas and reflection; v2's command lines and TLS; Qt, libgit2, watchdog, protobuf's library and the file system beyond
what the code uses of them.

What is left:

1. `VidServer` by itself: that its directories exist for its files, which `SessionImplementsServer` would carry to a session.
2. A module `VidSystem`, the session with `FileMonitor` in place of any monitor, which would join the last two parts
   that are checked apart. What it would add is the announcements that are not of the right type (`FileMonitor.cpp:193`).
3. The joint of `Exchange` with `ControlClient` and `VidServer`: their `link`, `c2s` and `s2c` hold whole frames, which is what
   `WireImplementsExchange` shows a connection to be as long as its frames arrive in one piece; that the two are one is argued here and not proved.
