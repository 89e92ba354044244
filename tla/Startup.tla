------------------------------ MODULE Startup ------------------------------
(***************************************************************************)
(* From the start of a client to fm->start(): _main() reads the settings   *)
(* or testLogin() has its own, the client connects, logs in and sends the  *)
(* hashes of its HEAD, the server compares, and a strict client goes on    *)
(* only if it is told 0.  The server is a TCPServer: it serves one client  *)
(* at a time, and another one waits in the listen queue.                   *)
(*                                                                         *)
(* What a client sends once it has begun is modelled in VidSession.        *)
(***************************************************************************)
EXTENDS Settings, Listing

CONSTANTS
  Clients,
  Machines,     \* what a client may run on: [ini, head, disk]
  Remotes,      \* what the server may run on: [ini, cwd, folders, committed, head, disk]
  TestPaths,    \* the watchPaths a client may be started with by testLogin()
  Cwd,          \* the current directory of the clients
  DefaultPort, DefaultHost,
  DefaultPath   \* the watchPath of a server that is not told another

NoCode == -1
Nobody == "nobody"
NoRequest == "none"
NoHost == ""   \* what an invalid QVariant converts to

(* Paths that QDir and os.path have nothing to clean of but a slash at the *)
(* end: no part is empty, "." or "..".                                     *)
CleanPaths ==
  {path \in Seq(STRING) : \A i \in DOMAIN path :
     LET next == IF i = Len(path) THEN "" ELSE path[i + 1] IN
     /\ path[i] = Slash => next # Slash
     /\ path[i] = "." /\ (i = 1 \/ path[i - 1] = Slash) => next \notin {"", Slash, "."}}

ASSUME CwdAssumption == Cwd \in CleanPaths /\ Cwd # <<>> /\ Cwd = AbsolutePath(Cwd, <<>>)

ASSUME ClientsAssumption == Nobody \notin Clients /\ TestPaths \subseteq CleanPaths

(* The defaults are valid, values have the types main.cpp converts them to, *)
(* and the paths of a HEAD are relative.                                   *)
ASSUME MachinesAssumption ==
  /\ DefaultHost # Invalid /\ DefaultPort # Invalid
  /\ \A m \in Machines :
       /\ \A at \in DOMAIN m.ini :
            /\ at[2] = "path" => m.ini[at] \in CleanPaths
            /\ at[2] = "strict" => m.ini[at] \in BOOLEAN
       /\ \A path \in m.head : path \in Seq(STRING) /\ path # <<>> /\ path[1] # Slash

VARIABLES
  stage,    \* how far each client is
  machine,  \* its ini file, the relative paths of its HEAD, and its disk
  group,    \* the group its QSettings is in
  config,   \* what it is started with
  sent,     \* the contents of its directory_verification
  code,     \* the code of the last answer it has read
  remote,   \* the server's ini file, directories, HEAD and disk
  server,   \* "starting", "listening" or "exited"
  queue,    \* clients that are connected and not accepted
  serving,  \* the client in service, or Nobody
  request,  \* what a client has sent and the server not read, or NoRequest
  raised    \* clients whose session has ended with an exception

clientVars == <<machine, group, config, sent>>
serverVars == <<remote, server, serving, raised>>
vars == <<stage, clientVars, code, serverVars, queue, request>>

Stages == {"main", "host", "port", "path", "strict", "connecting",
           "unconnected", "login", "verifying", "begun", "refused", "left"}

Connected(c) == stage[c] \in {"login", "verifying", "begun", "refused"}

Init ==
  /\ stage = [c \in Clients |-> "main"]
  /\ machine \in [Clients -> Machines]
  /\ group = [c \in Clients |-> <<>>]
  /\ config = [c \in Clients |->
       [host |-> Invalid, port |-> Invalid, path |-> <<>>, strict |-> FALSE]]
  /\ sent = [c \in Clients |-> <<>>]
  /\ code = [c \in Clients |-> NoCode]
  /\ remote \in Remotes /\ server = "starting"
  /\ queue = <<>> /\ serving = Nobody /\ raised = {}
  /\ request = [c \in Clients |-> NoRequest]

-----------------------------------------------------------------------------
(* main.cpp.                                                               *)

GoTo(c, next) == stage' = [stage EXCEPT ![c] = next]

OnlySetup ==
  UNCHANGED <<machine, sent, code, serverVars, queue, request>>

TestLogin(c) ==
  /\ stage[c] = "main"
  /\ \E path \in TestPaths :
       config' = [config EXCEPT ![c] =
         [host |-> DefaultHost, port |-> DefaultPort, path |-> path, strict |-> FALSE]]
  /\ GoTo(c, "connecting") /\ OnlySetup /\ UNCHANGED group

RunMain(c) ==
  /\ stage[c] = "main" /\ GoTo(c, "host")
  /\ OnlySetup /\ UNCHANGED <<group, config>>

(* One Section::get of _main(): the field of config it sets, and what it   *)
(* sets it to when the result is an invalid QVariant.                      *)
ReadSetting(c, section, field, default, ifInvalid, next) ==
  LET got == Get(machine[c].ini, group[c], section, field, default)
  IN  /\ stage[c] = field
      /\ group' = [group EXCEPT ![c] = got.group]
      /\ config' = [config EXCEPT ![c][field] =
                      IF got.value = Invalid THEN ifInvalid ELSE got.value]
      /\ GoTo(c, next) /\ OnlySetup

Main(c) ==
  \/ ReadSetting(c, "server", "host", DefaultHost, NoHost, "port")
  \/ ReadSetting(c, "server", "port", DefaultPort, 0, "path")
  \/ ReadSetting(c, "local", "path", Invalid, <<>>, "strict")
  \/ ReadSetting(c, "local", "strict", Invalid, FALSE, "connecting")

-----------------------------------------------------------------------------
(* The client.                                                             *)

ServerSetting(key, fallback) ==
  IF key \in DOMAIN remote.ini THEN remote.ini[key] ELSE fallback

Reachable(c) ==
  /\ server = "listening" /\ config[c].host = DefaultHost
  /\ config[c].port = ServerSetting("port", DefaultPort)

(* connectToHost fails; the error is logged, and that is all. *)
ConnectFails(c) ==
  /\ stage[c] = "connecting" /\ ~Reachable(c)
  /\ GoTo(c, "unconnected")
  /\ UNCHANGED <<clientVars, code, serverVars, queue, request>>

(* The listen queue completes the connection; the client logs in at once.  *)
Connect(c) ==
  /\ stage[c] = "connecting" /\ Reachable(c)
  /\ GoTo(c, "login")
  /\ queue' = Append(queue, c)
  /\ request' = [request EXCEPT ![c] = "token_login"]
  /\ UNCHANGED <<clientVars, code, serverVars>>

(* The login is answered, whatever the code: HEAD is listed, hashed, sent. *)
(* Where there is no HEAD to list, the process ends (Leave).               *)
LoginSuccess(c) ==
  /\ stage[c] = "login" /\ code[c] # NoCode
  /\ LET root == AbsolutePath(config[c].path, Cwd)
         hashes == HashFiles(VisitFiles(root, machine[c].head), machine[c].disk)
     IN  \E contents \in Contents(config[c].path, hashes) :
           sent' = [sent EXCEPT ![c] = contents]
  /\ request' = [request EXCEPT ![c] = "directory_verification"]
  /\ code' = [code EXCEPT ![c] = NoCode]
  /\ GoTo(c, "verifying")
  /\ UNCHANGED <<machine, group, config, serverVars, queue>>

Verified(c) ==
  /\ stage[c] = "verifying" /\ code[c] # NoCode
  /\ GoTo(c, IF code[c] # 0 /\ config[c].strict THEN "refused" ELSE "begun")
  /\ UNCHANGED <<clientVars, code, serverVars, queue, request>>

(* A client is in the queue once at most. *)
QueueWithout(c) ==
  LET At == {i \in DOMAIN queue : queue[i] = c}
      i  == CHOOSE i \in At : TRUE
  IN  IF At = {} THEN queue
      ELSE SubSeq(queue, 1, i - 1) \o SubSeq(queue, i + 1, Len(queue))

(* The process ends, or its connection does. *)
Leave(c) ==
  /\ Connected(c) /\ GoTo(c, "left")
  /\ request' = [request EXCEPT ![c] = NoRequest]
  /\ queue' = QueueWithout(c)
  /\ UNCHANGED <<clientVars, code, serverVars>>

-----------------------------------------------------------------------------
(* The server.                                                             *)

WatchPath == AbsolutePath(ServerSetting("watchPath", DefaultPath), remote.cwd)

RunServer ==
  /\ server = "starting"
  /\ server' = IF WatchPath \in remote.folders THEN "listening" ELSE "exited"
  /\ UNCHANGED <<stage, clientVars, code, remote, serving, raised, queue, request>>

(* BUG: the connection in service is still in the queue. *)
AcceptAndKeep ==
  /\ serving = Nobody /\ queue # <<>> /\ serving' = Head(queue)
  /\ UNCHANGED <<stage, clientVars, code, remote, server, queue, request, raised>>

(* serve_forever takes the next connection once handle() has returned. *)
Accept ==
  /\ serving = Nobody /\ queue # <<>>
  /\ serving' = Head(queue) /\ queue' = Tail(queue)
  /\ UNCHANGED <<stage, clientVars, code, remote, server, request, raised>>

Answer(c, answer) ==
  /\ code' = [code EXCEPT ![c] = answer]
  /\ request' = [request EXCEPT ![c] = NoRequest]
  /\ UNCHANGED <<stage, clientVars, remote, server, queue>>

(* BUG: a login that fails ends the session without an answer. *)
TokenLoginOrElse(c) ==
  /\ serving = c /\ request[c] = "token_login"
  /\ \/ Answer(c, 0) /\ UNCHANGED serving
     \/ /\ serving' = Nobody /\ request' = [request EXCEPT ![c] = NoRequest]
        /\ UNCHANGED <<stage, clientVars, code, remote, server, queue>>
  /\ UNCHANGED raised

(* The token is compared with password, which is empty; a client reads no  *)
(* more of the code than that it has come.                                 *)
TokenLogin(c) ==
  /\ serving = c /\ request[c] = "token_login"
  /\ \E answer \in {0, 403} : Answer(c, answer)
  /\ UNCHANGED <<serving, raised>>

(* Without an exception, handle() reads the next request; with one, it     *)
(* ends, and 0 has been answered.                                          *)
DirectoryVerification(c) ==
  /\ serving = c /\ request[c] = "directory_verification"
  /\ \E answer \in Verify(WatchPath, remote, DirName(config[c].path), sent[c]) :
       LET raises == answer = 0 /\ ~CanVerify(WatchPath, remote)
       IN  /\ Answer(c, answer)
           /\ serving' = IF raises THEN Nobody ELSE serving
           /\ raised' = IF raises THEN raised \cup {c} ELSE raised

(* recv returns nothing: the client has left. *)
Hangup ==
  /\ serving # Nobody /\ stage[serving] = "left" /\ serving' = Nobody
  /\ UNCHANGED <<stage, clientVars, code, remote, server, queue, request, raised>>

Server ==
  \/ RunServer \/ Accept \/ Hangup
  \/ \E c \in Clients : TokenLogin(c) \/ DirectoryVerification(c)

Client(c) ==
  \/ TestLogin(c) \/ RunMain(c) \/ Main(c)
  \/ Connect(c) \/ ConnectFails(c) \/ LoginSuccess(c) \/ Verified(c)

Next == Server \/ \E c \in Clients : Client(c) \/ Leave(c)

(* Both programs go on while they can; nobody has to start or leave.       *)
Spec ==
  /\ Init /\ [][Next]_vars /\ WF_vars(Server)
  /\ \A c \in Clients : WF_vars(LoginSuccess(c)) /\ WF_vars(Verified(c))

-----------------------------------------------------------------------------
(* Properties.                                                             *)

(* Every variable keeps to its range; at most one connection is served and *)
(* none is both in service and in the queue.                               *)
StartupTypeOK ==
  /\ stage \in [Clients -> Stages]
  /\ \A c \in Clients : config[c].strict \in BOOLEAN
  /\ code \in [Clients -> {NoCode, 0, 4, 5, 403}]
  /\ queue \in Seq(Clients) /\ serving \in Clients \cup {Nobody}
  /\ \A i, j \in DOMAIN queue : queue[i] = queue[j] => i = j
  /\ \A i \in DOMAIN queue : queue[i] # serving
  /\ request \in [Clients -> {NoRequest, "token_login", "directory_verification"}]
  /\ raised \subseteq Clients /\ server \in {"starting", "listening", "exited"}

(* Of an ordinary ini file no value is ever used: a host that is set reads *)
(* as empty, so that the client never connects, and port, path and strict  *)
(* are always the defaults (Configure.cpp:38-48, main.cpp:65-76).          *)
Defaulted(c) ==
  [host |-> IF <<<<"server">>, "host">> \in DOMAIN machine[c].ini THEN NoHost ELSE DefaultHost,
   port |-> DefaultPort, path |-> <<>>, strict |-> FALSE]

SettingsAreDefaults ==
  \A c \in Clients :
    stage[c] \notin {"main", "host", "port", "path", "strict"}
      /\ group[c] # <<>> /\ Flat(machine[c].ini) => config[c] = Defaulted(c)

(* The server says 0 in a session that goes on only if the client has sent *)
(* exactly the files of its HEAD with their hashes (server.py:112-138).    *)
VerifiedMeansSent ==
  \A c \in Clients :
    stage[c] = "verifying" /\ code[c] = 0 /\ c \notin raised =>
      sent[c] \in FileHash(WatchPath, remote.head, remote.disk)

(* Equal trees do not pass.  With nothing beside the work tree that a      *)
(* glued path could name, only an empty HEAD of the server does; where the *)
(* work tree is "/", which ends in a slash, gluing is no fault and nothing *)
(* is said (GitFile.cpp:53-59, ControlClient.cpp:79-83, Client.cpp:91-95). *)
NothingBeside(c) ==
  LET root == AbsolutePath(config[c].path, Cwd)
  IN  /\ root # <<Slash>>
      /\ \A path \in DOMAIN machine[c].disk :
           /\ Len(path) > Len(root)
           /\ SubSeq(path, 1, Len(root) + 1) = root \o <<Slash>>

OnlyEmptyPasses ==
  \A c \in Clients :
    stage[c] = "verifying" /\ code[c] = 0 /\ c \notin raised /\ NothingBeside(c)
      => remote.head = {}

(* A client that waits is served or leaves, provided nobody stays in       *)
(* service for ever: its login is then answered (server.py:213-216).       *)
Waits(c) == \E i \in DOMAIN queue : queue[i] = c

QueuedIsServed ==
  []<>(serving = Nobody) =>
    \A c \in Clients : Waits(c) ~> (~Waits(c) /\ (code[c] # NoCode \/ stage[c] = "left"))
=============================================================================
