----------------------------- MODULE VidServer -----------------------------
(***************************************************************************)
(* The Python server, Vid-Server/vidserver/server.py: one TCPHandler       *)
(* serving one client, and the directory it writes to.  Every handler      *)
(* sends its response in a finally block, with code 0 unless it has set    *)
(* another, and an exception then ends the loop of handle() and closes the *)
(* connection.                                                             *)
(*                                                                         *)
(* The client is open here: it may send any request and leave at any time. *)
(* VidSession composes this module with the real client.                   *)
(***************************************************************************)
EXTENDS VidProtocol

CONSTANTS
  Root,          \* watchPath, which run_server requires to exist
  Dirs,          \* the directories that may exist, watchPath included
  DirOf,         \* DirOf[p]: the directory a path is in
  ServerFaults,  \* which of ServerFaultKinds may happen
  MaxInFlight    \* bound: requests and responses of the open client under way

ServerFaultKinds == {
  "remove",     \* os.remove fails: permissions, a directory of that name
  "write",      \* makedirs, open or write fails: permissions, a full disk, ...
  "hash",       \* a file of HEAD is not in the work tree: file_hash raises
  "shortRecv"}  \* recv(length) returns less than a whole frame

VARIABLES
  session,   \* "waiting" in the listen queue, "serving" or "closed"
  link,      \* the client's end: "connecting", "up" or "down"
  c2s, s2c,  \* requests not yet received, responses not yet read
  isLogin,   \* self.is_login, which no handler reads
  remote,    \* the content of each path under watchPath
  dirs       \* the directories that exist, their ancestors included

serverVars == <<session, link, c2s, s2c, isLogin, remote, dirs>>

-----------------------------------------------------------------------------
(* A work tree: every file is in a directory that exists. *)
WorkTree(files, existing) ==
  Root \in existing /\ \A p \in Paths : files[p] # Absent => DirOf[p] \in existing

Init ==
  /\ session = "waiting" /\ link = "connecting"
  /\ c2s = <<>> /\ s2c = <<>>
  /\ isLogin = TRUE
  /\ remote \in [Paths -> Texts \cup {Absent}]
  /\ dirs \in SUBSET Dirs
  /\ WorkTree(remote, dirs)

(* serve_forever accepts the connection and runs its handler. *)
Accept ==
  /\ session = "waiting" /\ link = "up" /\ session' = "serving"
  /\ UNCHANGED <<link, c2s, s2c, isLogin, remote, dirs>>

Received(proto) == session = "serving" /\ c2s # <<>> /\ Head(c2s).proto = proto

(* BUG: the response is sent by the handler and by its finally block. *)
RespondTwice(code) ==
  /\ c2s' = Tail(c2s)
  /\ s2c' = s2c \o << [id |-> Head(c2s).id, code |-> code],
                     [id |-> Head(c2s).id, code |-> code] >>
  /\ UNCHANGED link

(* send_response; nobody reads it once the client has left. *)
Respond(code) ==
  /\ c2s' = Tail(c2s)
  /\ s2c' = IF link = "up" THEN Append(s2c, [id |-> Head(c2s).id, code |-> code])
            ELSE s2c
  /\ UNCHANGED link

(* The handler returns, and handle() reads the next request. *)
Return(code) == Respond(code) /\ UNCHANGED session

(* BUG: handle() goes on after an exception. *)
RaiseAndGoOn == Respond(0) /\ UNCHANGED session

(* The handler raises: its finally block answers with the code so far, 0,  *)
(* and handle() breaks.                                                    *)
Raise == Respond(0) /\ session' = "closed"

-----------------------------------------------------------------------------
(* BUG: a code no other part of the program uses. *)
TokenLoginUnauthorized(match) ==
  /\ Received("token_login")
  /\ isLogin' = match
  /\ Return(IF match THEN 0 ELSE 401)
  /\ UNCHANGED <<remote, dirs>>

(* token_login: the token matches the password or not.                     *)
TokenLogin(match) ==
  /\ Received("token_login")
  /\ isLogin' = match
  /\ Return(IF match THEN 0 ELSE 403)
  /\ UNCHANGED <<remote, dirs>>

(* directory_verification: the comparison is abstracted to its outcome;    *)
(* list_all_files and file_hash may raise.                                 *)
DirectoryVerification ==
  /\ Received("directory_verification")
  /\ \/ \E code \in {0, 403, 4, 5} : Return(code)
     \/ "hash" \in ServerFaults /\ Raise
  /\ UNCHANGED <<isLogin, remote, dirs>>

-----------------------------------------------------------------------------
(* file_diff, one action for each way through it.                          *)

Diff == Head(c2s)

(* The body's content field is not UTF-8: ParseFromString raises. *)
Undecodable ==
  /\ Received("file_diff") /\ Diff.content = Binary
  /\ Raise /\ UNCHANGED <<isLogin, remote, dirs>>

Decoded(types) ==
  Received("file_diff") /\ Diff.content # Binary /\ Diff.type \in types

RemoveFile ==
  /\ Decoded({"removed"})
  /\ \/ /\ remote' = [remote EXCEPT ![Diff.path] = Absent] /\ Return(0)
     \/ /\ "remove" \in ServerFaults /\ remote[Diff.path] # Absent
        /\ Return(404) /\ UNCHANGED remote
  /\ UNCHANGED <<isLogin, dirs>>

(* os.makedirs, for an added file only. *)
DirsFor(diff) ==
  IF diff.type = "add" THEN dirs \cup {DirOf[diff.path]} ELSE dirs

WriteFile ==
  /\ Decoded({"add", "modified"})
  /\ DirOf[Diff.path] \in DirsFor(Diff)
  /\ dirs' = DirsFor(Diff)
  /\ remote' = [remote EXCEPT ![Diff.path] = Diff.content]
  /\ Return(0) /\ UNCHANGED isLogin

(* open() raises FileNotFoundError: a modified file whose directory is not *)
(* there.                                                                  *)
NoParent ==
  /\ Decoded({"add", "modified"}) /\ DirOf[Diff.path] \notin DirsFor(Diff)
  /\ Raise /\ UNCHANGED <<isLogin, remote, dirs>>

(* makedirs, open or write raises; open has truncated the file by then.    *)
WriteFails ==
  /\ "write" \in ServerFaults /\ Decoded({"add", "modified"})
  /\ dirs' \in {dirs, DirsFor(Diff)}
  /\ \/ remote' = remote
     \/ /\ DirOf[Diff.path] \in dirs'
        /\ remote' = [remote EXCEPT ![Diff.path] = Torn]
  /\ Raise /\ UNCHANGED isLogin

FileDiff == Undecodable \/ RemoveFile \/ WriteFile \/ NoParent \/ WriteFails

-----------------------------------------------------------------------------
(* read_request raises: the client has left, or the frame came in parts.   *)
ReadFails ==
  /\ session = "serving"
  /\ link = "down" \/ ("shortRecv" \in ServerFaults /\ c2s # <<>>)
  /\ session' = "closed" /\ c2s' = <<>>
  /\ UNCHANGED <<link, s2c, isLogin, remote, dirs>>

Handle ==
  \/ \E match \in BOOLEAN : TokenLogin(match)
  \/ DirectoryVerification \/ FileDiff

ServerNext == Accept \/ Handle \/ ReadFails

-----------------------------------------------------------------------------
(* The client, left open: one turn of its event loop may connect, read one *)
(* response and send one request; and it may leave at any time.            *)
OnlyClient == UNCHANGED <<session, isLogin, remote, dirs>>

Turn ==
  /\ link # "down" /\ link' = "up"
  /\ s2c' = s2c \/ (s2c # <<>> /\ s2c' = Tail(s2c))
  /\ \/ c2s' = c2s
     \/ /\ Len(c2s) + Len(s2c') < MaxInFlight
        /\ \E request \in Requests : c2s' = Append(c2s, request)
  /\ OnlyClient

Leave ==
  /\ link' = "down" /\ s2c' = <<>>
  /\ OnlyClient /\ UNCHANGED c2s

Next == ServerNext \/ Turn \/ Leave

Spec == Init /\ [][Next]_serverVars

-----------------------------------------------------------------------------
(* Every variable keeps to its range. *)
ServerTypeOK ==
  /\ session \in {"waiting", "serving", "closed"}
  /\ link \in {"connecting", "up", "down"}
  /\ c2s \in Seq(Requests) /\ s2c \in Seq(Responses)
  /\ isLogin \in BOOLEAN
  /\ remote \in [Paths -> FileStates] /\ dirs \in SUBSET Dirs

(* A change has taken effect under watchPath (server.py:160-182). *)
Applied(diff, files) ==
  files[diff.path] = IF diff.type = "removed" THEN Absent ELSE diff.content

(* A file_diff that is answered with code 0, "success" (on which the       *)
(* client emits diffComplete(queryId, true), Client.cpp:150-166), has      *)
(* taken effect, or the session ends at once, before another change is     *)
(* applied to a mirror that has silently fallen behind (server.py:49-63,   *)
(* 144-184).                                                               *)
SuccessMeansAppliedOrClosed ==
  [][Received("file_diff") /\ Len(s2c') > Len(s2c) /\ s2c'[Len(s2c')].code = 0
       => Applied(Diff, remote') \/ session' = "closed"]_serverVars
=============================================================================
