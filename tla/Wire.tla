-------------------------------- MODULE Wire --------------------------------
(***************************************************************************)
(* One connection, byte by byte: Client::sendRequest and onReadyRead with  *)
(* SerializedTool on one end, TCPHandler.read_request and send_response on *)
(* the other, and TCP in between, which keeps the order of the bytes and   *)
(* hands them over in pieces of any length.                                *)
(*                                                                         *)
(* The client sends one request at a time (ControlClient.OneDiffOutstanding*)
(* says that it does); what the server does to its files is left out, so   *)
(* that a handler may answer any of the codes it has.                      *)
(***************************************************************************)
EXTENDS Messages

CONSTANTS
  Logins, Verifications, Diffs,  \* the bodies a client may send
  Password,      \* the server's
  RootName,      \* the last part of the server's watchPath
  Texts,         \* what a response may say
  FirstIds,      \* what the counter of ids, which nobody sets, starts with
  MaxRequests,   \* bound: requests of one connection
  ShortSends     \* whether send() may take less than it is given

None == [none |-> TRUE]

VARIABLES
  assertions,   \* whether Q_ASSERT is compiled in
  client,       \* "idle", "waiting", "aborted", "crashed" or "exited"
  lastId,       \* Client::queryId
  reactors,     \* the keys of Client::requestReact
  server,       \* "header" or "body", what recv waits for, or "closed"
  length,       \* of the body recv waits for
  toServer, toClient,  \* bytes written and not yet read
  buffered,     \* how many of toClient the socket has
  sent,         \* history: the requests, each with the message of its body
  handled,      \* history: what the handlers were given, None if refused
  answer,       \* history: the last response the server has set
  reactions     \* history: the responses reactors were called with

clientVars == <<assertions, client, lastId, reactors>>
serverVars == <<server, length>>
history == <<sent, handled, answer, reactions>>
vars == <<clientVars, serverVars, toServer, toClient, buffered, history>>

Init ==
  /\ assertions \in BOOLEAN
  /\ client = "idle" /\ lastId \in FirstIds /\ reactors = {}
  /\ server = "header" /\ length = 0
  /\ toServer = <<>> /\ toClient = <<>> /\ buffered = 0
  /\ sent = <<>> /\ handled = <<>> /\ answer = None /\ reactions = <<>>

-----------------------------------------------------------------------------
(* The length of a frame, a signed number of four bytes.                   *)

IntToChar(n) == <<n \div 16777216, (n \div 65536) % 256, (n \div 256) % 256, n % 256>>

CharToInt(bytes) ==
  (IF bytes[1] < 128 THEN bytes[1] ELSE bytes[1] - 256) * 16777216
    + bytes[2] * 65536 + bytes[3] * 256 + bytes[4]

Frame(bytes) == IntToChar(Len(bytes)) \o bytes

First(bytes, n) == SubSeq(bytes, 1, n)
After(bytes, n) == SubSeq(bytes, n + 1, Len(bytes))
AtMost(n, m) == IF m < n THEN m ELSE n

-----------------------------------------------------------------------------
(* The client.                                                             *)

(* What SerializeAsString may return for a body. *)
Serialized(proto, body) ==
  CASE proto = 1  -> {SerializeTokenLogin(body)}
    [] proto = 2  -> {SerializeVerification(body, keys) :
                        keys \in SetToSeqs(DOMAIN body.contents)}
    [] proto = 10 -> {SerializeFileDiff(body)}

Wrapped(id, n) ==
  IF id <= MaxInt32 - n THEN id + n ELSE (id - MaxInt32) + (n - MaxInt32) - 2

(* BUG: the id is counted once for the reactor and once for the request. *)
QueryIdTwice == Wrapped(lastId, 2)

QueryId == Wrapped(lastId, 1)   \* _get_query_id, of a std::atomic_int32_t

SendRequest(proto, body) ==
  /\ client = "idle" /\ Len(sent) < MaxRequests
  /\ lastId' = QueryId
  /\ reactors' = reactors \cup {lastId'}
  /\ \E bytes \in Serialized(proto, body) :
       LET req == [EmptyRequest EXCEPT !.id = lastId', !.proto = proto, !.body = bytes]
       IN  /\ toServer' = toServer \o Frame(SerializeRequest(req))
           /\ sent' = Append(sent, [req |-> req, body |-> body])
  /\ client' = "waiting"
  /\ UNCHANGED <<assertions, serverVars, toClient, buffered,
                 handled, answer, reactions>>

TokenLogin == \E body \in Logins : SendRequest(1, body)
DirectoryVerification == \E body \in Verifications : SendRequest(2, body)
FileDiff == \E body \in Diffs : SendRequest(10, body)

(* The reactor of a response is called; ids that nobody asked with, like   *)
(* bytes that are no response, end the program.                            *)
Known(res) == res # Malformed /\ res.id \in reactors

CallReactor(res) ==
  \/ Known(res) /\ client' = "idle" /\ reactions' = Append(reactions, res)
  \/ ~Known(res) /\ client' = "exited" /\ UNCHANGED reactions

(* BUG: the bytes of a response stay in the buffer. *)
ReactPeek(taken, n, available) ==
  /\ UNCHANGED <<toClient, buffered>>
  /\ CallReactor(ParseResponse(SubSeq(toClient, taken + 1, taken + n)))

(* The rest of the slot: the response of n bytes, all of them there. *)
React(taken, n, available) ==
  /\ toClient' = After(toClient, taken + n) /\ buffered' = available - taken - n
  /\ CallReactor(ParseResponse(SubSeq(toClient, taken + 1, taken + n)))

(* BUG: the number of bytes read is not compared with the length. *)
ReadUnchecked(taken, n, available) ==
  n >= 0 /\ React(taken, AtMost(n, available - taken), available)

(* After a header that says n: a frame that is not all there is the end. *)
Read(taken, n, available) ==
  \/ /\ n < 0 \/ available - taken < n
     /\ client' = "aborted" /\ toClient' = <<>> /\ buffered' = 0
     /\ UNCHANGED reactions
  \/ n >= 0 /\ available - taken >= n /\ React(taken, n, available)

(* readyRead, for whatever has arrived.  With less than a header the       *)
(* assertion of charToInt fails or, without assertions, it copies bytes    *)
(* that are not there: the fourth is the terminating NUL of the QByteArray,*)
(* the others are unknown and anything may be read.                        *)
OnReadyRead ==
  /\ client \in {"idle", "waiting"}
  /\ \E available \in buffered + 1 .. Len(toClient) :
       \/ /\ available >= 4
          /\ Read(4, CharToInt(First(toClient, 4)), available)
       \/ /\ available < 4 /\ assertions
          /\ client' = "crashed" /\ toClient' = <<>> /\ buffered' = 0
          /\ UNCHANGED reactions
       \/ /\ available = 3 /\ ~assertions
          /\ Read(3, CharToInt(First(toClient, 3) \o <<0>>), available)
       \/ /\ available < 3 /\ ~assertions
          /\ \E n \in {-1, 0} : Read(available, n, available)
  /\ UNCHANGED <<assertions, lastId, reactors, serverVars, toServer,
                 sent, handled, answer>>

-----------------------------------------------------------------------------
(* The bodies a client builds, far below the 2 GB that protobuf can write: *)
(* Client::fileDiff sends nothing over 10M.  The bytes of a string may be  *)
(* any.                                                                    *)
MostBytes == MaxInt32 - 64

ASSUME BodiesAssumption ==
  /\ \A body \in Logins : /\ IsTokenLogin(body)
                          /\ \A bytes \in Serialized(1, body) : Len(bytes) <= MostBytes
  /\ \A body \in Verifications :
       /\ IsVerification(body)
       /\ \A bytes \in Serialized(2, body) : Len(bytes) <= MostBytes
  /\ \A body \in Diffs : /\ IsFileDiff(body)
                         /\ \A bytes \in Serialized(10, body) : Len(bytes) <= MostBytes

ASSUME WireAssumption ==
  /\ \A msg \in Texts : msg \in Seq(Byte) /\ IsUtf8(msg) /\ Len(msg) <= MostBytes
  /\ FirstIds \subseteq Int32
  /\ MaxRequests \in 0 .. MaxInt32

-----------------------------------------------------------------------------
(* The server.                                                             *)

Close == server' = "closed"

(* recv(n) waits for a byte and returns between one and n of them. *)
Received(n) == {First(toServer, k) : k \in 1 .. AtMost(n, Len(toServer))}

(* recv(4); struct.unpack raises unless there are four. *)
RecvHeader ==
  /\ server = "header"
  /\ \E bytes \in Received(4) :
       /\ toServer' = After(toServer, Len(bytes))
       /\ \/ /\ Len(bytes) = 4 /\ server' = "body" /\ length' = CharToInt(bytes)
          \/ /\ Len(bytes) < 4 /\ Close /\ UNCHANGED length
  /\ UNCHANGED <<clientVars, toClient, buffered, history>>

(* BUG: the response is sent by the handler and by its finally block. *)
SendResponseTwice(res) ==
  LET bytes == Frame(SerializeResponse(res))
  IN  answer' = res /\ toClient' = toClient \o bytes \o bytes

(* send_response; send() says how much it has taken, and nobody asks. *)
SendResponse(res) ==
  LET bytes == Frame(SerializeResponse(res))
  IN  /\ answer' = res
      /\ \E n \in (IF ShortSends THEN 1 .. Len(bytes) ELSE {Len(bytes)}) :
           toClient' = toClient \o First(bytes, n)

Methods == {1, 2, 10}

(* The message of a body, Malformed if parsing raises. *)
Parsed(req) ==
  CASE req.proto = 1  -> ParseTokenLogin(req.body)
    [] req.proto = 2  -> ParseVerification(req.body)
    [] req.proto = 10 -> ParseFileDiff(req.body)

(* What a handler may answer to a message it could parse.  file_hash and   *)
(* the file system may raise too.                                          *)
Codes(proto, body) ==
  CASE proto = 1  -> IF body.token = Password THEN {0} ELSE {403}
    [] proto = 2  -> IF body.root_name # RootName THEN {403} ELSE {0, 4, 5}
    [] proto = 10 -> {0, 404}

MayRaise(proto) == proto # 1

(* A handler of a request whose body has bytes; ParseFromString returns    *)
(* their number, so that a body of none is refused with 403 ...            *)
Handle(req, body) ==
  LET Respond(code, msg) ==
        SendResponse([EmptyResponse EXCEPT !.id = req.id, !.code = code, !.msg = msg])
  IN  \/ /\ req.body = <<>> /\ handled' = Append(handled, None)
         /\ \E msg \in Texts : Respond(403, msg)
         /\ server' = "header"
      \/ /\ req.body # <<>> /\ body # Malformed
         /\ handled' = Append(handled, [proto |-> req.proto, body |-> body])
         /\ \E msg \in Texts :
              \/ /\ \E code \in Codes(req.proto, body) : Respond(code, msg)
                 /\ server' = "header"
              \/ MayRaise(req.proto) /\ Respond(0, msg) /\ Close
      \* ... and one that does not parse ends the loop, after a response.
      \/ /\ body = Malformed /\ handled' = Append(handled, None)
         /\ \E msg \in Texts : Respond(0, msg)
         /\ Close

(* The rest of handle(): raising, it ends the connection. *)
Understood(bytes, req) == Len(bytes) = length /\ req # Malformed /\ req.proto \in Methods

Dispatch(bytes, req) ==
  \/ Understood(bytes, req) /\ Handle(req, Parsed(req))
  \/ ~Understood(bytes, req) /\ Close /\ UNCHANGED <<toClient, handled, answer>>

(* recv(length). *)
RecvBody ==
  /\ server = "body"
  /\ \E bytes \in Received(length) :
       /\ toServer' = After(toServer, Len(bytes))
       /\ Dispatch(bytes, ParseRequest(bytes))
  /\ UNCHANGED <<clientVars, length, buffered, sent, reactions>>

-----------------------------------------------------------------------------
Next ==
  \/ TokenLogin \/ DirectoryVerification \/ FileDiff \/ OnReadyRead
  \/ RecvHeader \/ RecvBody

Spec == Init /\ [][Next]_vars

-----------------------------------------------------------------------------
Responses == ({answer} \cup Range(reactions)) \ {None}

(* Every variable keeps to its range: everything written is a byte, ids    *)
(* are counted one by one, and every response is well-formed, even one     *)
(* that was read from the middle of a frame.                               *)
WireTypeOK ==
  /\ assertions \in BOOLEAN
  /\ client \in {"idle", "waiting", "aborted", "crashed", "exited"}
  /\ \E first \in FirstIds : lastId = Wrapped(first, Len(sent))
  /\ reactors = {sent[i].req.id : i \in DOMAIN sent}
  /\ server \in {"header", "body", "closed"} /\ length \in Int32
  /\ toServer \in Seq(Byte) /\ toClient \in Seq(Byte)
  /\ buffered \in 0 .. Len(toClient)
  /\ Len(handled) <= Len(sent)
  /\ \A i \in DOMAIN sent : IsRequest(sent[i].req)
  /\ \A res \in Responses : IsResponse(res)

BodySize(proto, body) ==
  CASE proto = 1  -> TokenLoginSize(body)
    [] proto = 2  -> VerificationSize(body)
    [] proto = 10 -> FileDiffSize(body)

(* ByteSizeLong, by which the buffer of a message is allocated before      *)
(* SerializeWithCachedSizesToArray fills it without looking, says exactly  *)
(* how many bytes are written (requests.pb.cc:458-488 and its like).        *)
SizesAreExact ==
  /\ \A i \in DOMAIN sent :
       LET req == sent[i].req
       IN  /\ Len(req.body) = BodySize(req.proto, sent[i].body)
           /\ Len(SerializeRequest(req)) = RequestSize(req)
  /\ \A res \in Responses : Len(SerializeResponse(res)) = ResponseSize(res)

Strings(proto, body) ==
  CASE proto = 1  -> {body.token, body.name}
    [] proto = 2  -> {body.root_name} \cup DOMAIN body.contents \cup Range(body.contents)
    [] proto = 10 -> {body.relative_path, body.content}

IsText(proto, body) == \A string \in Strings(proto, body) : IsUtf8(string)

(* However the bytes arrive, and whatever the client has made of answers,  *)
(* the handlers get the bodies of its requests in their order, each as it  *)
(* was set, to the last field and map entry, or refuse it; and text: the   *)
(* C++ end writes strings that are not UTF-8 and only logs it, and no      *)
(* handler ever sees one (server.py:65-76, requests.pb.cc).                *)
HandledIsSentText ==
  \A i \in DOMAIN handled : handled[i] # None =>
    /\ handled[i] = [proto |-> sent[i].req.proto, body |-> sent[i].body]
    /\ IsText(handled[i].proto, handled[i].body)

(* After an empty response, in a release build, anything may be read.      *)
Misled == ~assertions /\ EmptyResponse \in Range(reactions)

(* A reactor is called with the answer the server has set for the request  *)
(* that waits.  Only where Q_ASSERT is compiled out may it be another, and *)
(* the first of those is the empty response, which says 0, success: a      *)
(* header that is cut in three bytes reads as the length 0, and from then  *)
(* on the client may take any bytes for a frame (SerializedTool.cpp:17-22, *)
(* Client.cpp:175-198).                                                     *)
AnswersAreMeant ==
  [][reactions' # reactions =>
       \/ Last(reactions') = answer /\ answer.id = lastId
       \/ ~assertions /\ EmptyResponse \in Range(reactions')]_vars

(* The bytes of a connection implement what ControlClient and VidServer    *)
(* take it for: requests are handled once each and in order, and each is   *)
(* answered, and the answer heard, before the next, as long as the client  *)
(* is not misled (Client.cpp:175-198, server.py:49-81).                     *)
Connection ==
  INSTANCE Exchange WITH Nothing <- None, heard <- reactions, lost <- Misled
Exchanges == Connection!Spec

ParsedBody(proto, bytes) ==
  Parsed([EmptyRequest EXCEPT !.proto = proto, !.body = bytes])

Merged(proto, to, from) ==
  CASE proto = 1  -> MergeTokenLogin(to, from)
    [] proto = 2  -> MergeVerification(to, from)
    [] proto = 10 -> MergeFileDiff(to, from)

(* To read two messages one after the other is to merge the second into    *)
(* the first: the encoding omits exactly the values MergeFrom takes for    *)
(* absent, and the last entry of a key wins (requests.pb.cc:490-520).       *)
ConcatenationMerges ==
  /\ \A i, j \in DOMAIN sent :
       LET a == sent[i].req
           b == sent[j].req
       IN  /\ /\ a.proto = b.proto
              /\ IsText(a.proto, sent[i].body) /\ IsText(b.proto, sent[j].body)
              => ParsedBody(a.proto, a.body \o b.body)
                   = Merged(a.proto, sent[i].body, sent[j].body)
           /\ ParseRequest(SerializeRequest(a) \o SerializeRequest(b)) = MergeRequest(a, b)
  /\ \A a, b \in Responses :
       ParseResponse(SerializeResponse(a) \o SerializeResponse(b)) = MergeResponse(a, b)

(* onReadyRead takes one frame a signal, and that is enough: when the      *)
(* client waits for nothing, no byte of a frame is left on the way or in   *)
(* its socket, where no further signal would ever come for it              *)
(* (Client.cpp:175-198).                                                   *)
NothingStranded ==
  assertions /\ client = "idle" => toServer = <<>> /\ toClient = <<>>
=============================================================================
