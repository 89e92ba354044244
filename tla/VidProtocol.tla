---------------------------- MODULE VidProtocol ----------------------------
(***************************************************************************)
(* The vocabulary the Vid client and the Vid server share: what can be on  *)
(* disk at a path, the changes the client announces, and the frames of the *)
(* TCP protocol (model/base.proto, model/requests.proto).  A file's bytes  *)
(* are one of a few kinds, the ones the two programs treat differently.    *)
(***************************************************************************)
EXTENDS Integers, Sequences

CONSTANTS
  Paths,     \* paths relative to the watched root
  Texts,     \* contents of an ordinary text file
  IdModulus  \* how many int32 query ids there are (2^32 in the program)

ASSUME IdModulusAssumption == IdModulus \in Nat \ {0}

Absent == "absent"   \* nothing at that path
Empty  == "empty"    \* a file of no bytes; also an unset protobuf string
Binary == "binary"   \* bytes that are not UTF-8
TooBig == "toobig"   \* more than 10 * 1024 * 1024 bytes
Crlf   == "crlf"     \* text whose lines end in CR LF
Lf     == "lf"       \* that text without its CRs
Torn   == "torn"     \* truncated by open(path, 'w') and then written in part

SpecialStates == {Absent, Empty, Binary, TooBig, Crlf, Lf, Torn}

FileStates == Texts \cup SpecialStates

ASSUME TextsAssumption == Texts \cap SpecialStates = {}

-----------------------------------------------------------------------------
(* FileMonitor::FileChangeType, and an entry of the queue of changes. *)
ChangeTypes == {"modified", "add", "removed"}

Changes == [path : Paths, type : ChangeTypes]

-----------------------------------------------------------------------------
(* communication::Protocol; heart_beat is never sent. *)
Handshakes == {"token_login", "directory_verification"}

Protocols == Handshakes \cup {"file_diff"}

(* Query ids are a 32-bit atomic counter that wraps around. *)
Ids == 0 .. (IdModulus - 1)

(* BUG: the counter is wider than the field it is sent in. *)
NextIdUnbounded(id) == id + 1

NextId(id) == (id + 1) % IdModulus

(* communication::Request with its body. *)
Requests ==
  [proto : Handshakes, id : Ids]
    \cup [proto : {"file_diff"}, id : Ids,
          path : Paths, type : ChangeTypes, content : FileStates]

(* The response codes the server uses. *)
Codes == {0, 4, 5, 403, 404}

(* communication::Response; msg is only logged and body is never set. *)
Responses == [id : Ids, code : Codes]
=============================================================================
