------------------------------ MODULE Messages ------------------------------
(***************************************************************************)
(* The messages of model/*.proto and the code protoc has generated for     *)
(* them (the pb.cc and pb2.py files): what each writes, how many bytes it  *)
(* says that is, what it makes of bytes it reads, and what it merges.      *)
(*                                                                         *)
(* A byte is a number below 256 and a string a sequence of bytes, of which *)
(* only those below 128 are UTF-8 here.  What the generated code calls of  *)
(* the protobuf library stands in the first section.  A message keeps the  *)
(* fields it does not know in "unknown".                                   *)
(***************************************************************************)
EXTENDS Integers, FiniteSets, Sequences, SequencesExt

Byte == 0 .. 255
MaxInt32 == 2147483647
Int32 == -MaxInt32 - 1 .. MaxInt32

IsUtf8(string) == \A i \in DOMAIN string : string[i] < 128

-----------------------------------------------------------------------------
(* The library: a field is a tag, 8 * number + type, and a value.          *)

VarintType == 0
ChunkType == 2

(* Groups of seven bits, the lowest first, all but the last with bit 7     *)
(* set.  A negative int32 is extended to 64 bits.                          *)
VarintOf[n \in Nat] ==
  IF n < 128 THEN <<n>> ELSE <<128 + (n % 128)>> \o VarintOf[n \div 128]

Weight == <<1, 128, 16384, 2097152, 268435456>>

Varint(n) ==
  IF n >= 0 THEN VarintOf[n]
  ELSE [i \in 1 .. 10 |-> IF i = 10 THEN 1
                          ELSE IF i > 5 THEN 255 ELSE 128 + ((n \div Weight[i]) % 128)]

(* The low 32 bits of a varint, with their sign. *)
Group(varint, i) == IF i <= Len(varint) THEN varint[i] % 128 ELSE 0

ToInt32(varint) ==
  LET low == Group(varint, 1) + 128 * Group(varint, 2) + 16384 * Group(varint, 3)
               + 2097152 * Group(varint, 4) + 268435456 * (Group(varint, 5) % 8)
  IN  IF Group(varint, 5) % 16 >= 8 THEN (low - 1073741824) - 1073741824 ELSE low

Number(number, n) == <<8 * number + VarintType>> \o Varint(n)
Chunk(number, string) == <<8 * number + ChunkType>> \o Varint(Len(string)) \o string

NumberUnlessZero(number, n) == IF n = 0 THEN <<>> ELSE Number(number, n)
ChunkUnlessEmpty(number, string) == IF string = <<>> THEN <<>> ELSE Chunk(number, string)

(* The size the library computes without writing anything. *)
VarintSize(n) ==
  IF n < 0 THEN 10
  ELSE CHOOSE k \in 1 .. 5 : /\ k = 1 \/ Weight[k] <= n
                             /\ k = 5 \/ n < Weight[k + 1]
StringSize(string) == VarintSize(Len(string)) + Len(string)

(* The fields of bytes, each with the bytes it takes.  A field that is cut *)
(* off, of the number 0 or of a type no message uses is the last.          *)
Cut == [number |-> 0, type |-> 0, value |-> <<>>, bytes |-> <<>>]

VarintEnd(bytes, i) ==
  LET ends == {j \in i .. Len(bytes) : j < i + 10 /\ bytes[j] < 128}
  IN  IF ends = {} THEN 0 ELSE CHOOSE j \in ends : \A k \in ends : j <= k

(* Of a field, what follows a tag and a number that ends at last. *)
FieldAt(bytes, tag, n, last) ==
  LET Field(value, to) == [number |-> tag \div 8, type |-> tag % 8,
                           value |-> value, bytes |-> SubSeq(bytes, 1, to)]
  IN  IF tag < 8 THEN Cut
      ELSE IF tag % 8 = VarintType THEN Field(n, last)
      ELSE IF tag % 8 = ChunkType /\ n \in 0 .. Len(bytes) - last
      THEN Field(SubSeq(bytes, last + 1, last + n), last + n)
      ELSE Cut

FirstField(bytes) ==
  LET tagged == VarintEnd(bytes, 1)
      last   == VarintEnd(bytes, tagged + 1)
  IN  IF tagged = 0 \/ last = 0 THEN Cut
      ELSE FieldAt(bytes, ToInt32(SubSeq(bytes, 1, tagged)),
                   ToInt32(SubSeq(bytes, tagged + 1, last)), last)

Fields[bytes \in Seq(Byte)] ==
  IF bytes = <<>> THEN <<>>
  ELSE LET field == FirstField(bytes)
       IN  IF field.number = 0 THEN <<Cut>>
           ELSE <<field>> \o Fields[SubSeq(bytes, Len(field.bytes) + 1, Len(bytes))]

AreWhole(fields) == \A i \in DOMAIN fields : fields[i].number # 0

Places(fields, number, type) ==
  {i \in DOMAIN fields : fields[i].number = number /\ fields[i].type = type}

(* Parsing reads field after field into the message, so that the last one  *)
(* of a number wins; fields of other tags are kept as they are.            *)
LastOf(fields, number, type, default) ==
  LET places == Places(fields, number, type)
  IN  IF places = {} THEN default ELSE fields[Max(places)].value

Unknown(fields, tags) ==
  FlattenSeq([i \in DOMAIN fields |->
                IF <<fields[i].number, fields[i].type>> \in tags THEN <<>>
                ELSE fields[i].bytes])

(* BUG: strings are not verified. *)
AreTextUnchecked(fields, numbers) == TRUE

(* VerifyUtf8String(..., PARSE, ...). *)
AreText(fields, numbers) ==
  \A number \in numbers : \A i \in Places(fields, number, ChunkType) :
    IsUtf8(fields[i].value)

(* What could be read, whose strings have these numbers: all or nothing.   *)
Malformed == [malformed |-> TRUE]

Message(fields, numbers, message) ==
  IF AreWhole(fields) /\ AreText(fields, numbers) THEN message ELSE Malformed

(* What a message may have read and kept. *)
AreUnknown(bytes, tags) ==
  LET fields == Fields[bytes]
  IN  /\ bytes \in Seq(Byte) /\ AreWhole(fields)
      /\ \A i \in DOMAIN fields : <<fields[i].number, fields[i].type>> \notin tags

(* MergeFrom of one field: the default value does not overwrite. *)
NewString(to, from) == IF from = <<>> THEN to ELSE from
NewNumber(to, from) == IF from = 0 THEN to ELSE from

-----------------------------------------------------------------------------
(* communication.Request                                                   *)

EmptyRequest == [proto |-> 0, id |-> 0, body |-> <<>>, unknown |-> <<>>]

SerializeRequest(m) ==
  NumberUnlessZero(1, m.proto) \o NumberUnlessZero(2, m.id)
    \o ChunkUnlessEmpty(3, m.body) \o m.unknown

(* BUG: the tag of body is not counted. *)
RequestSizeUntagged(m) ==
  Len(m.unknown)
    + (IF m.body = <<>> THEN 0 ELSE StringSize(m.body))
    + (IF m.proto = 0 THEN 0 ELSE 1 + VarintSize(m.proto))
    + (IF m.id = 0 THEN 0 ELSE 1 + VarintSize(m.id))

RequestSize(m) ==
  Len(m.unknown)
    + (IF m.body = <<>> THEN 0 ELSE 1 + StringSize(m.body))
    + (IF m.proto = 0 THEN 0 ELSE 1 + VarintSize(m.proto))
    + (IF m.id = 0 THEN 0 ELSE 1 + VarintSize(m.id))

RequestTags == {<<1, VarintType>>, <<2, VarintType>>, <<3, ChunkType>>}

IsRequest(m) ==
  /\ m \in [proto : Int32, id : Int32, body : Seq(Byte), unknown : Seq(Byte)]
  /\ AreUnknown(m.unknown, RequestTags)

RequestOf(fields) ==
  [proto |-> LastOf(fields, 1, VarintType, 0), id |-> LastOf(fields, 2, VarintType, 0),
   body |-> LastOf(fields, 3, ChunkType, <<>>), unknown |-> Unknown(fields, RequestTags)]

ParseRequest(bytes) == Message(Fields[bytes], {}, RequestOf(Fields[bytes]))

MergeRequest(to, from) ==
  [proto |-> NewNumber(to.proto, from.proto), id |-> NewNumber(to.id, from.id),
   body |-> NewString(to.body, from.body), unknown |-> to.unknown \o from.unknown]

-----------------------------------------------------------------------------
(* communication.Response                                                  *)

EmptyResponse ==
  [code |-> 0, id |-> 0, msg |-> <<>>, body |-> <<>>, unknown |-> <<>>]

SerializeResponse(m) ==
  NumberUnlessZero(1, m.code) \o NumberUnlessZero(2, m.id)
    \o ChunkUnlessEmpty(3, m.msg) \o ChunkUnlessEmpty(4, m.body) \o m.unknown

ResponseSize(m) ==
  Len(m.unknown)
    + (IF m.msg = <<>> THEN 0 ELSE 1 + StringSize(m.msg))
    + (IF m.body = <<>> THEN 0 ELSE 1 + StringSize(m.body))
    + (IF m.code = 0 THEN 0 ELSE 1 + VarintSize(m.code))
    + (IF m.id = 0 THEN 0 ELSE 1 + VarintSize(m.id))

ResponseTags ==
  {<<1, VarintType>>, <<2, VarintType>>, <<3, ChunkType>>, <<4, ChunkType>>}

IsResponse(m) ==
  /\ m \in [code : Int32, id : Int32, msg : Seq(Byte), body : Seq(Byte), unknown : Seq(Byte)]
  /\ IsUtf8(m.msg) /\ AreUnknown(m.unknown, ResponseTags)

ResponseOf(fields) ==
  [code |-> LastOf(fields, 1, VarintType, 0), id |-> LastOf(fields, 2, VarintType, 0),
   msg |-> LastOf(fields, 3, ChunkType, <<>>), body |-> LastOf(fields, 4, ChunkType, <<>>),
   unknown |-> Unknown(fields, ResponseTags)]

ParseResponse(bytes) == Message(Fields[bytes], {3}, ResponseOf(Fields[bytes]))

MergeResponse(to, from) ==
  [code |-> NewNumber(to.code, from.code), id |-> NewNumber(to.id, from.id),
   msg |-> NewString(to.msg, from.msg), body |-> NewString(to.body, from.body),
   unknown |-> to.unknown \o from.unknown]

-----------------------------------------------------------------------------
(* communication.request.TokenLogin                                        *)

EmptyTokenLogin == [token |-> <<>>, name |-> <<>>, unknown |-> <<>>]

SerializeTokenLogin(m) ==
  ChunkUnlessEmpty(1, m.token) \o ChunkUnlessEmpty(2, m.name) \o m.unknown

TokenLoginSize(m) ==
  Len(m.unknown)
    + (IF m.token = <<>> THEN 0 ELSE 1 + StringSize(m.token))
    + (IF m.name = <<>> THEN 0 ELSE 1 + StringSize(m.name))

TokenLoginTags == {<<1, ChunkType>>, <<2, ChunkType>>}

IsTokenLogin(m) ==
  /\ m \in [token : Seq(Byte), name : Seq(Byte), unknown : Seq(Byte)]
  /\ AreUnknown(m.unknown, TokenLoginTags)

TokenLoginOf(fields) ==
  [token |-> LastOf(fields, 1, ChunkType, <<>>), name |-> LastOf(fields, 2, ChunkType, <<>>),
   unknown |-> Unknown(fields, TokenLoginTags)]

ParseTokenLogin(bytes) == Message(Fields[bytes], {1, 2}, TokenLoginOf(Fields[bytes]))

MergeTokenLogin(to, from) ==
  [token |-> NewString(to.token, from.token), name |-> NewString(to.name, from.name),
   unknown |-> to.unknown \o from.unknown]

-----------------------------------------------------------------------------
(* communication.request.DirectoryVerification: contents is a map, written *)
(* as one entry a key, in any order, with empty values too.                *)

EmptyVerification == [root_name |-> <<>>, contents |-> <<>>, unknown |-> <<>>]

Entry(key, value) == Chunk(1, key) \o Chunk(2, value)

SerializeVerification(m, keys) ==
  ChunkUnlessEmpty(1, m.root_name)
    \o FlattenSeq([i \in DOMAIN keys |-> Chunk(2, Entry(keys[i], m.contents[keys[i]]))])
    \o m.unknown

VerificationSize(m) ==
  Len(m.unknown)
    + SumFunction(
        [key \in DOMAIN m.contents |->
           1 + StringSize(Entry(key, m.contents[key]))])
    + (IF m.root_name = <<>> THEN 0 ELSE 1 + StringSize(m.root_name))

(* ContentsEntry: what is missing is empty, what is unknown is dropped.    *)
EntryOf(fields) ==
  [key |-> LastOf(fields, 1, ChunkType, <<>>), value |-> LastOf(fields, 2, ChunkType, <<>>)]

EntryIsText(entry) == IsUtf8(entry.key) /\ IsUtf8(entry.value)

ParseEntry(bytes) ==
  IF AreWhole(Fields[bytes]) /\ EntryIsText(EntryOf(Fields[bytes]))
  THEN EntryOf(Fields[bytes]) ELSE Malformed

(* The last entry of a key wins.                                           *)
ContentsOf(entries) ==
  [key \in {entries[i].key : i \in DOMAIN entries} |->
     entries[Max({i \in DOMAIN entries : entries[i].key = key})].value]

VerificationTags == {<<1, ChunkType>>, <<2, ChunkType>>}

IsVerification(m) ==
  /\ m = [root_name |-> m.root_name, contents |-> m.contents, unknown |-> m.unknown]
  /\ m.root_name \in Seq(Byte) /\ m.contents \in [DOMAIN m.contents -> Seq(Byte)]
  /\ IsFiniteSet(DOMAIN m.contents) /\ DOMAIN m.contents \subseteq Seq(Byte)
  /\ AreUnknown(m.unknown, VerificationTags)

VerificationOf(fields, entries) ==
  [root_name |-> LastOf(fields, 1, ChunkType, <<>>), contents |-> ContentsOf(entries),
   unknown |-> Unknown(fields, VerificationTags)]

Entries(fields) == [i \in Places(fields, 2, ChunkType) |-> ParseEntry(fields[i].value)]

VerificationWith(fields, entries) ==
  IF \E i \in DOMAIN entries : entries[i] = Malformed THEN Malformed
  ELSE Message(fields, {1}, VerificationOf(fields, entries))

ParseVerification(bytes) == VerificationWith(Fields[bytes], Entries(Fields[bytes]))

(* The entries of both maps, and of a key that both have the one of over. *)
Overlaid(map, over) ==
  [key \in DOMAIN map \cup DOMAIN over |-> IF key \in DOMAIN over THEN over[key] ELSE map[key]]

(* BUG: a key that both have keeps its old value. *)
MergeVerificationOld(to, from) ==
  [root_name |-> NewString(to.root_name, from.root_name),
   contents |-> Overlaid(from.contents, to.contents),
   unknown |-> to.unknown \o from.unknown]

MergeVerification(to, from) ==
  [root_name |-> NewString(to.root_name, from.root_name),
   contents |-> Overlaid(to.contents, from.contents),
   unknown |-> to.unknown \o from.unknown]

-----------------------------------------------------------------------------
(* communication.request.FileDiff                                          *)

EmptyFileDiff ==
  [relative_path |-> <<>>, content |-> <<>>, status |-> 0, unknown |-> <<>>]

SerializeFileDiff(m) ==
  ChunkUnlessEmpty(1, m.relative_path) \o ChunkUnlessEmpty(2, m.content)
    \o NumberUnlessZero(3, m.status) \o m.unknown

FileDiffSize(m) ==
  Len(m.unknown)
    + (IF m.relative_path = <<>> THEN 0 ELSE 1 + StringSize(m.relative_path))
    + (IF m.content = <<>> THEN 0 ELSE 1 + StringSize(m.content))
    + (IF m.status = 0 THEN 0 ELSE 1 + VarintSize(m.status))

FileDiffTags == {<<1, ChunkType>>, <<2, ChunkType>>, <<3, VarintType>>}

IsFileDiff(m) ==
  /\ m \in [relative_path : Seq(Byte), content : Seq(Byte), status : Int32,
            unknown : Seq(Byte)]
  /\ AreUnknown(m.unknown, FileDiffTags)

FileDiffOf(fields) ==
  [relative_path |-> LastOf(fields, 1, ChunkType, <<>>),
   content |-> LastOf(fields, 2, ChunkType, <<>>),
   status |-> LastOf(fields, 3, VarintType, 0), unknown |-> Unknown(fields, FileDiffTags)]

ParseFileDiff(bytes) == Message(Fields[bytes], {1, 2}, FileDiffOf(Fields[bytes]))

MergeFileDiff(to, from) ==
  [relative_path |-> NewString(to.relative_path, from.relative_path),
   content |-> NewString(to.content, from.content),
   status |-> NewNumber(to.status, from.status), unknown |-> to.unknown \o from.unknown]
=============================================================================
