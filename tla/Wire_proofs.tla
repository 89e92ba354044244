------------------------------ MODULE Wire_proofs ------------------------------
(***************************************************************************)
(* What holds of one connection, for every body, id and text, and however  *)
(* its bytes arrive.                                                       *)
(***************************************************************************)
EXTENDS Wire, Messages_proofs

-----------------------------------------------------------------------------
(* The length of a frame.                                                  *)

LEMMA IntToCharType ==
  ASSUME NEW n \in Nat, n <= MaxInt32
  PROVE  IntToChar(n) \in Seq(Byte) /\ Len(IntToChar(n)) = 4 /\ IntToChar(n)[1] < 128
<1>1. n < 2147483648
  BY MaxInt32Value, SMT
<1>2. n \div 16777216 \in 0 .. 127
  BY <1>1, SMT
<1>3. \A k \in Nat : k % 256 \in 0 .. 255
  OBVIOUS
<1>4. n \div 65536 \in Nat /\ n \div 256 \in Nat
  BY SMT
<1> DEFINE a == n \div 16777216
           b == (n \div 65536) % 256
           c == (n \div 256) % 256
           d == n % 256
<1>5. a \in 0 .. 127 /\ b \in 0 .. 255 /\ c \in 0 .. 255 /\ d \in 0 .. 255
  BY <1>2, <1>3, <1>4
<1>6. IntToChar(n) = <<a, b, c, d>>
  BY DEF IntToChar
<1> HIDE DEF a, b, c, d
<1> QED
  BY <1>5, <1>6, ByteElements

LEMMA CharToIntType ==
  ASSUME NEW s \in Seq(Byte), Len(s) = 4
  PROVE  CharToInt(s) \in Int32
<1> DEFINE a == IF s[1] < 128 THEN s[1] ELSE s[1] - 256
<1>1. /\ s[1] \in 0 .. 255 /\ s[2] \in 0 .. 255
      /\ s[3] \in 0 .. 255 /\ s[4] \in 0 .. 255
  <2>1. ASSUME NEW i \in 1 .. 4 PROVE s[i] \in Byte
    <3>1. i \in 1 .. Len(s)
      OBVIOUS
    <3> QED
      BY <3>1, ElementOfSeq
  <2> QED
    BY <2>1 DEF Byte
<1>2. a \in Int /\ -128 <= a /\ a < 128
  <2> DEFINE A(x) == IF x < 128 THEN x ELSE x - 256
  <2>1. \A x \in 0 .. 255 : A(x) \in Int /\ -128 <= A(x) /\ A(x) < 128
    BY SMT
  <2>2. a = A(s[1])
    OBVIOUS
  <2> HIDE DEF A, a
  <2> QED
    BY <1>1, <2>1, <2>2
<1>3. CharToInt(s) = a * 16777216 + s[2] * 65536 + s[3] * 256 + s[4]
  BY SMT DEF CharToInt
<1> DEFINE b == s[2]
           c == s[3]
           d == s[4]
<1>4. b \in 0 .. 255 /\ c \in 0 .. 255 /\ d \in 0 .. 255
  BY <1>1
<1>5. CharToInt(s) = a * 16777216 + b * 65536 + c * 256 + d
  BY <1>3, SMT
<1> HIDE DEF a, b, c, d
<1>6. /\ CharToInt(s) \in Int
      /\ -2147483647 - 1 <= CharToInt(s) /\ CharToInt(s) <= 2147483647
  BY <1>2, <1>4, <1>5, SMT
<1> QED
  BY <1>6, MaxInt32Value, Int32Elements, SMT

(* The bytes of a length are read as that length, and its first three, with *)
(* a NUL after them, as no more, and as 0 only when it is below 256.         *)
LEMMA LengthReadBack ==
  ASSUME NEW n \in Nat, n <= MaxInt32
  PROVE  /\ CharToInt(IntToChar(n)) = n
         /\ \A d : CharToInt(<<IntToChar(n)[1], IntToChar(n)[2], IntToChar(n)[3], d>>)
                     = n - (n % 256) + d
<1> DEFINE a == n \div 16777216
           b == (n \div 65536) % 256
           c == (n \div 256) % 256
<1>1. IntToChar(n) = <<a, b, c, n % 256>> /\ a < 128
  BY IntToCharType DEF IntToChar
<1>2. a * 16777216 + b * 65536 + c * 256 = n - (n % 256)
  BY SMT
<1>3. a \in Nat /\ b \in Nat /\ c \in Nat /\ n % 256 \in Nat
  BY SMT
<1>4. \A d : CharToInt(<<a, b, c, d>>) = a * 16777216 + b * 65536 + c * 256 + d
  BY <1>1, SMT DEF CharToInt
<1> HIDE DEF a, b, c
<1>5. \A d : CharToInt(<<a, b, c, d>>) = n - (n % 256) + d
  BY <1>2, <1>4, SMT
<1>6. /\ IntToChar(n)[1] = a /\ IntToChar(n)[2] = b /\ IntToChar(n)[3] = c
      /\ IntToChar(n) = <<a, b, c, n % 256>>
  BY <1>1
<1>7. (n - (n % 256)) + (n % 256) = n
  BY <1>3
<1> QED
  BY <1>5, <1>6, <1>7

-----------------------------------------------------------------------------
(* A frame, and frames in a row.                                           *)

LEMMA FrameFacts ==
  ASSUME NEW b \in Seq(Byte), Len(b) <= MaxInt32
  PROVE  /\ Frame(b) \in Seq(Byte) /\ Len(Frame(b)) = 4 + Len(b)
         /\ \A r \in Seq(Byte) :
              LET t == Frame(b) \o r
              IN  /\ t \in Seq(Byte) /\ Len(t) = 4 + Len(b) + Len(r)
                  /\ First(t, 4) = IntToChar(Len(b)) /\ CharToInt(First(t, 4)) = Len(b)
                  /\ After(t, 4) = b \o r
<1> DEFINE h == IntToChar(Len(b))
<1>1. Len(b) \in Nat
  BY LenProperties
<1>2. h \in Seq(Byte) /\ Len(h) = 4 /\ CharToInt(h) = Len(b)
  BY <1>1, IntToCharType, LengthReadBack
<1>3. Frame(b) = h \o b
  BY DEF Frame
<1> HIDE DEF h
<1>4. Frame(b) \in Seq(Byte) /\ Len(Frame(b)) = 4 + Len(b)
  <2>1. h \o b \in Seq(Byte) /\ Len(h \o b) = Len(h) + Len(b)
    BY <1>2, ConcatProperties
  <2> QED
    BY <1>2, <1>3, <2>1
<1>5. ASSUME NEW r \in Seq(Byte)
      PROVE  LET t == Frame(b) \o r
             IN  /\ t \in Seq(Byte) /\ Len(t) = 4 + Len(b) + Len(r)
                 /\ First(t, 4) = IntToChar(Len(b)) /\ CharToInt(First(t, 4)) = Len(b)
                 /\ After(t, 4) = b \o r
  <2> DEFINE q == b \o r
             t == Frame(b) \o r
  <2>1. q \in Seq(Byte)
    OBVIOUS
  <2>2. t = h \o q
    <3>1. \A x, y, z \in Seq(Byte) : (x \o y) \o z = x \o (y \o z)
      BY Regroup
    <3> QED
      BY <1>2, <1>3, <3>1
  <2>3. t \in Seq(Byte) /\ Len(t) = 4 + Len(b) + Len(r)
    BY <1>4
  <2> HIDE DEF t, q
  <2>4. SubSeq(t, 1, 4) = h /\ SubSeq(t, 4 + 1, Len(t)) = q
    BY <1>2, <2>1, <2>2, FrontAndRest
  <2>5. First(t, 4) = h /\ After(t, 4) = q
    BY <2>4, Zenon DEF First, After
  <2> QED
    BY <1>2, <2>3, <2>5 DEF t, q, h
<1> QED
  BY <1>4, <1>5

(* What is read of the front of a sequence, and what that leaves. *)
LEMMA Taken ==
  ASSUME NEW b \in Seq(Byte), NEW r \in Seq(Byte)
  PROVE  First(b \o r, Len(b)) = b /\ After(b \o r, Len(b)) = r
BY FrontAndRest, Zenon DEF First, After

LEMMA FirstAndAfter ==
  ASSUME NEW s \in Seq(Byte), NEW n \in 0 .. Len(s)
  PROVE  /\ First(s, n) \in Seq(Byte) /\ Len(First(s, n)) = n
         /\ After(s, n) \in Seq(Byte) /\ Len(After(s, n)) = Len(s) - n
         /\ s = First(s, n) \o After(s, n)
<1> DEFINE p == SubSeq(s, 1, n)
           r == SubSeq(s, n + 1, Len(s))
<1>1. /\ p \in Seq(Byte) /\ Len(p) = n /\ r \in Seq(Byte) /\ Len(r) = Len(s) - n
      /\ s = p \o r
  BY Split
<1>2. First(s, n) = p /\ After(s, n) = r
  BY Zenon DEF First, After
<1> HIDE DEF p, r
<1> QED
  BY <1>1, <1>2, Zenon

-----------------------------------------------------------------------------
(* What a client may send, and a server answer.                            *)

Bodies(proto) ==
  CASE proto = 1 -> Logins [] proto = 2 -> Verifications [] proto = 10 -> Diffs

Sendable ==
  {x \in [req : [proto : Methods, id : Int32, body : Seq(Byte), unknown : {<<>>}],
          body : Logins \cup Verifications \cup Diffs] :
     x.body \in Bodies(x.req.proto) /\ x.req.body \in Serialized(x.req.proto, x.body)}

Replies ==
  [code : {0, 4, 5, 403, 404}, id : Int32, msg : Texts, body : {<<>>}, unknown : {<<>>}]

(* What a response may be read as. *)
Readable ==
  {res \in [code : Int32, id : Int32, msg : Seq(Byte), body : Seq(Byte),
            unknown : Seq(Byte)] :
     IsResponse(res) /\ Short(res.msg) /\ Short(res.body)}

LEMMA VarintSizeBound ==
  ASSUME NEW n \in Int32
  PROVE  VarintSize(n) \in 1 .. 10 /\ (n >= 0 => VarintSize(n) <= 5)
<1>1. n \in Int
  BY Int32Elements
<1>2. CASE n < 0
  BY <1>1, <1>2 DEF VarintSize
<1>3. CASE n >= 0
  <2>1. n \in Nat
    BY <1>1, <1>3
  <2>2. \/ VarintSize(n) = 1 \/ VarintSize(n) = 2 \/ VarintSize(n) = 3
        \/ VarintSize(n) = 4 \/ VarintSize(n) = 5
    BY <2>1, VarintSizes, SMT
  <2> QED
    BY <2>2
<1> QED
  BY <1>1, <1>2, <1>3

LEMMA BoundedShort ==
  ASSUME NEW s \in Seq(Byte), Len(s) <= MostBytes
  PROVE  /\ Short(s) /\ Len(s) \in Nat
         /\ StringSize(s) \in Nat /\ StringSize(s) <= MaxInt32 - 59
<1>1. Len(s) \in Nat /\ Len(s) <= MaxInt32 - 64 /\ MaxInt32 \in Nat
  BY MaxInt32Type, LenProperties DEF MostBytes
<1>2. Len(s) <= MaxInt32 /\ Len(s) \in Int32 /\ Len(s) >= 0
  BY <1>1, Int32Elements
<1>3. VarintSize(Len(s)) \in 1 .. 10 /\ VarintSize(Len(s)) <= 5
  BY <1>2, VarintSizeBound
<1>4. StringSize(s) = VarintSize(Len(s)) + Len(s)
  BY DEF StringSize
<1> DEFINE v == VarintSize(Len(s))
           l == Len(s)
<1> HIDE DEF v, l
<1>5. StringSize(s) = v + l /\ v \in 1 .. 10 /\ v <= 5 /\ l \in Nat /\ l <= MaxInt32 - 64
  BY <1>1, <1>3, <1>4 DEF v, l
<1>6. StringSize(s) \in Nat /\ StringSize(s) <= MaxInt32 - 59
  BY <1>1, <1>5
<1> QED
  BY <1>1, <1>2, <1>6 DEF Short

(* bytes are what the body is written as: it is what they are parsed as.   *)
WrittenAs(proto, body, bytes) ==
  /\ bytes \in Seq(Byte) /\ Len(bytes) <= MostBytes
  /\ Len(bytes) = BodySize(proto, body)
  /\ \A req : req.proto = proto /\ req.body = bytes =>
       Parsed(req) = IF IsText(proto, body) THEN body ELSE Malformed

LEMMA UpToMost ==
  ASSUME NEW bytes \in Seq(Byte), Len(bytes) <= MostBytes
  PROVE  Len(bytes) <= MaxInt32
<1>1. Len(bytes) \in Nat
  BY LenProperties
<1> QED
  BY <1>1, MaxInt32Type DEF MostBytes

LEMMA Different == ~ (1 = 2) /\ ~ (1 = 10) /\ ~ (2 = 10) /\ ~ (2 = 1) /\ ~ (10 = 1) /\ ~ (10 = 2)
OBVIOUS

LEMMA TokenLoginBody ==
  ASSUME NEW body \in Logins, NEW bytes \in Serialized(1, body)
  PROVE  /\ WrittenAs(1, body, bytes) /\ bytes = SerializeTokenLogin(body)
         /\ IsTokenLogin(body) /\ Short(body.token) /\ Short(body.name)
         /\ IsText(1, body) <=> IsUtf8(body.token) /\ IsUtf8(body.name)
<1>1. bytes = SerializeTokenLogin(body)
  BY Different DEF Serialized
<1>2. IsTokenLogin(body) /\ Len(bytes) <= MostBytes
  BY BodiesAssumption
<1>3. bytes \in Seq(Byte)
  BY <1>1, <1>2, TokenLoginShort
<1>4. Len(bytes) <= MaxInt32
  BY <1>2, <1>3, UpToMost
<1>5. Short(body.token) /\ Short(body.name)
  BY <1>1, <1>2, <1>4, TokenLoginShort
<1>6. Len(bytes) = TokenLoginSize(body)
  BY <1>1, <1>2, <1>5, TokenLoginWritten
<1>7. BodySize(1, body) = TokenLoginSize(body) /\ Strings(1, body) = {body.token, body.name}
  BY Different DEF BodySize, Strings
<1>8. IsText(1, body) <=> IsUtf8(body.token) /\ IsUtf8(body.name)
  BY <1>7 DEF IsText
<1>9. ParseTokenLogin(bytes) = IF IsText(1, body) THEN body ELSE Malformed
  BY <1>1, <1>2, <1>5, <1>8, TokenLoginReadBack
<1>10. ASSUME NEW req, req.proto = 1, req.body = bytes
       PROVE  Parsed(req) = IF IsText(1, body) THEN body ELSE Malformed
  <2>1. Parsed(req) = ParseTokenLogin(req.body)
    BY <1>10, Different DEF Parsed
  <2> QED
    BY <1>9, <1>10, <2>1
<1>11. WrittenAs(1, body, bytes)
  BY <1>2, <1>3, <1>6, <1>7, <1>10 DEF WrittenAs
<1> QED
  BY <1>1, <1>2, <1>5, <1>8, <1>11

LEMMA FileDiffBody ==
  ASSUME NEW body \in Diffs, NEW bytes \in Serialized(10, body)
  PROVE  /\ WrittenAs(10, body, bytes) /\ bytes = SerializeFileDiff(body)
         /\ IsFileDiff(body) /\ Short(body.relative_path) /\ Short(body.content)
         /\ IsText(10, body) <=> IsUtf8(body.relative_path) /\ IsUtf8(body.content)
<1>1. bytes = SerializeFileDiff(body)
  BY Different DEF Serialized
<1>2. IsFileDiff(body) /\ Len(bytes) <= MostBytes
  BY BodiesAssumption
<1>3. bytes \in Seq(Byte)
  BY <1>1, <1>2, FileDiffShort
<1>4. Len(bytes) <= MaxInt32
  BY <1>2, <1>3, UpToMost
<1>5. Short(body.relative_path) /\ Short(body.content)
  BY <1>1, <1>2, <1>4, FileDiffShort
<1>6. Len(bytes) = FileDiffSize(body)
  BY <1>1, <1>2, <1>5, FileDiffWritten
<1>7. /\ BodySize(10, body) = FileDiffSize(body)
      /\ Strings(10, body) = {body.relative_path, body.content}
  BY Different DEF BodySize, Strings
<1>8. IsText(10, body) <=> IsUtf8(body.relative_path) /\ IsUtf8(body.content)
  BY <1>7 DEF IsText
<1>9. ParseFileDiff(bytes) = IF IsText(10, body) THEN body ELSE Malformed
  BY <1>1, <1>2, <1>5, <1>8, FileDiffReadBack
<1>10. ASSUME NEW req, req.proto = 10, req.body = bytes
       PROVE  Parsed(req) = IF IsText(10, body) THEN body ELSE Malformed
  <2>1. Parsed(req) = ParseFileDiff(req.body)
    BY <1>10, Different DEF Parsed
  <2> QED
    BY <1>9, <1>10, <2>1
<1>11. WrittenAs(10, body, bytes)
  BY <1>2, <1>3, <1>6, <1>7, <1>10 DEF WrittenAs
<1> QED
  BY <1>1, <1>2, <1>5, <1>8, <1>11

LEMMA VerificationBody ==
  ASSUME NEW body \in Verifications, NEW bytes \in Serialized(2, body)
  PROVE  /\ WrittenAs(2, body, bytes) /\ IsVerification(body) /\ AllShort(body)
         /\ \E keys \in SetToSeqs(DOMAIN body.contents) :
              bytes = SerializeVerification(body, keys)
         /\ IsText(2, body) <=> AllText(body)
<1>1. PICK keys \in SetToSeqs(DOMAIN body.contents) : bytes = SerializeVerification(body, keys)
  <2>1. Serialized(2, body) = {SerializeVerification(body, keys) :
                                 keys \in SetToSeqs(DOMAIN body.contents)}
    BY Different, Zenon DEF Serialized
  <2> QED
    BY <2>1
<1>2. IsVerification(body) /\ Len(bytes) <= MostBytes
  BY BodiesAssumption
<1>3. bytes \in Seq(Byte)
  BY <1>1, <1>2, VerificationShort
<1>4. Len(bytes) <= MaxInt32
  BY <1>2, <1>3, UpToMost
<1>5. AllShort(body)
  BY <1>1, <1>2, <1>4, VerificationShort
<1>6. Len(bytes) = VerificationSize(body)
  BY <1>1, <1>2, <1>5, VerificationWritten
<1>7. /\ BodySize(2, body) = VerificationSize(body)
      /\ Strings(2, body) = {body.root_name} \cup DOMAIN body.contents \cup Range(body.contents)
  BY Different, Zenon DEF BodySize, Strings
<1>8. IsText(2, body) <=> AllText(body)
  <2>1. Range(body.contents) = {body.contents[k] : k \in DOMAIN body.contents}
    BY DEF Range
  <2> QED
    BY <1>7, <2>1 DEF IsText, AllText
<1>9. ParseVerification(bytes) = IF IsText(2, body) THEN body ELSE Malformed
  BY <1>1, <1>2, <1>5, <1>8, VerificationReadBack
<1>10. ASSUME NEW req, req.proto = 2, req.body = bytes
       PROVE  Parsed(req) = IF IsText(2, body) THEN body ELSE Malformed
  <2>1. Parsed(req) = ParseVerification(req.body)
    BY <1>10, Different DEF Parsed
  <2> QED
    BY <1>9, <1>10, <2>1
<1>11. WrittenAs(2, body, bytes)
  BY <1>2, <1>3, <1>6, <1>7, <1>10 DEF WrittenAs
<1> QED
  BY <1>1, <1>2, <1>5, <1>8, <1>11

LEMMA BodyWritten ==
  ASSUME NEW proto \in Methods, NEW body \in Bodies(proto),
         NEW bytes \in Serialized(proto, body)
  PROVE  WrittenAs(proto, body, bytes) /\ body \in Logins \cup Verifications \cup Diffs
<1>1. CASE proto = 1
  BY <1>1, Different, TokenLoginBody DEF Bodies
<1>2. CASE proto = 2
  BY <1>2, Different, VerificationBody DEF Bodies
<1>3. CASE proto = 10
  BY <1>3, Different, FileDiffBody DEF Bodies
<1> QED
  BY <1>1, <1>2, <1>3 DEF Methods

LEMMA SendableFacts ==
  ASSUME NEW x \in Sendable
  PROVE  /\ IsRequest(x.req) /\ Short(x.req.body)
         /\ SerializeRequest(x.req) \in Seq(Byte)
         /\ Len(SerializeRequest(x.req)) <= MaxInt32
         /\ Len(SerializeRequest(x.req)) = RequestSize(x.req)
         /\ Len(x.req.body) = BodySize(x.req.proto, x.body)
         /\ Parsed(x.req) = IF IsText(x.req.proto, x.body) THEN x.body ELSE Malformed
<1> DEFINE req == x.req
<1>1. /\ req = [proto |-> req.proto, id |-> req.id, body |-> req.body, unknown |-> <<>>]
      /\ req.proto \in Methods /\ req.id \in Int32 /\ req.body \in Seq(Byte)
      /\ req.unknown = <<>>
      /\ x.body \in Bodies(req.proto) /\ req.body \in Serialized(req.proto, x.body)
  BY DEF Sendable
<1> HIDE DEF req
<1>2. WrittenAs(req.proto, x.body, req.body)
  BY <1>1, BodyWritten
<1>3. req.proto \in Int32
  <2>1. MaxInt32 >= 10 /\ MaxInt32 \in Nat
    BY MaxInt32Value, SMT
  <2> QED
    BY <1>1, <2>1, Int32Elements DEF Methods
<1>4. /\ Short(req.body) /\ StringSize(req.body) \in Nat
      /\ StringSize(req.body) <= MaxInt32 - 59
  BY <1>1, <1>2, BoundedShort DEF WrittenAs
<1>5. AreUnknown(<<>>, RequestTags) /\ <<>> \in Seq(Byte)
  BY NothingUnknown
<1>6. IsRequest(req)
  <2>1. \A p, i \in Int32, b, u \in Seq(Byte) :
          [proto |-> p, id |-> i, body |-> b, unknown |-> u]
            \in [proto : Int32, id : Int32, body : Seq(Byte), unknown : Seq(Byte)]
    OBVIOUS
  <2>2. [proto |-> req.proto, id |-> req.id, body |-> req.body, unknown |-> <<>>]
          \in [proto : Int32, id : Int32, body : Seq(Byte), unknown : Seq(Byte)]
    BY <1>1, <1>3, <1>5, <2>1, Zenon
  <2>3. req \in [proto : Int32, id : Int32, body : Seq(Byte), unknown : Seq(Byte)]
    BY <1>1, <2>2, Zenon
  <2> QED
    BY <1>1, <1>5, <2>3, Zenon DEF IsRequest
<1>7. /\ \E fields : RequestIn(req, SerializeRequest(req), fields)
      /\ Len(SerializeRequest(req)) = RequestSize(req)
  BY <1>4, <1>6, RequestWritten
<1>8. SerializeRequest(req) \in Seq(Byte)
  BY <1>7 DEF RequestIn, Reads
<1>9. RequestSize(req) <= MaxInt32
  <2> DEFINE B == IF req.body = <<>> THEN 0 ELSE 1 + StringSize(req.body)
             P == IF req.proto = 0 THEN 0 ELSE 1 + VarintSize(req.proto)
             I == IF req.id = 0 THEN 0 ELSE 1 + VarintSize(req.id)
             U == Len(req.unknown)
  <2>1. VarintSize(req.proto) \in 1 .. 10 /\ VarintSize(req.id) \in 1 .. 10
    BY <1>1, <1>3, VarintSizeBound
  <2>2. P \in 0 .. 11 /\ I \in 0 .. 11
    BY <2>1
  <2>3. B \in Nat /\ B <= MaxInt32 - 58
    BY <1>4, MaxInt32Value, SMT
  <2>4. U = 0
    <3>1. Len(<<>>) = 0
      OBVIOUS
    <3> QED
      BY <1>1, <3>1, Zenon
  <2>5. RequestSize(req) = U + B + P + I
    BY Zenon DEF RequestSize
  <2> HIDE DEF B, P, I, U
  <2> QED
    BY <2>2, <2>3, <2>4, <2>5, MaxInt32Type
<1>10. Parsed(req) = IF IsText(req.proto, x.body) THEN x.body ELSE Malformed
  BY <1>2, Zenon DEF WrittenAs
<1>11. Len(req.body) = BodySize(req.proto, x.body)
  BY <1>2 DEF WrittenAs
<1> QED
  BY <1>4, <1>6, <1>7, <1>8, <1>9, <1>10, <1>11 DEF req

LEMMA ReplyFacts ==
  ASSUME NEW res \in Replies
  PROVE  /\ res \in Readable
         /\ SerializeResponse(res) \in Seq(Byte)
         /\ Len(SerializeResponse(res)) <= MaxInt32
<1>1. /\ res = [code |-> res.code, id |-> res.id, msg |-> res.msg, body |-> <<>>, unknown |-> <<>>]
      /\ res.code \in {0, 4, 5, 403, 404} /\ res.id \in Int32 /\ res.msg \in Texts
      /\ res.body = <<>> /\ res.unknown = <<>>
  BY DEF Replies
<1>2. res.code \in Int32
  <2>1. MaxInt32 >= 404 /\ MaxInt32 \in Nat
    BY MaxInt32Value, SMT
  <2> QED
    BY <1>1, <2>1, Int32Elements
<1>3. res.msg \in Seq(Byte) /\ IsUtf8(res.msg) /\ Len(res.msg) <= MostBytes
  BY <1>1, WireAssumption
<1>4. Short(res.msg) /\ StringSize(res.msg) \in Nat /\ StringSize(res.msg) <= MaxInt32 - 59
  BY <1>3, BoundedShort
<1>5. Short(<<>>) /\ <<>> \in Seq(Byte)
  BY MaxInt32Type DEF Short
<1>6. AreUnknown(<<>>, ResponseTags)
  BY NothingUnknown
<1>7. IsResponse(res)
  <2>1. \A c, i \in Int32, m, b, u \in Seq(Byte) :
          [code |-> c, id |-> i, msg |-> m, body |-> b, unknown |-> u]
            \in [code : Int32, id : Int32, msg : Seq(Byte), body : Seq(Byte), unknown : Seq(Byte)]
    OBVIOUS
  <2>2. [code |-> res.code, id |-> res.id, msg |-> res.msg, body |-> <<>>, unknown |-> <<>>]
          \in [code : Int32, id : Int32, msg : Seq(Byte), body : Seq(Byte), unknown : Seq(Byte)]
    BY <1>1, <1>2, <1>3, <1>5, <2>1, Zenon
  <2>3. res \in [code : Int32, id : Int32, msg : Seq(Byte), body : Seq(Byte), unknown : Seq(Byte)]
    BY <1>1, <2>2, Zenon
  <2> QED
    BY <1>1, <1>3, <1>6, <2>3, Zenon DEF IsResponse
<1>8. res \in Readable
  BY <1>1, <1>4, <1>5, <1>7 DEF Readable, IsResponse
<1>9. /\ \E fields : ResponseIn(res, SerializeResponse(res), fields)
      /\ Len(SerializeResponse(res)) = ResponseSize(res)
  BY <1>1, <1>4, <1>5, <1>7, ResponseWritten
<1>10. SerializeResponse(res) \in Seq(Byte)
  BY <1>9 DEF ResponseIn, Reads
<1>11. ResponseSize(res) <= MaxInt32
  <2> DEFINE c == VarintSize(res.code)
             i == VarintSize(res.id)
             m == StringSize(res.msg)
  <2>1. c \in 1 .. 10 /\ i \in 1 .. 10 /\ m \in Nat /\ m <= MaxInt32 - 59 /\ MaxInt32 \in Nat
    BY <1>1, <1>2, <1>4, VarintSizeBound, MaxInt32Type
  <2>2. ResponseSize(res) = 0 + (IF res.msg = <<>> THEN 0 ELSE 1 + m) + 0
                              + (IF res.code = 0 THEN 0 ELSE 1 + c)
                              + (IF res.id = 0 THEN 0 ELSE 1 + i)
    <3> DEFINE M == IF res.msg = <<>> THEN 0 ELSE 1 + StringSize(res.msg)
               B == IF res.body = <<>> THEN 0 ELSE 1 + StringSize(res.body)
               C == IF res.code = 0 THEN 0 ELSE 1 + VarintSize(res.code)
               I == IF res.id = 0 THEN 0 ELSE 1 + VarintSize(res.id)
    <3>1. Len(res.unknown) = 0
      <4>1. Len(<<>>) = 0
        OBVIOUS
      <4> QED
        BY <1>1, <4>1, Zenon
    <3>2. B = 0
      BY <1>1, Zenon
    <3>3. ResponseSize(res) = Len(res.unknown) + M + B + C + I
      BY Zenon DEF ResponseSize
    <3>4. ResponseSize(res) = 0 + M + 0 + C + I
      <4> HIDE DEF M, B, C, I
      <4> QED
        BY <3>1, <3>2, <3>3, Zenon
    <3> QED
      BY <3>4, Zenon
  <2> HIDE DEF c, i, m
  <2> QED
    BY <2>1, <2>2
<1> QED
  BY <1>8, <1>9, <1>10, <1>11

LEMMA ReadableFacts ==
  ASSUME NEW res \in Readable
  PROVE  /\ IsResponse(res)
         /\ Len(SerializeResponse(res)) = ResponseSize(res)
         /\ ParseResponse(SerializeResponse(res)) = res
<1>1. IsResponse(res) /\ Short(res.msg) /\ Short(res.body) /\ IsUtf8(res.msg)
  BY DEF Readable, IsResponse
<1> QED
  BY <1>1, ResponseWritten, ResponseReadBack

-----------------------------------------------------------------------------
(* The bytes of requests that have been sent one after the other.          *)

FramesOf(requests) ==
  FlattenSeq([i \in DOMAIN requests |-> Frame(SerializeRequest(requests[i].req))])

LEMMA FramesOfNothing == FramesOf(<<>>) = <<>>
<1> DEFINE g == [i \in DOMAIN <<>> |-> Frame(SerializeRequest(<<>>[i].req))]
<1>1. g = <<>>
  OBVIOUS
<1> HIDE DEF g
<1>2. FlattenSeq(g) = <<>>
  BY <1>1, FlattenEmpty, Zenon
<1> QED
  BY <1>2, Zenon DEF FramesOf, g

Framed == [x \in Sendable |-> Frame(SerializeRequest(x.req))]

LEMMA FramesOfIs ==
  /\ Maps(Framed, Sendable, Seq(Byte))
  /\ \A s \in Seq(Sendable) :
       /\ FramesOf(s) = FlattenSeq(Mapped(Framed, s))
       /\ Mapped(Framed, s) \in Seq(Seq(Byte))
<1>1. Maps(Framed, Sendable, Seq(Byte))
  BY SendableFacts, FrameFacts DEF Framed, Maps
<1>2. ASSUME NEW s \in Seq(Sendable)
      PROVE  /\ FramesOf(s) = FlattenSeq(Mapped(Framed, s))
             /\ Mapped(Framed, s) \in Seq(Seq(Byte))
  <2>1. \A i \in DOMAIN s : Framed[s[i]] = Frame(SerializeRequest(s[i].req))
    BY DEF Framed
  <2>2. Mapped(Framed, s) = [i \in DOMAIN s |-> Frame(SerializeRequest(s[i].req))]
    BY <2>1 DEF Mapped
  <2>3. Mapped(Framed, s) \in Seq(Seq(Byte))
    BY <1>1, MapType
  <2> QED
    BY <2>2, <2>3, Zenon DEF FramesOf
<1> QED
  BY <1>1, <1>2

LEMMA FramesOfConcat ==
  ASSUME NEW s \in Seq(Sendable), NEW t \in Seq(Sendable)
  PROVE  FramesOf(s \o t) = FramesOf(s) \o FramesOf(t) /\ FramesOf(s) \in Seq(Byte)
<1> DEFINE w == s \o t
           f == Mapped(Framed, s)
           g == Mapped(Framed, t)
           h == Mapped(Framed, w)
<1>1. h = f \o g
  <2>1. Maps(Framed, Sendable, Seq(Byte))
    BY FramesOfIs
  <2>2. \A a, b \in Seq(Sendable) :
          Mapped(Framed, a \o b) = Mapped(Framed, a) \o Mapped(Framed, b)
    BY <2>1, MapConcat
  <2> QED
    BY <2>2, Zenon
<1>2. w \in Seq(Sendable)
  OBVIOUS
<1>3. f \in Seq(Seq(Byte)) /\ g \in Seq(Seq(Byte)) /\ FramesOf(s) = FlattenSeq(f)
      /\ FramesOf(t) = FlattenSeq(g) /\ FramesOf(w) = FlattenSeq(h)
  BY <1>2, FramesOfIs
<1> HIDE DEF f, g, h, w
<1>4. FlattenSeq(f \o g) = FlattenSeq(f) \o FlattenSeq(g)
  BY <1>3, FlattenConcat
<1>5. FlattenSeq(f) \in Seq(Byte)
  <2>1. <<>> \in Seq(Byte)
    OBVIOUS
  <2> QED
    BY <1>3, <2>1, FlattenLast
<1>6. FramesOf(w) = FramesOf(s) \o FramesOf(t)
  BY <1>1, <1>3, <1>4
<1> QED
  BY <1>3, <1>5, <1>6 DEF w

LEMMA FramesOfOne ==
  ASSUME NEW x \in Sendable
  PROVE  FramesOf(<<x>>) = Frame(SerializeRequest(x.req))
<1> DEFINE b == Frame(SerializeRequest(x.req))
           g == [i \in DOMAIN <<x>> |-> Frame(SerializeRequest(<<x>>[i].req))]
<1>1. b \in Seq(Byte)
  BY SendableFacts, FrameFacts
<1>2. g = <<b>>
  OBVIOUS
<1> HIDE DEF b, g
<1>3. FlattenSeq(<<>> \o <<b>>) = FlattenSeq(<<>>) \o b
  <2>1. <<>> \in Seq(Seq(Byte))
    OBVIOUS
  <2> QED
    BY <1>1, <2>1, FlattenLast
<1>4. <<>> \o <<b>> = <<b>> /\ <<>> \o b = b
  BY <1>1
<1>5. FlattenSeq(<<b>>) = b
  BY <1>3, <1>4, FlattenEmpty
<1>6. FlattenSeq(g) = b
  BY <1>2, <1>5
<1> QED
  BY <1>6, Zenon DEF FramesOf, b, g

(* The requests a server has not read: the first, the others and one more. *)
LEMMA TailIs ==
  ASSUME NEW S, NEW s \in Seq(S), NEW k \in 1 .. Len(s)
  PROVE  /\ SubSeq(s, k, Len(s)) = <<s[k]>> \o SubSeq(s, k + 1, Len(s))
         /\ SubSeq(s, k + 1, Len(s)) \in Seq(S) /\ s[k] \in S
<1> DEFINE n == Len(s)
           a == SubSeq(s, k, n)
           b == SubSeq(s, k + 1, n)
           c == <<s[k]>> \o b
<1>1. n \in Nat /\ k \in Nat \ {0} /\ k + 1 \in Nat \ {0} /\ k <= n /\ s[k] \in S
  BY LenProperties, ElementOfSeq
<1>2. n \in 0 .. Len(s)
  BY <1>1
<1>3. /\ a \in Seq(S) /\ Len(a) = n - k + 1
      /\ \A i \in 1 .. Len(a) : a[i] = s[k + i - 1]
  BY <1>1, <1>2, PieceType
<1>4. /\ b \in Seq(S) /\ Len(b) = n - k
      /\ \A i \in 1 .. Len(b) : b[i] = s[k + 1 + i - 1]
  <2>1. /\ b \in Seq(S) /\ Len(b) = (IF k + 1 <= n THEN n - (k + 1) + 1 ELSE 0)
        /\ \A i \in 1 .. Len(b) : b[i] = s[k + 1 + i - 1]
    BY <1>1, <1>2, PieceType
  <2> HIDE DEF b, n
  <2> QED
    BY <1>1, <2>1
<1> HIDE DEF a, b, n
<1>5. c \in Seq(S) /\ IsConcat(c, <<s[k]>>, b)
  <2>1. <<s[k]>> \in Seq(S)
    BY <1>1
  <2> QED
    BY <1>4, <2>1, ElementsOfConcat
<1> HIDE DEF c
<1>6. Len(c) = Len(a) /\ Len(<<s[k]>>) = 1 /\ <<s[k]>>[1] = s[k]
  BY <1>1, <1>3, <1>4, <1>5 DEF IsConcat
<1>7. ASSUME NEW i \in 1 .. Len(a) PROVE a[i] = c[i]
  <2>1. CASE i = 1
    BY <1>1, <1>3, <1>5, <1>6, <2>1 DEF IsConcat
  <2>2. CASE i > 1
    <3>1. i - 1 \in 1 .. Len(b) /\ k + 1 + (i - 1) - 1 = k + i - 1
      BY <1>1, <1>3, <1>4, <2>2
    <3>2. c[1 + (i - 1)] = b[i - 1]
      BY <1>5, <1>6, <3>1 DEF IsConcat
    <3>3. 1 + (i - 1) = i
      OBVIOUS
    <3>4. b[i - 1] = s[k + 1 + (i - 1) - 1]
      BY <1>4, <3>1
    <3> QED
      BY <1>3, <3>1, <3>2, <3>3, <3>4
  <2> QED
    BY <2>1, <2>2
<1>8. a = c
  BY <1>3, <1>5, <1>6, <1>7, SeqEqual
<1> QED
  BY <1>1, <1>4, <1>8 DEF a, b, c, n

LEMMA TailOfAppend ==
  ASSUME NEW S, NEW s \in Seq(S), NEW x \in S, NEW k \in 1 .. Len(s) + 1
  PROVE  /\ SubSeq(Append(s, x), k, Len(Append(s, x))) = SubSeq(s, k, Len(s)) \o <<x>>
         /\ SubSeq(s, k, Len(s)) \in Seq(S)
<1> DEFINE n == Len(s)
           t == Append(s, x)
           m == Len(t)
           a == SubSeq(t, k, m)
           b == SubSeq(s, k, n)
           c == b \o <<x>>
<1>1. n \in Nat /\ k \in Nat \ {0} /\ k <= n + 1
  BY LenProperties
<1>2. t \in Seq(S) /\ m = n + 1 /\ t[n + 1] = x /\ \A i \in 1 .. n : t[i] = s[i]
  BY AppendProperties
<1>3. n \in 0 .. Len(s) /\ m \in 0 .. Len(t)
  BY <1>1, <1>2
<1>4. /\ a \in Seq(S) /\ Len(a) = n + 1 - k + 1
      /\ \A i \in 1 .. Len(a) : a[i] = t[k + i - 1]
  <2>1. /\ a \in Seq(S) /\ Len(a) = (IF k <= m THEN m - k + 1 ELSE 0)
        /\ \A i \in 1 .. Len(a) : a[i] = t[k + i - 1]
    BY <1>1, <1>2, <1>3, PieceType
  <2> HIDE DEF a, n, m, t
  <2> QED
    BY <1>1, <1>2, <2>1
<1>5. /\ b \in Seq(S) /\ Len(b) = n - k + 1
      /\ \A i \in 1 .. Len(b) : b[i] = s[k + i - 1]
  <2>1. /\ b \in Seq(S) /\ Len(b) = (IF k <= n THEN n - k + 1 ELSE 0)
        /\ \A i \in 1 .. Len(b) : b[i] = s[k + i - 1]
    BY <1>1, <1>3, PieceType
  <2> HIDE DEF b, n
  <2> QED
    BY <1>1, <2>1
<1> HIDE DEF a, b, n, m, t
<1>6. c \in Seq(S) /\ IsConcat(c, b, <<x>>)
  <2>1. <<x>> \in Seq(S)
    OBVIOUS
  <2> QED
    BY <1>5, <2>1, ElementsOfConcat
<1> HIDE DEF c
<1>7. Len(c) = Len(a) /\ Len(<<x>>) = 1 /\ <<x>>[1] = x
  BY <1>1, <1>4, <1>5, <1>6 DEF IsConcat
<1>8. ASSUME NEW i \in 1 .. Len(a) PROVE a[i] = c[i]
  <2>1. CASE i \in 1 .. Len(b)
    <3>1. c[i] = b[i] /\ b[i] = s[k + i - 1] /\ a[i] = t[k + i - 1]
      BY <1>4, <1>5, <1>6, <2>1 DEF IsConcat
    <3>2. k + i - 1 \in 1 .. n
      BY <1>1, <1>5, <2>1
    <3> QED
      BY <1>2, <3>1, <3>2
  <2>2. CASE i \notin 1 .. Len(b)
    <3>1. i = Len(b) + 1 /\ k + i - 1 = n + 1
      BY <1>1, <1>4, <1>5, <2>2
    <3>2. c[Len(b) + 1] = x
      BY <1>6, <1>7 DEF IsConcat
    <3> QED
      BY <1>2, <1>4, <3>1, <3>2
  <2> QED
    BY <2>1, <2>2
<1>9. a = c
  BY <1>4, <1>6, <1>7, <1>8, SeqEqual
<1> QED
  BY <1>5, <1>9 DEF a, b, c, n, m, t

-----------------------------------------------------------------------------
(* The inductive invariant.                                                *)

Handled == {None} \cup [proto : Methods, body : Logins \cup Verifications \cup Diffs]

Typed ==
  /\ assertions \in BOOLEAN
  /\ client \in {"idle", "waiting", "aborted", "crashed", "exited"}
  /\ server \in {"header", "body", "closed"} /\ length \in Int32
  /\ toServer \in Seq(Byte) /\ toClient \in Seq(Byte)
  /\ buffered \in 0 .. Len(toClient)
  /\ sent \in Seq(Sendable) /\ handled \in Seq(Handled)
  /\ answer \in Replies \cup {None} /\ reactions \in Seq(Readable)

(* The ids are counted, and the last request has the last of them. *)
Counted ==
  /\ Len(sent) <= MaxRequests
  /\ \E first \in FirstIds : lastId = Wrapped(first, Len(sent))
  /\ reactors = {sent[i].req.id : i \in DOMAIN sent}
  /\ sent # <<>> => sent[Len(sent)].req.id = lastId

FramesFrom(k) == FramesOf(SubSeq(sent, k, Len(sent)))

(* What a server that has not closed the connection has still to read is    *)
(* the requests it has not handled, from the next on or from its body on.   *)
Queued ==
  /\ Len(handled) <= Len(sent)
  /\ server = "header" => toServer = FramesFrom(Len(handled) + 1)
  /\ server = "body" =>
       /\ Len(handled) < Len(sent)
       /\ length = Len(SerializeRequest(sent[Len(handled) + 1].req))
       /\ toServer = SerializeRequest(sent[Len(handled) + 1].req)
                       \o FramesFrom(Len(handled) + 2)

(* The server has nothing to read. *)
Quiet ==
  /\ toServer = <<>> /\ server # "body"
  /\ server = "header" => Len(handled) = Len(sent)

(* The client waits for a response that the server has not set. *)
Asked == toClient = <<>> /\ (server # "closed" => Len(handled) = Len(sent) - 1)

(* It has set it and written some of it. *)
Answered ==
  /\ Quiet /\ answer # None /\ answer.id = lastId
  /\ LET frame == Frame(SerializeResponse(answer))
     IN  \E n \in 1 .. Len(frame) : toClient = First(frame, n)

InStep ==
  ~Misled => /\ client = "idle" => Quiet /\ toClient = <<>>
             /\ client = "waiting" => sent # <<>> /\ (Asked \/ Answered)

IInv == Typed /\ Counted /\ Queued /\ HandledIsSentText /\ InStep

LEMMA QueueEnd ==
  ASSUME sent \in Seq(Sendable)
  PROVE  FramesFrom(Len(sent) + 1) = <<>>
<1> DEFINE n == Len(sent)
<1>1. n \in Nat /\ n + 1 > n
  BY LenProperties
<1>2. SubSeq(sent, n + 1, n) = <<>>
  BY <1>1
<1> QED
  BY <1>2, FramesOfNothing DEF FramesFrom

LEMMA QueueHead ==
  ASSUME sent \in Seq(Sendable), NEW k \in 1 .. Len(sent)
  PROVE  /\ sent[k] \in Sendable
         /\ FramesFrom(k) = Frame(SerializeRequest(sent[k].req)) \o FramesFrom(k + 1)
         /\ FramesFrom(k + 1) \in Seq(Byte)
<1> DEFINE r == SubSeq(sent, k + 1, Len(sent))
           x == sent[k]
<1>1. SubSeq(sent, k, Len(sent)) = <<x>> \o r /\ r \in Seq(Sendable) /\ x \in Sendable
  BY TailIs
<1>2. FramesFrom(k) = FramesOf(<<x>> \o r) /\ FramesFrom(k + 1) = FramesOf(r)
  BY <1>1, Zenon DEF FramesFrom
<1> HIDE DEF r, x
<1>3. <<x>> \in Seq(Sendable) /\ <<>> \in Seq(Sendable)
  BY <1>1
<1>4. FramesOf(<<x>> \o r) = FramesOf(<<x>>) \o FramesOf(r)
  BY <1>1, <1>3, FramesOfConcat
<1>5. FramesOf(<<x>>) = Frame(SerializeRequest(x.req))
  BY <1>1, FramesOfOne
<1>6. FramesOf(r) \in Seq(Byte)
  BY <1>1, FramesOfConcat
<1> QED
  BY <1>1, <1>2, <1>4, <1>5, <1>6 DEF x

LEMMA QueueGrows ==
  ASSUME sent \in Seq(Sendable), NEW x \in Sendable, sent' = Append(sent, x),
         NEW k \in 1 .. Len(sent) + 1
  PROVE  /\ FramesFrom(k)' = FramesFrom(k) \o Frame(SerializeRequest(x.req))
         /\ FramesFrom(k) \in Seq(Byte)
<1> DEFINE b == SubSeq(sent, k, Len(sent))
           t == Append(sent, x)
<1>1. SubSeq(t, k, Len(t)) = b \o <<x>> /\ b \in Seq(Sendable)
  BY TailOfAppend
<1>2. FramesFrom(k)' = FramesOf(b \o <<x>>) /\ FramesFrom(k) = FramesOf(b)
  <2>1. FramesFrom(k)' = FramesOf(SubSeq(t, k, Len(t)))
    BY DEF FramesFrom
  <2> QED
    BY <1>1, <2>1, Zenon DEF FramesFrom
<1> HIDE DEF b
<1>3. <<x>> \in Seq(Sendable)
  OBVIOUS
<1>4. FramesOf(b \o <<x>>) = FramesOf(b) \o FramesOf(<<x>>) /\ FramesOf(b) \in Seq(Byte)
  BY <1>1, <1>3, FramesOfConcat
<1>5. FramesOf(<<x>>) = Frame(SerializeRequest(x.req))
  BY FramesOfOne
<1> QED
  BY <1>2, <1>4, <1>5

LEMMA WrappedNext ==
  ASSUME NEW first \in Int32, NEW n \in Nat, n < MaxInt32
  PROVE  /\ Wrapped(first, 0) = first /\ Wrapped(first, n) \in Int32
         /\ Wrapped(first, n + 1) \in Int32
         /\ Wrapped(Wrapped(first, n), 1) = Wrapped(first, n + 1)
<1>1. first \in Int /\ -MaxInt32 - 1 <= first /\ first <= MaxInt32
  BY Int32Elements
<1>2. MaxInt32 \in Nat
  BY MaxInt32Type
<1>3. \A k \in Nat : k <= MaxInt32 =>
        /\ Wrapped(first, k) \in Int
        /\ -MaxInt32 - 1 <= Wrapped(first, k) /\ Wrapped(first, k) <= MaxInt32
  BY <1>1, <1>2 DEF Wrapped
<1>4. \A k \in Nat : k <= MaxInt32 => Wrapped(first, k) \in Int32
  BY <1>3, Int32Elements
<1>5. Wrapped(first, 0) = first
  BY <1>1, <1>2 DEF Wrapped
<1>6. Wrapped(Wrapped(first, n), 1) = Wrapped(first, n + 1)
  <2>1. CASE first + n < MaxInt32
    BY <1>1, <1>2, <2>1 DEF Wrapped
  <2>2. CASE first + n = MaxInt32
    BY <1>1, <1>2, <2>2 DEF Wrapped
  <2>3. CASE first + n > MaxInt32
    BY <1>1, <1>2, <2>3 DEF Wrapped
  <2> QED
    BY <1>1, <1>2, <2>1, <2>2, <2>3
<1>7. n <= MaxInt32 /\ n + 1 \in Nat /\ n + 1 <= MaxInt32
  BY <1>2
<1> QED
  BY <1>4, <1>5, <1>6, <1>7

-----------------------------------------------------------------------------
(* A request is sent.                                                      *)

Asks(x) ==
  /\ client = "idle" /\ client' = "waiting" /\ Len(sent) < MaxRequests
  /\ lastId' = Wrapped(lastId, 1) /\ x.req.id = lastId'
  /\ reactors' = reactors \cup {lastId'}
  /\ toServer' = toServer \o Frame(SerializeRequest(x.req))
  /\ sent' = Append(sent, x)
  /\ UNCHANGED <<assertions, server, length, toClient, buffered, handled, answer, reactions>>

LEMMA CountedType ==
  ASSUME Typed, Counted, Len(sent) < MaxRequests
  PROVE  /\ Wrapped(lastId, 1) \in Int32 /\ Len(sent) \in Nat
         /\ \E first \in FirstIds : Wrapped(lastId, 1) = Wrapped(first, Len(sent) + 1)
<1>1. PICK first \in FirstIds : lastId = Wrapped(first, Len(sent))
  BY DEF Counted
<1>2. Len(sent) \in Nat
  BY LenProperties DEF Typed
<1>3. first \in Int32 /\ Len(sent) < MaxInt32
  BY <1>2, WireAssumption, MaxInt32Type
<1> QED
  BY <1>1, <1>2, <1>3, WrappedNext

LEMMA Asking ==
  ASSUME Typed, Counted, NEW proto \in Methods, NEW body \in Bodies(proto),
         SendRequest(proto, body)
  PROVE  \E x \in Sendable : Asks(x)
<1>1. Len(sent) < MaxRequests /\ client = "idle" /\ lastId' = Wrapped(lastId, 1)
  BY DEF SendRequest, QueryId
<1>2. lastId' \in Int32
  BY <1>1, CountedType
<1>3. PICK bytes \in Serialized(proto, body) :
        LET req == [EmptyRequest EXCEPT !.id = lastId', !.proto = proto, !.body = bytes]
        IN  /\ toServer' = toServer \o Frame(SerializeRequest(req))
            /\ sent' = Append(sent, [req |-> req, body |-> body])
  BY DEF SendRequest
<1>4. bytes \in Seq(Byte) /\ body \in Logins \cup Verifications \cup Diffs
  BY BodyWritten DEF WrittenAs
<1> DEFINE e == EmptyRequest
           req == [e EXCEPT !.id = lastId', !.proto = proto, !.body = bytes]
           x == [req |-> req, body |-> body]
<1>5. e = [proto |-> 0, id |-> 0, body |-> <<>>, unknown |-> <<>>]
  BY DEF EmptyRequest
<1>7. toServer' = toServer \o Frame(SerializeRequest(req)) /\ sent' = Append(sent, x)
  BY <1>3
<1> HIDE DEF e
<1>8. req = [proto |-> proto, id |-> lastId', body |-> bytes, unknown |-> <<>>]
  <2> DEFINE i == lastId'
             f == [e EXCEPT !.id = i]
             g == [f EXCEPT !.proto = proto]
  <2> HIDE DEF i
  <2>1. f = [proto |-> 0, id |-> i, body |-> <<>>, unknown |-> <<>>]
    BY <1>5
  <2>2. req = [g EXCEPT !.body = bytes]
    BY DEF i
  <2> HIDE DEF f, req
  <2>3. g = [proto |-> proto, id |-> i, body |-> <<>>, unknown |-> <<>>]
    BY <2>1
  <2> HIDE DEF g
  <2> QED
    BY <2>2, <2>3 DEF i
<1> HIDE DEF req
<1>9. x \in Sendable /\ x.req = req /\ x.req.id = lastId'
  BY <1>2, <1>4, <1>8 DEF Sendable
<1> HIDE DEF x
<1>10. /\ client' = "waiting" /\ reactors' = reactors \cup {lastId'}
       /\ UNCHANGED <<assertions, server, length, toClient, buffered, handled, answer, reactions>>
  BY DEF SendRequest, serverVars
<1>11. toServer' = toServer \o Frame(SerializeRequest(x.req))
  BY <1>7, <1>9
<1> QED
  BY <1>1, <1>7, <1>9, <1>10, <1>11 DEF Asks

LEMMA AsksKeeps ==
  ASSUME IInv, NEW x \in Sendable, Asks(x)
  PROVE  IInv'
<1> DEFINE b == SerializeRequest(x.req)
           n == Len(sent)
           h == Len(handled)
<1>1. /\ sent \in Seq(Sendable) /\ handled \in Seq(Handled) /\ toServer \in Seq(Byte)
      /\ n \in Nat /\ h \in Nat /\ h <= n /\ DOMAIN handled = 1 .. h
  BY LenProperties DEF IInv, Typed, Queued
<1>2. /\ sent' \in Seq(Sendable) /\ Len(sent') = n + 1 /\ sent'[n + 1] = x
      /\ \A i \in 1 .. n : sent'[i] = sent[i]
      /\ DOMAIN sent = 1 .. n /\ DOMAIN sent' = 1 .. n + 1
  BY <1>1, AppendProperties, LenProperties DEF Asks
<1>3. Frame(b) \in Seq(Byte) /\ b \in Seq(Byte)
  BY SendableFacts, FrameFacts
<1>4. Typed'
  <2>1. toServer' \in Seq(Byte)
    BY <1>1, <1>3 DEF Asks
  <2> QED
    BY <1>2, <2>1 DEF IInv, Typed, Asks
<1>5. Counted'
  <2>1. Len(sent') <= MaxRequests
    <3>1. MaxRequests \in Nat /\ n < MaxRequests
      BY WireAssumption, MaxInt32Type DEF Asks
    <3> QED
      BY <1>1, <1>2, <3>1
  <2>2. \E first \in FirstIds : lastId' = Wrapped(first, Len(sent'))
    BY <1>2, CountedType DEF IInv, Asks
  <2>3. reactors' = {sent'[i].req.id : i \in DOMAIN sent'}
    <3>1. reactors' = {sent[i].req.id : i \in 1 .. n} \cup {x.req.id}
      BY <1>2 DEF IInv, Counted, Asks
    <3>2. {sent'[i].req.id : i \in 1 .. n + 1} = {sent[i].req.id : i \in 1 .. n} \cup {x.req.id}
      <4>1. \A i : i \in 1 .. n + 1 <=> i \in 1 .. n \/ i = n + 1
        BY <1>1
      <4> QED
        BY <1>2, <4>1
    <3> QED
      BY <1>2, <3>1, <3>2
  <2>4. sent'[Len(sent')].req.id = lastId'
    BY <1>2 DEF Asks
  <2> QED
    BY <2>1, <2>2, <2>3, <2>4 DEF Counted
<1>6. Queued'
  <2>1. ASSUME NEW k \in 1 .. n + 1
        PROVE  FramesFrom(k)' = FramesFrom(k) \o Frame(b) /\ FramesFrom(k) \in Seq(Byte)
    BY <1>1, QueueGrows DEF Asks
  <2>2. handled' = handled /\ server' = server /\ length' = length /\ h <= Len(sent')
    BY <1>1, <1>2 DEF Asks
  <2>3. ASSUME server = "header" PROVE toServer' = FramesFrom(h + 1)'
    <3>1. toServer = FramesFrom(h + 1) /\ h + 1 \in 1 .. n + 1
      BY <1>1, <2>3 DEF IInv, Queued
    <3> QED
      BY <2>1, <3>1 DEF Asks
  <2>4. ASSUME server = "body"
        PROVE  /\ h < Len(sent') /\ length = Len(SerializeRequest(sent'[h + 1].req))
               /\ toServer' = SerializeRequest(sent'[h + 1].req) \o FramesFrom(h + 2)'
    <3>1. /\ h < n /\ length = Len(SerializeRequest(sent[h + 1].req))
          /\ toServer = SerializeRequest(sent[h + 1].req) \o FramesFrom(h + 2)
      BY <2>4 DEF IInv, Queued
    <3>2. h + 1 \in 1 .. n /\ h + 2 \in 1 .. n + 1
      BY <1>1, <3>1
    <3>3. sent'[h + 1] = sent[h + 1] /\ sent[h + 1] \in Sendable
      BY <1>1, <1>2, <3>2
    <3>4. SerializeRequest(sent[h + 1].req) \in Seq(Byte)
      BY <3>3, SendableFacts
    <3> DEFINE a == SerializeRequest(sent[h + 1].req)
               c == FramesFrom(h + 2)
               f == Frame(b)
    <3>5. FramesFrom(h + 2)' = c \o f /\ c \in Seq(Byte)
      BY <2>1, <2>2, <3>2
    <3>6. toServer' = (a \o c) \o f
      BY <3>1 DEF Asks
    <3> HIDE DEF a, c, f
    <3>7. (a \o c) \o f = a \o (c \o f)
      <4>1. a \in Seq(Byte) /\ c \in Seq(Byte) /\ f \in Seq(Byte)
        BY <1>3, <3>4, <3>5 DEF a, f
      <4> QED
        BY <4>1, Regroup
    <3>8. toServer' = a \o FramesFrom(h + 2)'
      BY <3>5, <3>6, <3>7
    <3>9. h < Len(sent')
      BY <1>1, <1>2, <3>1
    <3> QED
      BY <3>1, <3>3, <3>8, <3>9 DEF a
  <2> QED
    BY <2>2, <2>3, <2>4 DEF Queued
<1>7. HandledIsSentText'
  <2>1. handled' = handled /\ DOMAIN handled \subseteq 1 .. n
    BY <1>1 DEF Asks
  <2>2. HandledIsSentText
    BY DEF IInv
  <2> QED
    BY <1>2, <2>1, <2>2 DEF HandledIsSentText
<1>8. InStep'
  <2>1. Misled' <=> Misled
    BY DEF Asks, Misled, Range
  <2>2. ASSUME ~Misled PROVE sent' # <<>> /\ Asked'
    <3>1. Quiet /\ toClient = <<>>
      BY <2>2 DEF IInv, InStep, Asks
    <3>2. server \in {"header", "body", "closed"}
      BY DEF IInv, Typed
    <3>3. server # "closed" => h = n
      BY <3>1, <3>2 DEF Quiet
    <3>4. sent' # <<>>
      BY <1>1, <1>2
    <3>5. toClient' = <<>> /\ handled' = handled /\ server' = server
      BY <3>1 DEF Asks
    <3>6. Len(sent') - 1 = n
      BY <1>1, <1>2
    <3> HIDE DEF n, h
    <3>7. server' # "closed" => h' = Len(sent') - 1
      BY <3>3, <3>5, <3>6 DEF h
    <3> QED
      BY <3>4, <3>5, <3>7 DEF Asked, h
  <2>3. client' = "waiting"
    BY DEF Asks
  <2> QED
    BY <2>1, <2>2, <2>3 DEF InStep
<1> QED
  BY <1>4, <1>5, <1>6, <1>7, <1>8 DEF IInv

-----------------------------------------------------------------------------
(* A signal of the client's socket.                                        *)

Ends ==
  client' \in {"aborted", "crashed", "exited"} /\ reactions' = reactions

Reacts(taken, n, available) ==
  LET res == ParseResponse(SubSeq(toClient, taken + 1, taken + n))
  IN  /\ n >= 0 /\ taken + n <= available
      /\ toClient' = After(toClient, taken + n) /\ buffered' = available - taken - n
      /\ res # Malformed /\ res \in Readable
      /\ client' = "idle" /\ reactions' = Append(reactions, res)

(* What is taken for a header: one, or with nothing after it and without   *)
(* assertions less than one, which is read as the length 0.                *)
IsHeader(taken, n, available) ==
  \/ available >= 4 /\ taken = 4 /\ n = CharToInt(First(toClient, 4))
  \/ ~assertions /\ available < 4 /\ taken = available

LEMMA ReadResult ==
  ASSUME Typed, NEW available \in buffered + 1 .. Len(toClient),
         NEW taken \in 0 .. available, NEW n \in Int, Read(taken, n, available)
  PROVE  /\ toClient' \in Seq(Byte) /\ buffered' \in 0 .. Len(toClient')
         /\ Ends \/ Reacts(taken, n, available)
<1>1. /\ toClient \in Seq(Byte) /\ Len(toClient) \in Nat /\ available \in Nat
      /\ available <= Len(toClient) /\ taken \in Nat /\ taken <= available
  BY LenProperties DEF Typed
<1>2. CASE toClient' = <<>> /\ buffered' = 0 /\ client' = "aborted" /\ reactions' = reactions
  BY <1>2 DEF Ends
<1>3. CASE n >= 0 /\ available - taken >= n /\ React(taken, n, available)
  <2>1. taken + n \in 0 .. Len(toClient) /\ taken + n <= available /\ n \in Nat
    BY <1>1, <1>3
  <2>2. toClient' = After(toClient, taken + n) /\ buffered' = available - taken - n
    BY <1>3, Zenon DEF React
  <2>3. toClient' \in Seq(Byte) /\ Len(toClient') = Len(toClient) - (taken + n)
    BY <1>1, <2>1, <2>2, FirstAndAfter
  <2>4. buffered' \in 0 .. Len(toClient')
    BY <1>1, <2>1, <2>2, <2>3
  <2> DEFINE b == SubSeq(toClient, taken + 1, taken + n)
             res == ParseResponse(b)
  <2>5. b \in Seq(Byte)
    <3>1. taken + 1 \in Nat \ {0} /\ taken + n \in 0 .. Len(toClient)
      BY <1>1, <2>1
    <3> QED
      BY <1>1, <3>1, PieceType
  <2>6. \/ res # Malformed /\ client' = "idle" /\ reactions' = Append(reactions, res)
        \/ client' = "exited" /\ reactions' = reactions
    BY <1>3, Zenon DEF React, CallReactor, Known
  <2> HIDE DEF b
  <2>7. ASSUME res # Malformed PROVE res \in Readable
    <3>1. IsResponse(res) /\ Short(res.msg) /\ Short(res.body)
      BY <2>5, <2>7, ResponseRead
    <3> HIDE DEF res
    <3> QED
      BY <3>1 DEF Readable, IsResponse
  <2>8. Ends \/ Reacts(taken, n, available)
    <3>1. CASE client' = "exited" /\ reactions' = reactions
      BY <3>1 DEF Ends
    <3>2. CASE res # Malformed /\ client' = "idle" /\ reactions' = Append(reactions, res)
      BY <2>1, <2>2, <2>7, <3>2, <1>3, Zenon DEF Reacts, b
    <3> QED
      BY <2>6, <3>1, <3>2
  <2> QED
    BY <2>3, <2>4, <2>8
<1> QED
  BY <1>2, <1>3, Zenon DEF Read

LEMMA Reading ==
  ASSUME Typed, OnReadyRead
  PROVE  /\ toClient' \in Seq(Byte) /\ buffered' \in 0 .. Len(toClient')
         /\ client \in {"idle", "waiting"}
         /\ UNCHANGED <<assertions, lastId, reactors, server, length, toServer,
                        sent, handled, answer>>
         /\ \/ Ends
            \/ \E available \in buffered + 1 .. Len(toClient) :
                 \E taken \in 0 .. available : \E n \in Int :
                   IsHeader(taken, n, available) /\ Reacts(taken, n, available)
<1>1. /\ client \in {"idle", "waiting"}
      /\ UNCHANGED <<assertions, lastId, reactors, server, length, toServer,
                     sent, handled, answer>>
  BY Zenon DEF OnReadyRead, serverVars
<1>2. /\ toClient \in Seq(Byte) /\ Len(toClient) \in Nat
      /\ buffered \in Nat /\ buffered <= Len(toClient)
  BY LenProperties DEF Typed
<1> DEFINE Done(available) ==
             \/ Ends
             \/ \E taken \in 0 .. available : \E n \in Int :
                  IsHeader(taken, n, available) /\ Reacts(taken, n, available)
           Kept2 == toClient' \in Seq(Byte) /\ buffered' \in 0 .. Len(toClient')
<1>3. PICK available \in buffered + 1 .. Len(toClient) :
       \/ /\ available >= 4
          /\ Read(4, CharToInt(First(toClient, 4)), available)
       \/ /\ available < 4 /\ assertions
          /\ client' = "crashed" /\ toClient' = <<>> /\ buffered' = 0
          /\ UNCHANGED reactions
       \/ /\ available = 3 /\ ~assertions
          /\ Read(3, CharToInt(First(toClient, 3) \o <<0>>), available)
       \/ /\ available < 3 /\ ~assertions
          /\ \E n \in {-1, 0} : Read(available, n, available)
  BY Zenon DEF OnReadyRead
<1>4. available \in Nat /\ available <= Len(toClient)
  BY <1>2
<1>5. CASE available >= 4 /\ Read(4, CharToInt(First(toClient, 4)), available)
  <2> DEFINE n == CharToInt(First(toClient, 4))
  <2>1. 4 \in 0 .. available /\ 4 \in 0 .. Len(toClient)
    BY <1>2, <1>4, <1>5
  <2>2. First(toClient, 4) \in Seq(Byte) /\ Len(First(toClient, 4)) = 4
    BY <1>2, <2>1, FirstAndAfter
  <2>3. n \in Int
    <3> DEFINE s == First(toClient, 4)
    <3>1. s \in Seq(Byte) /\ Len(s) = 4 /\ n = CharToInt(s)
      BY <2>2
    <3> HIDE DEF s, n
    <3>2. n \in Int32
      BY <3>1, CharToIntType
    <3> QED
      BY <3>2, Int32Elements
  <2>4. IsHeader(4, n, available)
    BY <1>5, Zenon DEF IsHeader
  <2> HIDE DEF n
  <2>5. Read(4, n, available)
    BY <1>5 DEF n
  <2>6. Kept2 /\ (Ends \/ Reacts(4, n, available))
    BY <2>1, <2>3, <2>5, ReadResult
  <2> QED
    BY <1>1, <2>1, <2>3, <2>4, <2>6
<1>6. CASE client' = "crashed" /\ toClient' = <<>> /\ buffered' = 0 /\ reactions' = reactions
  BY <1>1, <1>6 DEF Ends
<1>7. CASE available = 3 /\ ~assertions /\ Read(3, CharToInt(First(toClient, 3) \o <<0>>), available)
  <2> DEFINE s == First(toClient, 3) \o <<0>>
             n == CharToInt(s)
  <2>1. 3 \in 0 .. available /\ 3 \in 0 .. Len(toClient)
    BY <1>2, <1>4, <1>7
  <2>2. s \in Seq(Byte) /\ Len(s) = 4
    <3>1. First(toClient, 3) \in Seq(Byte) /\ Len(First(toClient, 3)) = 3
      BY <1>2, <2>1, FirstAndAfter
    <3>2. <<0>> \in Seq(Byte) /\ Len(<<0>>) = 1
      BY ByteElements
    <3> DEFINE p == First(toClient, 3)
               q == <<0>>
    <3>3. p \in Seq(Byte) /\ Len(p) = 3 /\ q \in Seq(Byte) /\ Len(q) = 1 /\ s = p \o q
      BY <3>1, <3>2
    <3> HIDE DEF p, q, s
    <3>4. s \in Seq(Byte) /\ IsConcat(s, p, q)
      BY <3>3, ElementsOfConcat
    <3> QED
      BY <3>3, <3>4 DEF IsConcat
  <2>3. n \in Int
    BY <2>2, CharToIntType, Int32Elements
  <2> HIDE DEF n
  <2>4. IsHeader(3, n, available)
    BY <1>7 DEF IsHeader
  <2>5. Read(3, n, available)
    BY <1>7 DEF n
  <2>6. Kept2 /\ (Ends \/ Reacts(3, n, available))
    BY <2>1, <2>3, <2>5, ReadResult
  <2> QED
    BY <1>1, <2>1, <2>3, <2>4, <2>6
<1>8. CASE available < 3 /\ ~assertions /\ \E n \in {-1, 0} : Read(available, n, available)
  <2>1. PICK n \in {-1, 0} : Read(available, n, available)
    BY <1>8
  <2>2. n \in Int /\ available \in 0 .. available
    BY <1>4
  <2>3. IsHeader(available, n, available)
    BY <1>4, <1>8 DEF IsHeader
  <2>4. Kept2 /\ (Ends \/ Reacts(available, n, available))
    BY <2>1, <2>2, ReadResult
  <2> QED
    BY <1>1, <2>2, <2>3, <2>4
<1> QED
  BY <1>3, <1>5, <1>6, <1>7, <1>8

LEMMA NothingParsed == ParseResponse(<<>>) = EmptyResponse
<1>1. Fields[<<>>] = <<>> /\ AreWhole(<<>>) /\ AreText(<<>>, {3})
  BY FieldsOfNothing, NothingIsText
<1>2. <<>> \in Seq(AnyField) /\ Cut \in AnyField
  BY DEF AnyField
<1>3. Unknown(<<>>, ResponseTags) = <<>>
  BY <1>2, UnknownLast
<1>4. \A j, t, d : LastOf(<<>>, j, t, d) = d
  BY LastOfNothing
<1>5. ParseResponse(<<>>) = ResponseOf(<<>>)
  BY <1>1, Zenon DEF ParseResponse, Message
<1> QED
  BY <1>3, <1>4, <1>5, Zenon DEF ResponseOf, EmptyResponse

(* Of a response that has been written, or the front of it, the client     *)
(* reads all of it, or nothing.                                            *)
LEMMA ReadsAnswer ==
  ASSUME NEW s \in Seq(Byte), Len(s) <= MaxInt32, NEW m \in 1 .. Len(Frame(s)),
         NEW c, c = First(Frame(s), m),
         NEW available \in 1 .. Len(c), NEW n \in Int, n >= 0
  PROVE  /\ c \in Seq(Byte) /\ Len(c) = m
         /\ available >= 4 /\ 4 + n <= available /\ n = CharToInt(First(c, 4))
              => /\ SubSeq(c, 4 + 1, 4 + n) = s /\ After(c, 4 + n) = <<>>
                 /\ Len(c) = 4 + n
<1> DEFINE F == Frame(s)
           r == After(F, m)
<1>1. Len(s) \in Nat /\ F \in Seq(Byte) /\ Len(F) = 4 + Len(s)
  BY FrameFacts, LenProperties
<1>2. /\ F \o <<>> = F /\ s \o <<>> = s /\ <<>> \in Seq(Byte)
  BY <1>1
<1>3. CharToInt(First(F, 4)) = Len(s) /\ After(F, 4) = s
  BY <1>2, FrameFacts
<1>4. m \in 0 .. Len(F) /\ m \in Nat
  BY <1>1
<1>5. c \in Seq(Byte) /\ Len(c) = m /\ r \in Seq(Byte) /\ F = c \o r
  BY <1>1, <1>4, FirstAndAfter
<1> HIDE DEF F, r
<1>6. ASSUME available >= 4, 4 + n <= available, n = CharToInt(First(c, 4))
      PROVE  /\ SubSeq(c, 4 + 1, 4 + n) = s /\ After(c, 4 + n) = <<>>
             /\ Len(c) = 4 + n
  <2>1. 4 \in 0 .. Len(c) /\ 1 \in Nat \ {0}
    BY <1>5, <1>6
  <2>2. SubSeq(c \o r, 1, 4) = SubSeq(c, 1, 4)
    BY <1>5, <2>1, PieceOfFront
  <2>3. First(F, 4) = First(c, 4)
    BY <1>5, <2>2, Zenon DEF First
  <2>4. n = Len(s)
    BY <1>3, <1>6, <2>3
  <2>5. m = Len(F) /\ Len(c) = Len(F) /\ 4 + n = Len(c)
    BY <1>1, <1>4, <1>5, <1>6, <2>4
  <2>6. c = F
    <3>1. SubSeq(F, 1, Len(F)) = F
      BY <1>1, SubSeqFull
    <3>2. c = SubSeq(F, 1, m)
      BY Zenon DEF First, F
    <3> QED
      BY <2>5, <3>1, <3>2
  <2>7. SubSeq(c, 4 + 1, 4 + n) = s
    BY <1>3, <2>5, <2>6, Zenon DEF After
  <2>8. After(c, 4 + n) = <<>>
    <3> DEFINE a == After(c, 4 + n)
    <3>1. 4 + n \in 0 .. Len(c)
      BY <1>4, <1>5, <2>5
    <3>2. a \in Seq(Byte) /\ Len(a) = Len(c) - (4 + n)
      BY <1>5, <3>1, FirstAndAfter
    <3> HIDE DEF a
    <3>3. Len(a) = 0
      <4> DEFINE k == 4 + n
                 l == Len(a)
      <4>1. l = m - k /\ k = m
        BY <1>5, <2>5, <3>2
      <4> HIDE DEF k, l
      <4>2. l = 0
        BY <1>4, <4>1
      <4> QED
        BY <4>2 DEF l
    <3>4. a = <<>>
      BY <3>2, <3>3, EmptySeq
    <3> QED
      BY <3>4 DEF a
  <2> QED
    BY <2>5, <2>7, <2>8
<1> QED
  BY <1>5, <1>6

(* While the client is not misled it reads the answer the server has set   *)
(* and nothing is left of it, or an empty response.                        *)
LEMMA ReactsInStep ==
  ASSUME Typed, InStep, ~Misled, client \in {"idle", "waiting"},
         NEW available \in buffered + 1 .. Len(toClient), NEW taken \in 0 .. available,
         NEW n \in Int, IsHeader(taken, n, available), Reacts(taken, n, available)
  PROVE  LET res == ParseResponse(SubSeq(toClient, taken + 1, taken + n))
         IN  /\ Quiet
             /\ \/ res = answer /\ answer.id = lastId /\ toClient' = <<>>
                \/ ~assertions /\ res = EmptyResponse
<1>1. /\ toClient \in Seq(Byte) /\ Len(toClient) \in Nat /\ buffered \in Nat
      /\ available \in 1 .. Len(toClient) /\ n >= 0 /\ taken + n <= available
  BY LenProperties DEF Typed, Reacts
<1>2. toClient # <<>>
  <2>1. Len(<<>>) = 0
    OBVIOUS
  <2>2. ~ (Len(toClient) = 0)
    BY <1>1
  <2> QED
    BY <2>1, <2>2
<1>3. client = "waiting" /\ Answered
  BY <1>2 DEF InStep, Asked
<1>4. Quiet /\ answer \in Replies /\ answer.id = lastId
  BY <1>3 DEF Typed, Answered
<1> DEFINE s == SerializeResponse(answer)
<1>5. s \in Seq(Byte) /\ Len(s) <= MaxInt32 /\ ParseResponse(s) = answer
  BY <1>4, ReplyFacts, ReadableFacts
<1>6. PICK m \in 1 .. Len(Frame(s)) : toClient = First(Frame(s), m)
  BY <1>3 DEF Answered
<1> HIDE DEF s
<1>7. CASE available >= 4 /\ taken = 4 /\ n = CharToInt(First(toClient, 4))
  <2>1. SubSeq(toClient, 4 + 1, 4 + n) = s /\ After(toClient, 4 + n) = <<>>
    <3>1. 4 + n <= available
      BY <1>1, <1>7
    <3> QED
      BY <1>1, <1>5, <1>6, <1>7, <3>1, ReadsAnswer
  <2>2. toClient' = After(toClient, 4 + n)
    BY <1>7 DEF Reacts
  <2> QED
    BY <1>4, <1>5, <1>7, <2>1, <2>2
<1>8. CASE ~assertions /\ available < 4 /\ taken = available
  <2>1. taken \in Nat /\ n = 0
    BY <1>1, <1>8
  <2>2. SubSeq(toClient, taken + 1, taken + n) = <<>>
    <3>1. taken + 1 > taken /\ taken + n = taken /\ taken \in Nat
      BY <2>1
    <3>2. SubSeq(toClient, taken + 1, taken) = <<>>
      BY <1>1, <3>1, SubSeqEmpty
    <3> QED
      BY <3>1, <3>2
  <2> QED
    BY <1>4, <1>8, <2>2, NothingParsed
<1> QED
  BY <1>7, <1>8 DEF IsHeader

LEMMA RangeGrows ==
  ASSUME NEW S, NEW s \in Seq(S), NEW x \in S
  PROVE  /\ Append(s, x) \in Seq(S) /\ Last(Append(s, x)) = x
         /\ Range(Append(s, x)) = Range(s) \cup {x}
<1> DEFINE k == Len(s)
           t == Append(s, x)
<1>1. /\ t \in Seq(S) /\ Len(t) = k + 1 /\ t[k + 1] = x
      /\ \A i \in 1 .. k : t[i] = s[i]
  BY AppendProperties
<1>2. DOMAIN s = 1 .. k /\ DOMAIN t = 1 .. k + 1 /\ k \in Nat
  BY <1>1, LenProperties
<1> HIDE DEF k, t
<1>3. \A i : i \in 1 .. k + 1 <=> i \in 1 .. k \/ i = k + 1
  BY <1>2
<1>4. Range(t) = Range(s) \cup {x}
  BY <1>1, <1>2, <1>3 DEF Range
<1>5. Last(t) = x
  BY <1>1 DEF Last
<1> QED
  BY <1>1, <1>4, <1>5 DEF t

LEMMA ReadingKeeps ==
  ASSUME IInv, OnReadyRead
  PROVE  /\ IInv'
         /\ reactions' # reactions =>
              \/ Last(reactions') = answer /\ answer.id = lastId
              \/ ~assertions /\ EmptyResponse \in Range(reactions')
<1>1. Typed /\ Counted /\ Queued /\ HandledIsSentText /\ InStep
  BY DEF IInv
<1>2. /\ toClient' \in Seq(Byte) /\ buffered' \in 0 .. Len(toClient')
      /\ client \in {"idle", "waiting"}
      /\ UNCHANGED <<assertions, lastId, reactors, server, length, toServer,
                     sent, handled, answer>>
  BY <1>1, Reading
<1>3. Counted' /\ Queued' /\ HandledIsSentText'
  BY <1>1, <1>2 DEF Counted, Queued, HandledIsSentText, FramesFrom
<1>4. reactions \in Seq(Readable) /\ Len(reactions) \in Nat
  BY <1>1, LenProperties DEF Typed
<1>5. CASE Ends
  <2>1. Typed'
    BY <1>1, <1>2, <1>5 DEF Typed, Ends
  <2>2. InStep'
    BY <1>5 DEF Ends, InStep
  <2> QED
    BY <1>3, <1>5, <2>1, <2>2 DEF IInv, Ends
<1>6. ASSUME NEW available \in buffered + 1 .. Len(toClient), NEW taken \in 0 .. available,
             NEW n \in Int, IsHeader(taken, n, available), Reacts(taken, n, available)
      PROVE  /\ IInv'
             /\ \/ Last(reactions') = answer /\ answer.id = lastId
                \/ ~assertions /\ EmptyResponse \in Range(reactions')
  <2> DEFINE res == ParseResponse(SubSeq(toClient, taken + 1, taken + n))
  <2>1. /\ client' = "idle" /\ reactions' = Append(reactions, res) /\ res \in Readable
    BY <1>6 DEF Reacts
  <2>2. ~Misled => /\ Quiet
                   /\ \/ res = answer /\ answer.id = lastId /\ toClient' = <<>>
                      \/ ~assertions /\ res = EmptyResponse
    BY <1>1, <1>2, <1>6, ReactsInStep
  <2> HIDE DEF res
  <2>3. /\ reactions' \in Seq(Readable) /\ Last(reactions') = res
        /\ Range(reactions') = Range(reactions) \cup {res}
    BY <1>4, <2>1, RangeGrows
  <2>4. Typed'
    BY <1>1, <1>2, <2>1, <2>3 DEF Typed
  <2>5. InStep'
    <3>1. Quiet' <=> Quiet
      BY <1>2 DEF Quiet
    <3>2. Misled => Misled'
      BY <1>2, <2>3 DEF Misled
    <3>3. ~assertions /\ res = EmptyResponse => Misled'
      BY <1>2, <2>3 DEF Misled
    <3> QED
      BY <2>1, <2>2, <3>1, <3>2, <3>3 DEF InStep
  <2>6. Misled => ~assertions /\ EmptyResponse \in Range(reactions')
    BY <2>3 DEF Misled
  <2>7. ~Misled => \/ Last(reactions') = answer /\ answer.id = lastId
                   \/ ~assertions /\ EmptyResponse \in Range(reactions')
    BY <2>2, <2>3
  <2> QED
    BY <1>3, <2>4, <2>5, <2>6, <2>7 DEF IInv
<1> QED
  BY <1>1, <1>5, <1>6, Reading DEF Ends

-----------------------------------------------------------------------------
(* The server receives.                                                    *)

LEMMA ReceivedIs ==
  ASSUME Typed, NEW n \in Int, NEW bytes \in Received(n)
  PROVE  \E k \in 1 .. Len(toServer) :
           /\ k <= n /\ bytes = First(toServer, k) /\ Len(bytes) = k /\ bytes \in Seq(Byte)
           /\ After(toServer, k) \in Seq(Byte)
<1>1. PICK k \in 1 .. AtMost(n, Len(toServer)) : bytes = First(toServer, k)
  BY DEF Received
<1>2. toServer \in Seq(Byte) /\ Len(toServer) \in Nat
  BY LenProperties DEF Typed
<1>3. k \in 1 .. Len(toServer) /\ k <= n
  BY <1>2 DEF AtMost
<1>4. k \in 0 .. Len(toServer)
  BY <1>3
<1> QED
  BY <1>1, <1>2, <1>3, <1>4, FirstAndAfter

(* The server has something to read: the client waits, if it is in step.   *)
LEMMA NotQuiet ==
  ASSUME InStep, ~Misled, toServer # <<>>
  PROVE  client # "idle" /\ (client = "waiting" => sent # <<>> /\ Asked)
BY DEF InStep, Answered, Quiet

LEMMA HeaderKeeps ==
  ASSUME IInv, RecvHeader
  PROVE  IInv' /\ reactions' = reactions
<1> DEFINE h == Len(handled)
<1>1. Typed /\ Counted /\ Queued /\ HandledIsSentText /\ InStep
  BY DEF IInv
<1>2. PICK bytes \in Received(4) :
       /\ toServer' = After(toServer, Len(bytes))
       /\ \/ Len(bytes) = 4 /\ server' = "body" /\ length' = CharToInt(bytes)
          \/ Len(bytes) < 4 /\ server' = "closed" /\ length' = length
  BY Zenon DEF RecvHeader, Close
<1>3. /\ server = "header"
      /\ UNCHANGED <<assertions, client, lastId, reactors, toClient, buffered,
                     sent, handled, answer, reactions>>
  BY Zenon DEF RecvHeader, clientVars, history
<1>4. PICK k \in 1 .. Len(toServer) :
        /\ k <= 4 /\ bytes = First(toServer, k) /\ Len(bytes) = k /\ bytes \in Seq(Byte)
        /\ After(toServer, k) \in Seq(Byte)
  BY <1>1, ReceivedIs
<1>5. toServer' \in Seq(Byte) /\ toServer # <<>>
  <2>1. Len(<<>>) = 0
    OBVIOUS
  <2>2. ~ (Len(toServer) = 0)
    BY <1>4
  <2>3. toServer # <<>>
    BY <2>1, <2>2
  <2> QED
    BY <1>2, <1>4, <2>3
<1>6. Counted' /\ HandledIsSentText'
  BY <1>1, <1>3 DEF Counted, HandledIsSentText
<1>7. InStep'
  <2>1. Misled' <=> Misled
    BY <1>3 DEF Misled
  <2>2. Asked => (server' # "closed" => h = Len(sent) - 1) /\ toClient = <<>>
    BY <1>3 DEF Asked
  <2>3. Asked => Asked'
    BY <1>3, <2>2 DEF Asked
  <2> QED
    BY <1>1, <1>3, <1>5, <2>1, <2>3, NotQuiet DEF InStep
<1>8. h \in Nat /\ Len(sent) \in Nat /\ h <= Len(sent) /\ sent \in Seq(Sendable)
  BY <1>1, LenProperties DEF Typed, Queued
<1>9. CASE Len(bytes) < 4 /\ server' = "closed" /\ length' = length
  <2>1. Typed'
    BY <1>1, <1>3, <1>5, <1>9 DEF Typed
  <2>2. Queued'
    BY <1>3, <1>8, <1>9 DEF Queued
  <2> QED
    BY <1>3, <1>6, <1>7, <2>1, <2>2 DEF IInv
<1>10. CASE Len(bytes) = 4 /\ server' = "body" /\ length' = CharToInt(bytes)
  <2>1. toServer = FramesFrom(h + 1)
    BY <1>1, <1>3 DEF Queued
  <2>2. h < Len(sent)
    <3>1. CASE h = Len(sent)
      BY <1>5, <1>8, <2>1, <3>1, QueueEnd
    <3> QED
      BY <1>8, <3>1
  <2> DEFINE x == sent[h + 1]
             b == SerializeRequest(x.req)
             r == FramesFrom(h + 2)
  <2>3. x \in Sendable /\ toServer = Frame(b) \o r /\ r \in Seq(Byte)
    <3>1. h + 1 \in 1 .. Len(sent) /\ (h + 1) + 1 = h + 2
      BY <1>8, <2>2
    <3> QED
      BY <1>8, <2>1, <3>1, QueueHead
  <2>4. b \in Seq(Byte) /\ Len(b) <= MaxInt32
    BY <2>3, SendableFacts
  <2>5. k = 4
    BY <1>4, <1>10
  <2> HIDE DEF b, r
  <2>6. CharToInt(First(toServer, 4)) = Len(b) /\ After(toServer, 4) = b \o r
    BY <2>3, <2>4, FrameFacts
  <2>7. length' = Len(b) /\ toServer' = b \o r
    BY <1>2, <1>4, <1>10, <2>5, <2>6
  <2>8. length' \in Int32
    BY <1>4, <1>10, CharToIntType
  <2>9. Typed'
    BY <1>1, <1>3, <1>5, <1>10, <2>8 DEF Typed
  <2>10. r' = r
    BY <1>3 DEF r, FramesFrom
  <2>11. Queued'
    BY <1>3, <1>8, <1>10, <2>2, <2>7, <2>10 DEF Queued, b, r
  <2> QED
    BY <1>3, <1>6, <1>7, <2>9, <2>11 DEF IInv
<1> QED
  BY <1>2, <1>9, <1>10

(* A response is set, with this id, and some of it is sent. *)
Sets(id) ==
  \E res \in Replies :
    /\ res.id = id /\ answer' = res
    /\ \E n \in 1 .. Len(Frame(SerializeResponse(res))) :
         toClient' = toClient \o First(Frame(SerializeResponse(res)), n)

Responds(id, code, msg) ==
  SendResponse([EmptyResponse EXCEPT !.id = id, !.code = code, !.msg = msg])

LEMMA Responding ==
  ASSUME NEW id \in Int32, NEW code \in {0, 4, 5, 403, 404}, NEW msg \in Texts,
         Responds(id, code, msg)
  PROVE  Sets(id)
<1> DEFINE e == EmptyResponse
           f == [e EXCEPT !.id = id]
           g == [f EXCEPT !.code = code]
           res == [g EXCEPT !.msg = msg]
           F == Frame(SerializeResponse(res))
<1>1. e = [code |-> 0, id |-> 0, msg |-> <<>>, body |-> <<>>, unknown |-> <<>>]
  BY DEF EmptyResponse
<1>2. SendResponse(res)
  BY Zenon DEF Responds
<1> HIDE DEF e
<1>3. f = [code |-> 0, id |-> id, msg |-> <<>>, body |-> <<>>, unknown |-> <<>>]
  BY <1>1
<1> HIDE DEF f
<1>4. g = [code |-> code, id |-> id, msg |-> <<>>, body |-> <<>>, unknown |-> <<>>]
  BY <1>3
<1> HIDE DEF g
<1>5. res = [code |-> code, id |-> id, msg |-> msg, body |-> <<>>, unknown |-> <<>>]
  BY <1>4
<1> HIDE DEF res
<1>6. res \in Replies /\ res.id = id
  BY <1>5 DEF Replies
<1>7. Len(F) \in Nat /\ Len(F) >= 1
  <2>1. SerializeResponse(res) \in Seq(Byte) /\ Len(SerializeResponse(res)) <= MaxInt32
    BY <1>6, ReplyFacts
  <2> DEFINE l == Len(SerializeResponse(res))
  <2>2. Len(F) = 4 + l /\ l \in Nat
    BY <2>1, FrameFacts, LenProperties
  <2> HIDE DEF l, F
  <2> QED
    BY <2>2
<1>8. answer' = res /\ \E n \in (IF ShortSends THEN 1 .. Len(F) ELSE {Len(F)}) :
        toClient' = toClient \o First(F, n)
  BY <1>2, Zenon DEF SendResponse
<1> HIDE DEF F
<1>9. \E n \in 1 .. Len(F) : toClient' = toClient \o First(F, n)
  BY <1>7, <1>8
<1> QED
  BY <1>6, <1>8, <1>9, Zenon DEF Sets, F

(* What a handler is given. *)
Given(x) ==
  IF IsText(x.req.proto, x.body) THEN {None, [proto |-> x.req.proto, body |-> x.body]}
  ELSE {None}

LEMMA Handling ==
  ASSUME NEW x \in Sendable, Handle(x.req, Parsed(x.req))
  PROVE  /\ Sets(x.req.id) /\ server' \in {"header", "closed"}
         /\ \E h \in Given(x) : handled' = Append(handled, h)
<1> DEFINE req == x.req
           body == Parsed(req)
           Respond(code, msg) == Responds(req.id, code, msg)
<1>1. req.id \in Int32 /\ req.proto \in Methods
  BY DEF Sendable
<1>2. body = IF IsText(req.proto, x.body) THEN x.body ELSE Malformed
  BY SendableFacts
<1>3. \A code \in {0, 4, 5, 403, 404}, msg \in Texts : Respond(code, msg) => Sets(req.id)
  BY <1>1, Responding
<1>4. Codes(req.proto, body) \subseteq {0, 4, 5, 403, 404}
  <2>1. req.proto = 1 \/ req.proto = 2 \/ req.proto = 10
    BY <1>1 DEF Methods
  <2> HIDE DEF body, req
  <2> QED
    BY <2>1 DEF Codes
<1>5. \/ /\ handled' = Append(handled, None)
         /\ \E msg \in Texts : Respond(403, msg)
         /\ server' = "header"
      \/ /\ body # Malformed
         /\ handled' = Append(handled, [proto |-> req.proto, body |-> body])
         /\ \E msg \in Texts :
              \/ /\ \E code \in Codes(req.proto, body) : Respond(code, msg)
                 /\ server' = "header"
              \/ Respond(0, msg) /\ server' = "closed"
      \/ /\ handled' = Append(handled, None)
         /\ \E msg \in Texts : Respond(0, msg)
         /\ server' = "closed"
  BY Zenon DEF Handle, Close, Responds
<1> HIDE DEF body, req, Respond
<1>6. Sets(req.id) /\ server' \in {"header", "closed"}
  BY <1>3, <1>4, <1>5
<1>7. body # Malformed => body = x.body /\ IsText(req.proto, x.body)
  BY <1>2
<1>8. \E h \in Given(x) : handled' = Append(handled, h)
  <2>1. CASE handled' = Append(handled, None)
    BY <2>1 DEF Given
  <2>2. CASE body # Malformed /\ handled' = Append(handled, [proto |-> req.proto, body |-> body])
    <3>1. [proto |-> req.proto, body |-> body] \in Given(x)
      BY <1>7, <2>2 DEF Given, req
    <3> QED
      BY <2>2, <3>1
  <2> QED
    BY <1>5, <2>1, <2>2
<1> QED
  BY <1>6, <1>8 DEF req

(* recv and what follows it: the connection is closed, or the next request *)
(* is handled, of which all the bytes have been taken.                     *)
LEMMA BodyReceived ==
  ASSUME IInv, RecvBody
  PROVE  LET x == sent[Len(handled) + 1]
         IN  /\ server = "body" /\ Len(handled) < Len(sent) /\ x \in Sendable
             /\ UNCHANGED <<assertions, client, lastId, reactors, length, buffered, sent,
                            reactions>>
             /\ toServer' \in Seq(Byte) /\ toServer # <<>>
             /\ \/ server' = "closed" /\ UNCHANGED <<toClient, handled, answer>>
                \/ /\ toServer' = FramesFrom(Len(handled) + 2)
                   /\ Sets(x.req.id) /\ server' \in {"header", "closed"}
                   /\ \E g \in Given(x) : handled' = Append(handled, g)
<1> DEFINE h == Len(handled)
           x == sent[h + 1]
           b == SerializeRequest(x.req)
           r == FramesFrom(h + 2)
<1>1. Typed /\ Counted /\ Queued /\ HandledIsSentText /\ InStep
  BY DEF IInv
<1>2. PICK bytes \in Received(length) :
       /\ toServer' = After(toServer, Len(bytes))
       /\ \/ Len(bytes) = length /\ Handle(ParseRequest(bytes), Parsed(ParseRequest(bytes)))
          \/ server' = "closed" /\ UNCHANGED <<toClient, handled, answer>>
  BY Zenon DEF RecvBody, Dispatch, Understood, Close
<1>3. /\ server = "body"
      /\ UNCHANGED <<assertions, client, lastId, reactors, length, buffered, sent, reactions>>
  BY Zenon DEF RecvBody, clientVars
<1>4. length \in Int
  BY <1>1, Int32Elements DEF Typed
<1>5. PICK k \in 1 .. Len(toServer) :
        /\ k <= length /\ bytes = First(toServer, k) /\ Len(bytes) = k /\ bytes \in Seq(Byte)
        /\ After(toServer, k) \in Seq(Byte)
  BY <1>1, <1>4, ReceivedIs
<1>6. toServer' \in Seq(Byte) /\ toServer # <<>>
  <2>1. Len(<<>>) = 0
    OBVIOUS
  <2>2. ~ (Len(toServer) = 0)
    BY <1>5
  <2>3. toServer # <<>>
    BY <2>1, <2>2
  <2> QED
    BY <1>2, <1>5, <2>3
<1>7. /\ h \in Nat /\ Len(sent) \in Nat /\ h < Len(sent) /\ sent \in Seq(Sendable)
      /\ handled \in Seq(Handled) /\ DOMAIN handled = 1 .. h
  BY <1>1, <1>3, LenProperties DEF Typed, Queued
<1>8. length = Len(b) /\ toServer = b \o r
  BY <1>1, <1>3 DEF Queued
<1>9. x \in Sendable /\ r \in Seq(Byte)
  <2>1. h + 1 \in 1 .. Len(sent) /\ (h + 1) + 1 = h + 2
    BY <1>7
  <2> QED
    BY <1>7, <2>1, QueueHead
<1>10. CASE server' = "closed" /\ toClient' = toClient /\ handled' = handled /\ answer' = answer
  BY <1>3, <1>6, <1>7, <1>9, <1>10
<1>11. CASE Len(bytes) = length /\ Handle(ParseRequest(bytes), Parsed(ParseRequest(bytes)))
  <2>1. b \in Seq(Byte) /\ ParseRequest(b) = x.req
    <3>1. IsRequest(x.req) /\ Short(x.req.body) /\ b \in Seq(Byte)
      BY <1>9, SendableFacts
    <3> QED
      BY <3>1, RequestReadBack
  <2>2. bytes = b /\ toServer' = r
    <3>1. k = Len(b)
      BY <1>5, <1>8, <1>11
    <3> HIDE DEF b, r
    <3>2. First(b \o r, Len(b)) = b /\ After(b \o r, Len(b)) = r
      BY <1>9, <2>1, Taken
    <3>3. First(toServer, k) = b /\ After(toServer, k) = r
      BY <1>8, <3>1, <3>2
    <3> QED
      BY <1>2, <1>5, <3>3
  <2>3. Handle(x.req, Parsed(x.req))
    BY <1>11, <2>1, <2>2
  <2> HIDE DEF x, b, r
  <2>4. /\ Sets(x.req.id) /\ server' \in {"header", "closed"}
        /\ \E g \in Given(x) : handled' = Append(handled, g)
    BY <1>9, <2>3, Handling
  <2> QED
    BY <1>3, <1>6, <1>7, <1>9, <2>2, <2>4 DEF x, r
<1> QED
  BY <1>2, <1>10, <1>11

LEMMA BodyKeeps ==
  ASSUME IInv, RecvBody
  PROVE  IInv' /\ reactions' = reactions
<1> DEFINE h == Len(handled)
           x == sent[h + 1]
           r == FramesFrom(h + 2)
<1>1. Typed /\ Counted /\ Queued /\ HandledIsSentText /\ InStep
  BY DEF IInv
<1>2. /\ \/ server' = "closed" /\ UNCHANGED <<toClient, handled, answer>>
         \/ /\ toServer' = r /\ Sets(x.req.id) /\ server' \in {"header", "closed"}
            /\ \E g \in Given(x) : handled' = Append(handled, g)
  BY BodyReceived
<1>3. /\ server = "body"
      /\ UNCHANGED <<assertions, client, lastId, reactors, length, buffered, sent, reactions>>
  BY BodyReceived
<1>6. toServer' \in Seq(Byte) /\ toServer # <<>>
  BY BodyReceived
<1>7. /\ h \in Nat /\ Len(sent) \in Nat /\ h < Len(sent) /\ sent \in Seq(Sendable)
      /\ handled \in Seq(Handled) /\ DOMAIN handled = 1 .. h
  BY <1>1, <1>3, LenProperties DEF Typed, Queued
<1>9. x \in Sendable
  BY BodyReceived
<1>10. Misled' <=> Misled
  BY <1>3 DEF Misled
<1>11. Counted'
  BY <1>1, <1>3 DEF Counted
<1>12. CASE server' = "closed" /\ toClient' = toClient /\ handled' = handled /\ answer' = answer
  <2>1. Typed'
    BY <1>1, <1>3, <1>6, <1>12 DEF Typed
  <2>2. Queued' /\ HandledIsSentText'
    BY <1>1, <1>3, <1>7, <1>12 DEF Queued, HandledIsSentText
  <2>3. InStep'
    <3>1. Asked => Asked'
      BY <1>3, <1>12 DEF Asked
    <3> QED
      BY <1>1, <1>3, <1>6, <1>10, <3>1, NotQuiet DEF InStep
  <2> QED
    BY <1>3, <1>11, <2>1, <2>2, <2>3 DEF IInv
<1>13. CASE /\ toServer' = r /\ Sets(x.req.id) /\ server' \in {"header", "closed"}
            /\ \E g \in Given(x) : handled' = Append(handled, g)
  <2>2. toServer' = r
    BY <1>13
  <2>4. /\ Sets(x.req.id) /\ server' \in {"header", "closed"}
        /\ \E g \in Given(x) : handled' = Append(handled, g)
    BY <1>13
  <2> HIDE DEF x, r
  <2>5. PICK g \in Given(x) : handled' = Append(handled, g)
    BY <2>4
  <2>6. PICK res \in Replies :
          /\ res.id = x.req.id /\ answer' = res
          /\ \E n \in 1 .. Len(Frame(SerializeResponse(res))) :
               toClient' = toClient \o First(Frame(SerializeResponse(res)), n)
    BY <2>4 DEF Sets
  <2> DEFINE F == Frame(SerializeResponse(res))
  <2>7. PICK n \in 1 .. Len(F) : toClient' = toClient \o First(F, n)
    BY <2>6
  <2>8. F \in Seq(Byte) /\ Len(F) \in Nat
    BY ReplyFacts, FrameFacts, LenProperties
  <2> HIDE DEF F
  <2>9. First(F, n) \in Seq(Byte) /\ Len(First(F, n)) = n /\ n \in Nat
    <3>1. n \in 0 .. Len(F)
      BY <2>8
    <3> QED
      BY <2>8, <3>1, FirstAndAfter
  <2>10. toClient \in Seq(Byte) /\ buffered \in 0 .. Len(toClient) /\ Len(toClient) \in Nat
    BY <1>1, LenProperties DEF Typed
  <2>11. toClient' \in Seq(Byte) /\ buffered' \in 0 .. Len(toClient')
    <3> DEFINE q == First(F, n)
               t == toClient'
    <3>1. q \in Seq(Byte) /\ t = toClient \o q
      BY <2>7, <2>9
    <3> HIDE DEF q, t
    <3>2. t \in Seq(Byte) /\ IsConcat(t, toClient, q)
      BY <2>10, <3>1, ElementsOfConcat
    <3>3. Len(t) \in Nat /\ Len(t) >= Len(toClient)
      BY <2>10, <3>2 DEF IsConcat
    <3>4. buffered \in 0 .. Len(t)
      BY <2>10, <3>3
    <3> QED
      BY <1>3, <3>2, <3>4 DEF t
  <2>12. g \in Handled
    BY <1>9 DEF Given, Handled, Sendable
  <2>13. /\ handled' \in Seq(Handled) /\ Len(handled') = h + 1 /\ handled'[h + 1] = g
         /\ \A i \in 1 .. h : handled'[i] = handled[i]
         /\ DOMAIN handled' = 1 .. h + 1
    BY <1>7, <2>5, <2>12, AppendProperties, LenProperties
  <2>14. Typed'
    BY <1>1, <1>3, <1>6, <2>4, <2>6, <2>11, <2>13 DEF Typed
  <2>15. toServer' = FramesOf(SubSeq(sent', Len(handled') + 1, Len(sent')))
    <3>1. r = FramesOf(SubSeq(sent, h + 2, Len(sent)))
      BY DEF r, FramesFrom
    <3>2. Len(handled') + 1 = h + 2 /\ sent' = sent
      BY <1>3, <1>7, <2>13
    <3> QED
      BY <2>2, <3>1, <3>2
  <2>16. Queued'
    <3>1. Len(handled') <= Len(sent')
      BY <1>3, <1>7, <2>13
    <3> QED
      BY <2>4, <2>15, <3>1 DEF Queued, FramesFrom
  <2>17. HandledIsSentText'
    <3>1. ASSUME NEW i \in 1 .. h + 1, handled'[i] # None
          PROVE  /\ handled'[i] = [proto |-> sent[i].req.proto, body |-> sent[i].body]
                 /\ IsText(handled'[i].proto, handled'[i].body)
      <4>1. CASE i = h + 1
        <5>1. g # None /\ handled'[i] = g
          BY <2>13, <3>1, <4>1
        <5>2. IsText(x.req.proto, x.body) /\ g = [proto |-> x.req.proto, body |-> x.body]
          BY <5>1 DEF Given
        <5>3. x = sent[i]
          BY <4>1 DEF x
        <5> QED
          BY <5>1, <5>2, <5>3
      <4>2. CASE i # h + 1
        <5>1. i \in 1 .. h
          BY <1>7, <4>2
        <5>2. handled'[i] = handled[i] /\ i \in DOMAIN handled
          BY <1>7, <2>13, <5>1
        <5> QED
          BY <1>1, <3>1, <5>2 DEF HandledIsSentText
      <4> QED
        BY <4>1, <4>2
    <3> QED
      BY <1>3, <2>13, <3>1 DEF HandledIsSentText
  <2>18. InStep'
    <3>1. ASSUME ~Misled, client = "waiting" PROVE sent # <<>> /\ Answered'
      <4>1. sent # <<>> /\ toClient = <<>> /\ h = Len(sent) - 1
        BY <1>1, <1>3, <1>6, <3>1, NotQuiet DEF Asked
      <4>2. h + 1 = Len(sent) /\ h + 2 = Len(sent) + 1
        BY <1>7, <4>1
      <4>3. toServer' = <<>>
        BY <1>7, <2>2, <4>2, QueueEnd DEF r
      <4>4. Len(handled') = Len(sent')
        BY <1>3, <2>13, <4>2
      <4>5. Quiet'
        BY <2>4, <4>3, <4>4 DEF Quiet
      <4>6. x.req.id = lastId'
        BY <1>1, <1>3, <4>1, <4>2 DEF Counted, x
      <4>7. toClient' = First(F, n)
        <5> DEFINE q == First(F, n)
        <5>1. q \in Seq(Byte) /\ toClient' = <<>> \o q
          BY <2>7, <2>9, <4>1
        <5> HIDE DEF q
        <5>2. toClient' = q
          BY <5>1
        <5> QED
          BY <5>2 DEF q
      <4>8. res # None
        BY DEF Replies, None
      <4>9. answer' = res /\ answer'.id = lastId'
        BY <2>6, <4>6
      <4>10. Answered'
        BY <4>5, <4>7, <4>8, <4>9 DEF Answered, F
      <4> QED
        BY <4>1, <4>10
    <3>2. ~Misled => client # "idle"
      BY <1>1, <1>6, NotQuiet
    <3> QED
      BY <1>3, <1>10, <3>1, <3>2 DEF InStep
  <2> QED
    BY <1>3, <1>11, <2>14, <2>16, <2>17, <2>18 DEF IInv
<1> QED
  BY <1>2, <1>12, <1>13

-----------------------------------------------------------------------------
(* The invariant holds, and what follows from it.                          *)

LEMMA AskingIs ==
  ASSUME IInv, TokenLogin \/ DirectoryVerification \/ FileDiff
  PROVE  \E x \in Sendable : Asks(x)
<1>1. Typed /\ Counted
  BY DEF IInv
<1>2. 1 \in Methods /\ 2 \in Methods /\ 10 \in Methods
  BY DEF Methods
<1>3. Logins = Bodies(1) /\ Verifications = Bodies(2) /\ Diffs = Bodies(10)
  BY Different, Zenon DEF Bodies
<1>4. \E proto \in Methods : \E body \in Bodies(proto) : SendRequest(proto, body)
  BY <1>2, <1>3, Zenon DEF TokenLogin, DirectoryVerification, FileDiff
<1> QED
  BY <1>1, <1>4, Asking

LEMMA AskingKeeps ==
  ASSUME IInv, TokenLogin \/ DirectoryVerification \/ FileDiff
  PROVE  IInv' /\ reactions' = reactions
<1>1. PICK x \in Sendable : Asks(x)
  BY AskingIs
<1>2. IInv'
  BY <1>1, AsksKeeps
<1>3. reactions' = reactions
  BY <1>1 DEF Asks
<1> QED
  BY <1>2, <1>3

LEMMA InitIInv == Init => IInv
<1> SUFFICES ASSUME Init
             PROVE  IInv
  OBVIOUS
<1>1. /\ assertions \in BOOLEAN /\ client = "idle" /\ lastId \in FirstIds /\ reactors = {}
      /\ server = "header" /\ length = 0 /\ toServer = <<>> /\ toClient = <<>>
      /\ buffered = 0 /\ sent = <<>> /\ handled = <<>> /\ answer = None /\ reactions = <<>>
  BY DEF Init
<1>2. Len(<<>>) = 0 /\ DOMAIN <<>> = {} /\ \A S : <<>> \in Seq(S)
  OBVIOUS
<1>3. Len(sent) = 0 /\ Len(handled) = 0 /\ DOMAIN sent = {} /\ DOMAIN handled = {}
  BY <1>1, <1>2
<1>4. Typed
  <2>1. 0 \in Int32
    BY Int32Elements, MaxInt32Type
  <2>2. buffered \in 0 .. Len(toClient)
    BY <1>1, <1>2
  <2>3. /\ toServer \in Seq(Byte) /\ toClient \in Seq(Byte) /\ sent \in Seq(Sendable)
        /\ handled \in Seq(Handled) /\ reactions \in Seq(Readable)
    BY <1>1, <1>2, Zenon
  <2> QED
    BY <1>1, <2>1, <2>2, <2>3 DEF Typed
<1>5. Counted
  <2>1. Len(sent) <= MaxRequests
    BY <1>3, WireAssumption
  <2>2. lastId \in Int32 /\ 0 < MaxInt32 /\ 0 \in Nat
    <3>1. 0 < MaxInt32
      BY MaxInt32Value, SMT
    <3> QED
      BY <1>1, <3>1, WireAssumption
  <2>3. lastId = Wrapped(lastId, 0)
    BY <2>2, WrappedNext
  <2>4. {sent[i].req.id : i \in DOMAIN sent} = {}
    BY <1>3
  <2> QED
    BY <1>1, <1>3, <2>1, <2>3, <2>4 DEF Counted
<1>6. Queued
  <2>1. FramesFrom(Len(sent) + 1) = <<>>
    BY <1>4, QueueEnd DEF Typed
  <2> QED
    BY <1>1, <1>3, <2>1 DEF Queued
<1>7. HandledIsSentText
  BY <1>3 DEF HandledIsSentText
<1>8. InStep
  BY <1>1, <1>3 DEF InStep, Quiet
<1> QED
  BY <1>4, <1>5, <1>6, <1>7, <1>8 DEF IInv

LEMMA NextIInv ==
  ASSUME IInv, [Next]_vars
  PROVE  /\ IInv'
         /\ reactions' # reactions =>
              \/ Last(reactions') = answer /\ answer.id = lastId
              \/ ~assertions /\ EmptyResponse \in Range(reactions')
<1>1. CASE TokenLogin \/ DirectoryVerification \/ FileDiff
  BY <1>1, AskingKeeps
<1>2. CASE OnReadyRead
  BY <1>2, ReadingKeeps
<1>3. CASE RecvHeader
  BY <1>3, HeaderKeeps
<1>4. CASE RecvBody
  BY <1>4, BodyKeeps
<1>5. CASE UNCHANGED vars
  <2>1. UNCHANGED <<assertions, client, lastId, reactors, server, length, toServer,
                    toClient, buffered, sent, handled, answer, reactions>>
    BY <1>5 DEF vars, clientVars, serverVars, history
  <2>2. Typed' /\ Counted'
    BY <2>1 DEF IInv, Typed, Counted
  <2>3. Queued'
    BY <2>1 DEF IInv, Queued, FramesFrom
  <2>4. HandledIsSentText'
    BY <2>1 DEF IInv, HandledIsSentText
  <2>5. InStep'
    BY <2>1 DEF IInv, InStep, Misled, Quiet, Asked, Answered
  <2> QED
    BY <2>1, <2>2, <2>3, <2>4, <2>5 DEF IInv
<1> QED
  BY <1>1, <1>2, <1>3, <1>4, <1>5 DEF Next

(* In every reachable state, whatever the bodies, ids and texts and however *)
(* the bytes arrive: what the server has still to read is exactly the       *)
(* frames it has not handled, and, until a client built without assertions  *)
(* has been misled, what the client has still to read is the rest of one    *)
(* frame that answers its last request, or nothing.                         *)
THEOREM WireInvariant == Spec => []IInv
<1>1. Init => IInv
  BY InitIInv
<1>2. IInv /\ [Next]_vars => IInv'
  BY NextIInv
<1> QED
  BY <1>1, <1>2, PTL DEF Spec

LEMMA ResponsesReadable ==
  ASSUME Typed, NEW res \in Responses
  PROVE  res \in Readable
<1>1. answer \in Replies \cup {None} /\ reactions \in Seq(Readable)
  BY DEF Typed
<1>2. CASE res = answer
  <2>1. res # None
    BY DEF Responses
  <2> QED
    BY <1>1, <1>2, <2>1, ReplyFacts
<1>3. CASE res \in Range(reactions)
  <2>1. PICK i \in DOMAIN reactions : res = reactions[i]
    BY <1>3 DEF Range
  <2> QED
    BY <1>1, <2>1
<1> QED
  BY <1>2, <1>3 DEF Responses

(* Every variable keeps to its range, for all bodies, ids and texts: in     *)
(* particular the ids that Client::queryId counts wrap as an int32 does,    *)
(* and what a client that lost its place makes of bytes is a response.      *)
THEOREM WireTyped == Spec => []WireTypeOK
<1>1. ASSUME IInv
      PROVE  WireTypeOK
  <2>1. Typed /\ Counted /\ Queued
    BY <1>1 DEF IInv
  <2>2. \A i \in DOMAIN sent : IsRequest(sent[i].req)
    <3>1. \A i \in DOMAIN sent : sent[i] \in Sendable
      BY <2>1 DEF Typed
    <3> QED
      BY <3>1, SendableFacts
  <2>3. \A res \in Responses : IsResponse(res)
    BY <2>1, ResponsesReadable, ReadableFacts
  <2> QED
    BY <2>1, <2>2, <2>3 DEF WireTypeOK, Typed, Counted, Queued
<1> QED
  BY <1>1, WireInvariant, PTL

(* ByteSizeLong says exactly how many bytes are written, for every message  *)
(* a client or the server may send: the buffer that is allocated by it is   *)
(* filled to its end and not beyond.                                        *)
THEOREM WireSizes == Spec => []SizesAreExact
<1>1. ASSUME IInv
      PROVE  SizesAreExact
  <2>1. Typed
    BY <1>1 DEF IInv
  <2>2. \A i \in DOMAIN sent :
          /\ Len(sent[i].req.body) = BodySize(sent[i].req.proto, sent[i].body)
          /\ Len(SerializeRequest(sent[i].req)) = RequestSize(sent[i].req)
    <3>1. \A i \in DOMAIN sent : sent[i] \in Sendable
      BY <2>1 DEF Typed
    <3> QED
      BY <3>1, SendableFacts
  <2>3. \A res \in Responses : Len(SerializeResponse(res)) = ResponseSize(res)
    BY <2>1, ResponsesReadable, ReadableFacts
  <2> QED
    BY <2>2, <2>3, Zenon DEF SizesAreExact
<1> QED
  BY <1>1, WireInvariant, PTL

LEMMA ParsedBodyIs ==
  ASSUME NEW bytes
  PROVE  /\ ParsedBody(1, bytes) = ParseTokenLogin(bytes)
         /\ ParsedBody(2, bytes) = ParseVerification(bytes)
         /\ ParsedBody(10, bytes) = ParseFileDiff(bytes)
<1> DEFINE req(proto) == [EmptyRequest EXCEPT !.proto = proto, !.body = bytes]
<1>1. \A proto : req(proto).proto = proto /\ req(proto).body = bytes
  BY DEF EmptyRequest
<1>2. \A proto : ParsedBody(proto, bytes) = Parsed(req(proto))
  BY Zenon DEF ParsedBody
<1> HIDE DEF req
<1>3. \A r : r.proto = 1 => Parsed(r) = ParseTokenLogin(r.body)
  BY Different, Zenon DEF Parsed
<1>4. \A r : r.proto = 2 => Parsed(r) = ParseVerification(r.body)
  BY Different, Zenon DEF Parsed
<1>5. \A r : r.proto = 10 => Parsed(r) = ParseFileDiff(r.body)
  BY Different, Zenon DEF Parsed
<1> QED
  BY <1>1, <1>2, <1>3, <1>4, <1>5, Zenon

LEMMA BodiesMerge ==
  ASSUME NEW proto \in Methods, NEW to \in Bodies(proto), NEW from \in Bodies(proto),
         NEW a \in Serialized(proto, to), NEW b \in Serialized(proto, from),
         IsText(proto, to), IsText(proto, from)
  PROVE  ParsedBody(proto, a \o b) = Merged(proto, to, from)
<1>1. CASE proto = 1
  <2>1. to \in Logins /\ from \in Logins
    BY <1>1, Different DEF Bodies
  <2>2. ParseTokenLogin(a \o b) = MergeTokenLogin(to, from)
    BY <1>1, <2>1, TokenLoginBody, TokenLoginMerges
  <2>3. Merged(1, to, from) = MergeTokenLogin(to, from)
    BY Different, Zenon DEF Merged
  <2> QED
    BY <1>1, <2>2, <2>3, ParsedBodyIs
<1>2. CASE proto = 2
  <2>1. to \in Verifications /\ from \in Verifications
    BY <1>2, Different DEF Bodies
  <2>2. ParseVerification(a \o b) = MergeVerification(to, from)
    BY <1>2, <2>1, VerificationBody, VerificationMerges
  <2>3. Merged(2, to, from) = MergeVerification(to, from)
    BY Different, Zenon DEF Merged
  <2> QED
    BY <1>2, <2>2, <2>3, ParsedBodyIs
<1>3. CASE proto = 10
  <2>1. to \in Diffs /\ from \in Diffs
    BY <1>3, Different DEF Bodies
  <2>2. ParseFileDiff(a \o b) = MergeFileDiff(to, from)
    BY <1>3, <2>1, FileDiffBody, FileDiffMerges
  <2>3. Merged(10, to, from) = MergeFileDiff(to, from)
    BY Different, Zenon DEF Merged
  <2> QED
    BY <1>3, <2>2, <2>3, ParsedBodyIs
<1> QED
  BY <1>1, <1>2, <1>3 DEF Methods

(* To read what two messages are written as, one after the other, is to     *)
(* merge the second into the first, for every two requests a client sends,  *)
(* their bodies and every two responses.                                    *)
THEOREM WireMerges == Spec => []ConcatenationMerges
<1>1. ASSUME IInv
      PROVE  ConcatenationMerges
  <2>1. Typed
    BY <1>1 DEF IInv
  <2>2. \A i \in DOMAIN sent : sent[i] \in Sendable
    BY <2>1 DEF Typed
  <2>3. ASSUME NEW x \in Sendable, NEW y \in Sendable
        PROVE  /\ /\ x.req.proto = y.req.proto
                  /\ IsText(x.req.proto, x.body) /\ IsText(y.req.proto, y.body)
                  => ParsedBody(x.req.proto, x.req.body \o y.req.body)
                       = Merged(x.req.proto, x.body, y.body)
               /\ ParseRequest(SerializeRequest(x.req) \o SerializeRequest(y.req))
                    = MergeRequest(x.req, y.req)
    <3>1. /\ x.req.proto \in Methods /\ x.body \in Bodies(x.req.proto)
          /\ x.req.body \in Serialized(x.req.proto, x.body)
          /\ y.body \in Bodies(y.req.proto) /\ y.req.body \in Serialized(y.req.proto, y.body)
      BY DEF Sendable
    <3>2. /\ IsRequest(x.req) /\ Short(x.req.body)
          /\ IsRequest(y.req) /\ Short(y.req.body)
      BY SendableFacts
    <3> QED
      BY <3>1, <3>2, BodiesMerge, RequestMerges
  <2>4. ASSUME NEW a \in Responses, NEW b \in Responses
        PROVE  ParseResponse(SerializeResponse(a) \o SerializeResponse(b)) = MergeResponse(a, b)
    <3>1. a \in Readable /\ b \in Readable
      BY <2>1, ResponsesReadable
    <3>2. /\ IsResponse(a) /\ Short(a.msg) /\ Short(a.body) /\ IsUtf8(a.msg)
          /\ IsResponse(b) /\ Short(b.msg) /\ Short(b.body) /\ IsUtf8(b.msg)
      BY <3>1 DEF Readable, IsResponse
    <3> QED
      BY <3>2, ResponseMerges
  <2> QED
    BY <2>2, <2>3, <2>4, Zenon DEF ConcatenationMerges
<1> QED
  BY <1>1, WireInvariant, PTL

(* onReadyRead takes one frame a signal, and that is enough: with the       *)
(* assertions compiled in, a client that waits for nothing has left no byte *)
(* of a frame on the way or in its socket.                                  *)
THEOREM WireStrandsNothing == Spec => []NothingStranded
<1>1. ASSUME IInv
      PROVE  NothingStranded
  <2>1. InStep
    BY <1>1 DEF IInv
  <2> QED
    BY <2>1 DEF InStep, Misled, Quiet, NothingStranded
<1> QED
  BY <1>1, WireInvariant, PTL

(* The handlers get the bodies the client has set, in the order it sent     *)
(* them, or refuse them, and never a string that is not UTF-8; however the  *)
(* bytes arrive and whatever the client makes of the answers.               *)
THEOREM WireHandlesWhatWasSent == Spec => []HandledIsSentText
<1>1. IInv => HandledIsSentText
  BY DEF IInv
<1> QED
  BY <1>1, WireInvariant, PTL

(* A reactor is called with the answer the server has set for the request   *)
(* that waits, or, where Q_ASSERT is compiled out, after an empty response  *)
(* has been read of a header that was cut.                                  *)
THEOREM WireAnswers == Spec => AnswersAreMeant
<1>1. IInv /\ [Next]_vars
        => [reactions' # reactions =>
              \/ Last(reactions') = answer /\ answer.id = lastId
              \/ ~assertions /\ EmptyResponse \in Range(reactions')]_vars
  BY NextIInv
<1> QED
  BY <1>1, WireInvariant, PTL DEF Spec, AnswersAreMeant

-----------------------------------------------------------------------------
(* The bytes of a connection implement Exchange.                           *)

(* Until it is misled, a client has heard as many answers as it has sent   *)
(* requests when it waits for none, and one less when it waits; and what   *)
(* it has to read then is of the last answer.                              *)
Heard ==
  ~Misled =>
    /\ client = "idle" => Len(reactions) = Len(sent)
    /\ client = "waiting" => /\ Len(reactions) = Len(sent) - 1
                             /\ toClient # <<>> => Len(handled) = Len(sent)

ConnectionStep == [Connection!Next]_(Connection!connection)

LEMMA AppendedIs ==
  ASSUME NEW S, NEW s \in Seq(S), NEW x \in S
  PROVE  /\ Connection!IsAppended(s, Append(s, x))
         /\ Len(Append(s, x)) = Len(s) + 1 /\ Len(s) \in Nat
<1> DEFINE t == Append(s, x)
<1>1. Len(t) = Len(s) + 1 /\ t[Len(s) + 1] = x /\ Len(s) \in Nat
  BY AppendProperties, LenProperties
<1>2. t[Len(t)] = x
  BY <1>1
<1> HIDE DEF t
<1>3. t = Append(s, x) => Connection!IsAppended(s, t)
  BY <1>2 DEF Connection!IsAppended
<1> QED
  BY <1>1, <1>3 DEF t

LEMMA ConnectionStays ==
  ASSUME UNCHANGED <<assertions, sent, handled, answer, reactions>>
  PROVE  ConnectionStep
<1>1. Misled' = Misled
  BY DEF Misled
<1> QED
  BY <1>1 DEF ConnectionStep, Connection!connection

LEMMA AskingIsSend ==
  ASSUME IInv, Heard, TokenLogin \/ DirectoryVerification \/ FileDiff
  PROVE  Heard' /\ ConnectionStep
<1>1. PICK x \in Sendable : Asks(x)
  BY AskingIs
<1>2. /\ client = "idle" /\ client' = "waiting" /\ sent' = Append(sent, x)
      /\ UNCHANGED <<assertions, toClient, handled, answer, reactions>>
  BY <1>1 DEF Asks
<1>3. sent \in Seq(Sendable) /\ reactions \in Seq(Readable) /\ InStep
  BY DEF IInv, Typed
<1>4. Connection!IsAppended(sent, sent') /\ Len(sent') = Len(sent) + 1 /\ Len(sent) \in Nat
  BY <1>2, <1>3, AppendedIs
<1>5. Misled' = Misled
  BY <1>2 DEF Misled
<1>6. ~Misled => Len(reactions) = Len(sent) /\ toClient = <<>>
  BY <1>2, <1>3 DEF Heard, InStep
<1>7. Heard'
  BY <1>2, <1>4, <1>5, <1>6 DEF Heard
<1>8. Connection!Send
  BY <1>2, <1>4, <1>5, <1>6 DEF Connection!Send
<1> QED
  BY <1>7, <1>8 DEF ConnectionStep, Connection!Next

LEMMA ReadingIsHear ==
  ASSUME IInv, Heard, OnReadyRead
  PROVE  Heard' /\ ConnectionStep
<1>1. /\ client \in {"idle", "waiting"}
      /\ UNCHANGED <<assertions, lastId, sent, handled, answer>>
  BY Reading DEF IInv
<1>5. \/ Ends
      \/ \E available \in buffered + 1 .. Len(toClient) :
           \E taken \in 0 .. available : \E n \in Int :
             IsHeader(taken, n, available) /\ Reacts(taken, n, available)
  BY Reading DEF IInv
<1>2. sent \in Seq(Sendable) /\ reactions \in Seq(Readable) /\ InStep /\ Typed
  BY DEF IInv, Typed
<1>3. CASE Ends
  <2>1. reactions' = reactions /\ Misled' = Misled
    BY <1>1, <1>3 DEF Ends, Misled
  <2>2. Heard'
    BY <1>3 DEF Ends, Heard
  <2> QED
    BY <1>1, <2>1, <2>2, ConnectionStays
<1>4. ASSUME NEW available \in buffered + 1 .. Len(toClient), NEW taken \in 0 .. available,
             NEW n \in Int, IsHeader(taken, n, available), Reacts(taken, n, available)
      PROVE  Heard' /\ ConnectionStep
  <2> DEFINE res == ParseResponse(SubSeq(toClient, taken + 1, taken + n))
  <2>1. client' = "idle" /\ reactions' = Append(reactions, res) /\ res \in Readable
    BY <1>4 DEF Reacts
  <2>2. ~Misled => /\ client = "waiting" /\ toClient # <<>>
                   /\ \/ res = answer
                      \/ ~assertions /\ res = EmptyResponse
    <3>1. ~Misled => /\ Quiet
                     /\ \/ res = answer /\ answer.id = lastId /\ toClient' = <<>>
                        \/ ~assertions /\ res = EmptyResponse
      BY <1>1, <1>2, <1>4, ReactsInStep
    <3>2. toClient # <<>>
      <4>1. Len(<<>>) = 0
        OBVIOUS
      <4>2. Len(toClient) \in Nat /\ buffered \in Nat
        BY <1>2, LenProperties DEF Typed
      <4>3. ~ (Len(toClient) = 0)
        BY <4>2
      <4> QED
        BY <4>1, <4>3
    <3>3. ~Misled => client # "idle"
      BY <1>2, <3>2 DEF InStep
    <3> QED
      BY <1>1, <3>1, <3>2, <3>3
  <2> HIDE DEF res
  <2>3. /\ Connection!IsAppended(reactions, reactions')
        /\ Len(reactions') = Len(reactions) + 1 /\ Len(reactions) \in Nat /\ Len(sent) \in Nat
    BY <1>2, <2>1, AppendedIs, LenProperties
  <2>4. Misled => Misled'
    <3>1. Range(reactions) \subseteq Range(reactions')
      BY <1>2, <2>1, RangeGrows
    <3> QED
      BY <1>1, <3>1 DEF Misled
  <2>5. ~Misled => Len(reactions) = Len(sent) - 1 /\ Len(handled) = Len(sent)
    BY <2>2 DEF Heard
  <2>6. Heard'
    BY <1>1, <2>1, <2>3, <2>4, <2>5 DEF Heard
  <2>7. ~Misled => Connection!IsAnswered
    BY <2>3, <2>5 DEF Connection!IsAnswered
  <2>8. ConnectionStep
    <3>1. CASE Misled'
      <4>1. Connection!Mishear
        BY <1>1, <2>3, <2>7, <3>1 DEF Connection!Mishear
      <4> QED
        BY <4>1 DEF ConnectionStep, Connection!Next
    <3>2. CASE ~Misled'
      <4>1. res = answer
        <5>1. res \in Range(reactions')
          BY <1>2, <2>1, RangeGrows
        <5>2. ~assertions /\ res = EmptyResponse => Misled'
          BY <1>1, <5>1 DEF Misled
        <5> QED
          BY <2>2, <2>4, <3>2, <5>2
      <4>2. Misled' = Misled
        BY <2>4, <3>2 DEF Misled
      <4>3. Connection!Hear
        BY <1>1, <2>1, <2>4, <2>7, <3>2, <4>1, <4>2 DEF Connection!Hear
      <4> QED
        BY <4>3 DEF ConnectionStep, Connection!Next
    <3> QED
      BY <3>1, <3>2
  <2> QED
    BY <2>6, <2>8
<1> QED
  BY <1>3, <1>4, <1>5

LEMMA BodyIsHandle ==
  ASSUME IInv, Heard, RecvBody
  PROVE  Heard' /\ ConnectionStep
<1> DEFINE x == sent[Len(handled) + 1]
<1>1. /\ server = "body" /\ Len(handled) < Len(sent) /\ x \in Sendable /\ toServer # <<>>
      /\ UNCHANGED <<assertions, client, sent, reactions>>
      /\ \/ UNCHANGED <<toClient, handled, answer>>
         \/ Sets(x.req.id) /\ \E g \in Given(x) : handled' = Append(handled, g)
  BY BodyReceived
<1>2. handled \in Seq(Handled) /\ InStep
  BY DEF IInv, Typed
<1>3. Misled' = Misled
  BY <1>1 DEF Misled
<1>4. ~Misled => client # "idle" /\ (client = "waiting" => Asked)
  BY <1>1, <1>2, NotQuiet
<1>5. CASE UNCHANGED <<toClient, handled, answer>>
  <2>1. Heard'
    BY <1>1, <1>3, <1>5 DEF Heard
  <2> QED
    BY <1>1, <1>5, <2>1, ConnectionStays
<1>6. CASE Sets(x.req.id) /\ \E g \in Given(x) : handled' = Append(handled, g)
  <2> DEFINE id == x.req.id
  <2>1. PICK g \in Given(x) : handled' = Append(handled, g)
    BY <1>6
  <2>2. g \in {None, [proto |-> x.req.proto, body |-> x.body]} /\ g \in Handled
    BY <1>1 DEF Given, Handled, Sendable
  <2>3. answer'.id = x.req.id
    BY <1>6 DEF Sets
  <2> HIDE DEF x
  <2>4. Len(handled') = Len(handled) + 1 /\ Len(handled) \in Nat
    BY <1>2, <2>1, <2>2, AppendedIs
  <2>5. Len(sent) \in Nat
    BY LenProperties DEF IInv, Typed
  <2>6. Heard'
    BY <1>1, <1>3, <1>4, <2>4, <2>5 DEF Heard, Asked
  <2>7. Connection!Handle
    BY <1>1, <1>3, <2>1, <2>2, <2>3 DEF Connection!Handle, x
  <2> QED
    BY <2>6, <2>7 DEF ConnectionStep, Connection!Next
<1> QED
  BY <1>1, <1>5, <1>6

LEMMA HeaderStays ==
  ASSUME IInv, Heard, RecvHeader
  PROVE  Heard' /\ ConnectionStep
<1>1. UNCHANGED <<assertions, client, toClient, sent, handled, answer, reactions>>
  BY Zenon DEF RecvHeader, clientVars, history
<1>2. Heard'
  BY <1>1 DEF Heard, Misled
<1> QED
  BY <1>1, <1>2, ConnectionStays

LEMMA NextIsConnection ==
  ASSUME IInv, Heard, [Next]_vars
  PROVE  Heard' /\ ConnectionStep
<1>1. CASE TokenLogin \/ DirectoryVerification \/ FileDiff
  BY <1>1, AskingIsSend
<1>2. CASE OnReadyRead
  BY <1>2, ReadingIsHear
<1>3. CASE RecvHeader
  BY <1>3, HeaderStays
<1>4. CASE RecvBody
  BY <1>4, BodyIsHandle
<1>5. CASE UNCHANGED vars
  <2>1. UNCHANGED <<assertions, client, toClient, sent, handled, answer, reactions>>
    BY <1>5 DEF vars, clientVars, history
  <2>2. Heard'
    BY <2>1 DEF Heard, Misled
  <2> QED
    BY <2>1, <2>2, ConnectionStays
<1> QED
  BY <1>1, <1>2, <1>3, <1>4, <1>5 DEF Next

LEMMA InitIsConnection == Init => Heard /\ Connection!Init
<1> SUFFICES ASSUME Init
             PROVE  Heard /\ Connection!Init
  OBVIOUS
<1>1. /\ client = "idle" /\ toClient = <<>> /\ sent = <<>> /\ handled = <<>>
      /\ answer = None /\ reactions = <<>>
  BY DEF Init
<1>2. Range(reactions) = {}
  BY <1>1 DEF Range
<1> QED
  BY <1>1, <1>2 DEF Heard, Misled, Connection!Init

(* A connection implements Exchange: however its bytes are cut, the server  *)
(* handles each request once and in order, answers it once, and the client  *)
(* hears that answer, once, before it sends the next; only a client built   *)
(* without assertions can be lost.                                          *)
THEOREM WireImplementsExchange == Spec => Exchanges
<1>1. Init => Heard /\ Connection!Init
  BY InitIsConnection
<1>2. IInv /\ Heard /\ [Next]_vars => Heard' /\ ConnectionStep
  BY NextIsConnection
<1>3. IInv /\ Heard /\ [Next]_vars => Heard' /\ [Connection!Next]_(Connection!connection)
  BY <1>2 DEF ConnectionStep
<1> QED
  BY <1>1, <1>3, WireInvariant, PTL DEF Spec, Exchanges, Connection!Spec
=============================================================================
