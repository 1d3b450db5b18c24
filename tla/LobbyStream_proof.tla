-------------------------- MODULE LobbyStream_proof --------------------------
(***************************************************************************)
(* Proofs about the frames that one client receives, for any number of     *)
(* other players and any sizes of names, hosts, messages and pages.        *)
(***************************************************************************)
EXTENDS LobbyStream, FiniteSetTheorems, WellFoundedInduction, TLAPS

-----------------------------------------------------------------------------
(* Sizes                                                                   *)

\* A non-empty set of naturals has a least element.
LEMMA LeastNumber ==
  ASSUME NEW T \in SUBSET Nat, T # {}
  PROVE  \E m \in T : \A n \in T : m <= n
<1> DEFINE R == OpToRel(<, Nat)
<1>1. PICK m \in T : \A n \in T : ~ (<<n, m>> \in R)
  BY NatLessThanWellFounded, WFMin
<1>2. \A n \in T : ~ (n < m)
  BY <1>1 DEF OpToRel
<1> QED BY <1>2

\* The recursion by which FlattenSeq is defined has a solution, ...
LEMMA FlattenSolution ==
  ASSUME NEW S, NEW seqs \in Seq(Seq(S)), NEW n \in Nat, n <= Len(seqs)
  PROVE  \E f : f = [i \in 1..n |-> IF i = 1 THEN seqs[i] ELSE f[i-1] \o seqs[i]]
<1> DEFINE Joined(k, f) == [i \in 1..k |-> IF i = 1 THEN seqs[i] ELSE f[i-1] \o seqs[i]]
           T == {k \in 0..Len(seqs) : ~ \E f : f = Joined(k, f)}
<1>1. ASSUME NEW m \in T, \A k \in T : m <= k PROVE FALSE
  <2>1. CASE m = 0
    <3> DEFINE f == [i \in 1..0 |-> <<>>]
    <3>1. f = Joined(0, f)
      OBVIOUS
    <3> QED BY <2>1, <3>1
  <2>2. CASE m # 0
    <3>1. m \in Nat /\ m - 1 \in 0..Len(seqs) /\ ~ (m <= m - 1)
      BY <2>2
    <3>2. m - 1 \notin T
      <4> HIDE DEF T
      <4> QED BY <1>1, <3>1
    <3>3. PICK g : g = Joined(m - 1, g)
      <4> HIDE DEF Joined
      <4> QED BY <3>1, <3>2
    <3> DEFINE f == [i \in 1..m |-> IF i = 1 THEN seqs[1]
                                    ELSE IF i = m THEN g[m - 1] \o seqs[m] ELSE g[i]]
    <3>4. ASSUME NEW i \in 1..m PROVE f[i] = IF i = 1 THEN seqs[i] ELSE f[i-1] \o seqs[i]
      <4>1. CASE i = 1
        BY <4>1
      <4>2. CASE i # 1 /\ i = m
        <5>1. m - 1 \in 1..m - 1 /\ m - 1 \in 1..m
          BY <3>1, <4>2
        <5>2. f[m - 1] = g[m - 1]
          BY <3>1, <3>3, <5>1
        <5> QED BY <4>2, <5>2
      <4>3. CASE i # 1 /\ i # m
        <5>1. i \in 1..m - 1 /\ i - 1 \in 1..m - 1 /\ i - 1 \in 1..m
          BY <3>1, <4>3
        <5>2. f[i - 1] = g[i - 1]
          BY <3>1, <3>3, <5>1
        <5>3. g[i] = g[i - 1] \o seqs[i]
          BY <3>3, <4>3, <5>1
        <5> QED BY <4>3, <5>2, <5>3
      <4> QED BY <4>1, <4>2, <4>3
    <3>5. f = Joined(m, f)
      BY <3>4
    <3>6. m \in 0..Len(seqs) /\ ~ \E h : h = Joined(m, h)
      OBVIOUS
    <3> HIDE DEF f, Joined
    <3> QED BY <3>5, <3>6
  <2> QED BY <2>1, <2>2
<1> HIDE DEF Joined
<1>2. T \in SUBSET Nat
  OBVIOUS
<1>3. T = {}
  <2> HIDE DEF T
  <2> QED BY <1>1, <1>2, LeastNumber
<1>4. \E f : f = Joined(n, f)
  BY <1>3
<1> QED BY <1>4 DEF Joined

\* ... and its value joins sequences over S to one over S.
LEMMA FlattenIn ==
  ASSUME NEW S, NEW seqs \in Seq(Seq(S))
  PROVE  FlattenSeq(seqs) \in Seq(S)
<1>1. CASE Len(seqs) = 0
  BY <1>1 DEF FlattenSeq
<1>2. CASE Len(seqs) # 0
  <2> DEFINE Joined(f) == [i \in 1..Len(seqs) |-> IF i = 1 THEN seqs[i] ELSE f[i-1] \o seqs[i]]
             flatten == CHOOSE f : f = Joined(f)
  <2>1. flatten = Joined(flatten)
    <3>1. Len(seqs) \in Nat /\ Len(seqs) <= Len(seqs)
      OBVIOUS
    <3>2. \E f : f = Joined(f)
      BY <3>1, FlattenSolution
    <3> HIDE DEF Joined
    <3> QED BY <3>2
  <2>2. FlattenSeq(seqs) = flatten[Len(seqs)]
    BY <1>2 DEF FlattenSeq
  <2> HIDE DEF flatten
  <2> DEFINE T == {n \in 1..Len(seqs) : flatten[n] \notin Seq(S)}
  <2>3. ASSUME NEW m \in T, \A n \in T : m <= n PROVE FALSE
    <3>1. m \in 1..Len(seqs) /\ seqs[m] \in Seq(S) /\ flatten[m] \notin Seq(S)
      OBVIOUS
    <3>2. CASE m = 1
      BY <2>1, <3>1, <3>2
    <3>3. CASE m # 1
      <4>1. m - 1 \in 1..Len(seqs) /\ m - 1 \notin T
        BY <2>3, <3>1, <3>3
      <4>2. flatten[m] = flatten[m - 1] \o seqs[m]
        BY <2>1, <3>1, <3>3
      <4> QED BY <3>1, <4>1, <4>2
    <3> QED BY <3>2, <3>3
  <2>4. T \in SUBSET Nat
    OBVIOUS
  <2>5. T = {}
    <3> HIDE DEF T
    <3> QED BY <2>3, <2>4, LeastNumber
  <2> QED BY <1>2, <2>2, <2>5
<1> QED BY <1>1, <1>2

\* What a message consists of: numbers, and the parts into which Word cuts one.
Bytes == Nat \cup {Word(n)[i] : n \in Nat, i \in 1..4}

FieldTypes == {"uint8", "int32", "uint32", "uint64", "string", "blob"}
AnyField   == [type : FieldTypes, max : Nat]

LEMMA FunctionIsSeq ==
  ASSUME NEW S, NEW n \in Nat, NEW f \in [1..n -> S]
  PROVE  f \in Seq(S) /\ Len(f) = n
OBVIOUS

LEMMA ConcatIsSeq ==
  ASSUME NEW S, NEW s \in Seq(S), NEW t \in Seq(S)
  PROVE  s \o t \in Seq(S) /\ Len(s \o t) = Len(s) + Len(t)
OBVIOUS

LEMMA WordBytes ==
  ASSUME NEW n \in Nat
  PROVE  Word(n) \in Seq(Bytes) /\ Len(Word(n)) = 4
<1>1. \A i \in 1..4 : Word(n)[i] \in Bytes
  BY DEF Bytes
<1>2. DOMAIN Word(n) = 1..4 /\ Word(n) = [i \in 1..4 |-> Word(n)[i]]
  BY DEF Word
<1> HIDE DEF Word
<1>3. Word(n) \in [1..4 -> Bytes]
  BY <1>1, <1>2
<1> QED BY <1>3, FunctionIsSeq

LEMMA ZerosBytes ==
  ASSUME NEW n \in Nat
  PROVE  Zeros(n) \in Seq(Bytes) /\ Len(Zeros(n)) = n
BY DEF Zeros, Bytes

LEMMA DataTypeByte ==
  ASSUME NEW type \in FieldTypes
  PROVE  DataType[type] \in Nat
BY DEF FieldTypes, DataType

LEMMA FieldBytes ==
  ASSUME NEW field \in AnyField, NEW value \in Seq(Bytes)
  PROVE  WriteField(field, value) \in Seq(Bytes)
<1>1. \A type \in FieldTypes : <<DataType[type]>> \in Seq(Bytes)
  BY DataTypeByte DEF Bytes
<1>2. DataType.string = DataType["string"] /\ DataType.blob = DataType["blob"]
  OBVIOUS
<1>3. \A type \in FieldTypes, v \in Seq(Bytes) : WriteFixed(type, v) \in Seq(Bytes)
  BY <1>1 DEF WriteFixed
<1>4. WriteString(value) \in Seq(Bytes)
  <2>1. <<0>> \in Seq(Bytes)
    BY DEF Bytes
  <2> QED BY <1>1, <1>2, <2>1 DEF WriteString, FieldTypes
<1>5. WriteBlob(value) \in Seq(Bytes)
  <2>1. Len(value) \in Nat
    OBVIOUS
  <2>2. WriteFixed("uint32", Word(Len(value))) \in Seq(Bytes)
    BY <1>3, <2>1, WordBytes DEF FieldTypes
  <2> QED BY <1>1, <1>2, <2>2 DEF WriteBlob, FieldTypes
<1>6. field.type \in FieldTypes
  BY DEF AnyField
<1> QED BY <1>3, <1>4, <1>5, <1>6 DEF WriteField

LEMMA FieldsBytes ==
  ASSUME NEW fields \in Seq(AnyField), NEW values, \A i \in DOMAIN fields : values[i] \in Seq(Bytes)
  PROVE  WriteFields(fields, values) \in Seq(Bytes)
<1> DEFINE written == [i \in DOMAIN fields |-> WriteField(fields[i], values[i])]
<1>1. DOMAIN fields = 1..Len(fields) /\ Len(fields) \in Nat
  OBVIOUS
<1>2. \A i \in DOMAIN fields : fields[i] \in AnyField
  OBVIOUS
<1>3. \A i \in DOMAIN fields : WriteField(fields[i], values[i]) \in Seq(Bytes)
  BY <1>2, FieldBytes
<1>4. written \in [1..Len(fields) -> Seq(Bytes)]
  BY <1>1, <1>3
<1>5. written \in Seq(Seq(Bytes))
  BY <1>1, <1>4
<1> QED BY <1>5, FlattenIn DEF WriteFields

LEMMA EnlargedSize ==
  ASSUME NEW body \in Seq(Bytes)
  PROVE  Len(Enlarged(body)) \in Nat \ {ReservedSize}
<1>1. Len(Append(body, 0)) = Len(body) + 1 /\ Len(body) \in Nat
  OBVIOUS
<1>2. CASE Len(body) = ReservedSize
  BY <1>1, <1>2 DEF Enlarged, ReservedSize
<1>3. CASE Len(body) # ReservedSize
  BY <1>1, <1>3 DEF Enlarged
<1> QED BY <1>2, <1>3

LEMMA TaskReplyBytes ==
  ASSUME NEW ordinal \in Seq(Bytes), NEW task \in Nat, NEW count \in Nat, NEW total \in Nat
  PROVE  TaskReply(ordinal, task, count, total) \in Seq(Bytes)
<1> DEFINE values == <<ordinal, Word(0), <<task>>, Word(count)>>
<1>1. ReplyFields \in Seq(AnyField) /\ DOMAIN ReplyFields = 1..4
  BY DEF ReplyFields, Field, AnyField, FieldTypes
<1>2. /\ values[1] \in Seq(Bytes) /\ values[2] \in Seq(Bytes)
      /\ values[3] \in Seq(Bytes) /\ values[4] \in Seq(Bytes)
  BY WordBytes DEF Bytes
<1> HIDE DEF values
<1>3. \A i \in DOMAIN ReplyFields : values[i] \in Seq(Bytes)
  BY <1>1, <1>2
<1>4. WriteFields(ReplyFields, values) \in Seq(Bytes)
  BY <1>1, <1>3, FieldsBytes
<1>5. ReplyMark \in Seq(Bytes)
  BY DEF ReplyMark, Bytes
<1>6. WriteFixed("uint32", Word(total)) \in Seq(Bytes)
  <2>1. <<DataType["uint32"]>> \in Seq(Bytes)
    BY DataTypeByte DEF FieldTypes, Bytes
  <2> QED BY <2>1, WordBytes DEF WriteFixed
<1>7. (IF count = 0 THEN <<>> ELSE WriteFixed("uint32", Word(total))) \in Seq(Bytes)
  BY <1>6
<1> QED BY <1>4, <1>5, <1>7 DEF TaskReply, values

LEMMA ResultFieldsTyped == ResultFields \in Seq(AnyField) /\ Len(ResultFields) = 12
<1> DEFINE host == <<Limited("blob", MaxHost), SessionIDField, Field("uint32"), Field("uint32"),
                     Field("uint32")>>
<1>1. /\ \A type \in FieldTypes : Field(type) \in AnyField
      /\ \A type \in FieldTypes, n \in Nat : Limited(type, n) \in AnyField
  BY DEF Field, Limited, AnyField
<1>2. /\ MaxHost \in Nat /\ MaxText \in Nat /\ SessionIDSize \in Nat
      /\ {"uint32", "uint64", "int32", "string", "blob"} \subseteq FieldTypes
  BY LobbyLimits DEF SessionIDSize, FieldTypes
<1>3. /\ Field("uint32") \in AnyField /\ Field("uint64") \in AnyField /\ Field("int32") \in AnyField
      /\ Limited("string", MaxText) \in AnyField /\ Limited("blob", MaxHost) \in AnyField
      /\ SessionIDField \in AnyField
  BY <1>1, <1>2 DEF SessionIDField
<1>4. host \in Seq(AnyField) /\ Len(host) = 5
  BY <1>3
<1>5. AttributeFields \in Seq(AnyField) /\ Len(AttributeFields) = 7
  BY <1>3 DEF AttributeFields
<1>6. ResultFields = host \o AttributeFields
  BY DEF ResultFields
<1> HIDE DEF host
<1>7. /\ host \o AttributeFields \in Seq(AnyField)
      /\ Len(host \o AttributeFields) = Len(host) + Len(AttributeFields)
  BY <1>4, <1>5, ConcatIsSeq
<1> QED BY <1>4, <1>5, <1>6, <1>7

LEMMA MatchBytes ==
  ASSUME NEW match \in Matches
  PROVE  WriteFields(ResultFields, match) \in Seq(Bytes)
<1>1. PICK host \in HostSizes, text \in NameSizes : match = SomeInfo(host, text)
  BY DEF Matches
<1>2. host \in Nat /\ text \in Nat
  BY StreamAssumption, LobbyLimits
<1>3. /\ Zeros(host) \in Seq(Bytes) /\ Zeros(text) \in Seq(Bytes) /\ Zeros(8) \in Seq(Bytes)
      /\ SomeID \in Seq(Bytes) /\ Integer \in Seq(Bytes)
  BY <1>2, ZerosBytes DEF SomeID, Integer, SessionIDSize
<1>4. \A i \in 1..12 : i = 1 \/ i = 2 \/ i = 3 \/ i = 4 \/ i = 5 \/ i = 6
                       \/ i = 7 \/ i = 8 \/ i = 9 \/ i = 10 \/ i = 11 \/ i = 12
  OBVIOUS
<1>5. /\ match[1] \in Seq(Bytes) /\ match[2] \in Seq(Bytes) /\ match[3] \in Seq(Bytes)
      /\ match[4] \in Seq(Bytes) /\ match[5] \in Seq(Bytes) /\ match[6] \in Seq(Bytes)
      /\ match[7] \in Seq(Bytes) /\ match[8] \in Seq(Bytes) /\ match[9] \in Seq(Bytes)
      /\ match[10] \in Seq(Bytes) /\ match[11] \in Seq(Bytes) /\ match[12] \in Seq(Bytes)
  BY <1>1, <1>3 DEF SomeInfo
<1>6. \A i \in 1..12 : match[i] \in Seq(Bytes)
  BY <1>4, <1>5
<1>7. DOMAIN ResultFields = 1..12
  BY ResultFieldsTyped
<1> QED BY <1>6, <1>7, ResultFieldsTyped, FieldsBytes

\* No page, whatever is on it, makes a reply of the reserved size.
LEMMA RepliesAllowed ==
  ASSUME NEW kind \in LobbyKinds, NEW size \in ReplySizes[kind]
  PROVE  size \in Nat \ {Marker}
<1>1. PICK page \in Pages \cup {<<>>} : size = ReplySize(kind, page)
  BY DEF ReplySizes
<1>2. PICK n \in Nat : page \in [1..n -> Matches]
  <2>1. CASE page = <<>>
    BY <2>1
  <2>2. CASE page \in Pages
    BY <2>2, StreamAssumption DEF Pages
  <2> QED BY <2>1, <2>2
<1>3. Len(page) = n /\ DOMAIN page = 1..n
  BY <1>2
<1> DEFINE matches == [i \in DOMAIN page |-> WriteFields(ResultFields, page[i])]
<1>4. FlattenSeq(matches) \in Seq(Bytes)
  <2>1. matches \in [1..n -> Seq(Bytes)]
    BY <1>2, <1>3, MatchBytes
  <2>2. matches \in Seq(Seq(Bytes))
    BY <2>1, FunctionIsSeq
  <2> QED BY <2>2, FlattenIn
<1> HIDE DEF matches
<1>5. /\ Zeros(8) \in Seq(Bytes) /\ SomeID \in Seq(Bytes) /\ <<0>> \in Seq(Bytes)
  BY ZerosBytes DEF SomeID, SessionIDSize, Bytes
<1>6. \A k \in LobbyKinds : Task[k] \in Nat
  BY DEF LobbyKinds, Task
<1>7. \A task \in Nat, count \in Nat : TaskReply(Zeros(8), task, count, count) \in Seq(Bytes)
  BY <1>5, TaskReplyBytes
<1>8. WriteBlob(SomeID) \in Seq(Bytes)
  <2> DEFINE blob == Limited("blob", 0)
  <2>1. blob \in AnyField /\ blob.type = "blob"
    BY DEF Limited, AnyField, FieldTypes
  <2>2. WriteField(blob, SomeID) = WriteBlob(SomeID)
    BY <2>1 DEF WriteField
  <2> QED BY <1>5, <2>1, <2>2, FieldBytes
<1>9. \A logical \in Seq(Bytes) : Len(ReplyBody(logical)) \in Nat \ {Marker}
  <2> SUFFICES ASSUME NEW logical \in Seq(Bytes) PROVE Len(ReplyBody(logical)) \in Nat \ {Marker}
    OBVIOUS
  <2>1. <<0>> \o logical \in Seq(Bytes)
    BY <1>5
  <2> QED BY <2>1, EnlargedSize DEF ReplyBody, Marker, ReservedSize
<1>10. CASE kind = "create"
  <2>1. TaskReply(Zeros(8), Task[kind], 1, 1) \o WriteBlob(SomeID) \in Seq(Bytes)
    <3>1. TaskReply(Zeros(8), Task[kind], 1, 1) \in Seq(Bytes)
      BY <1>6, <1>7
    <3> QED BY <1>8, <3>1, ConcatIsSeq
  <2>2. size = Len(ReplyBody(TaskReply(Zeros(8), Task[kind], 1, 1) \o WriteBlob(SomeID)))
    BY <1>1, <1>10 DEF ReplySize, LobbyReply
  <2> QED BY <1>9, <2>1, <2>2
<1>11. CASE kind = "find"
  <2>1. TaskReply(Zeros(8), Task[kind], Len(page), Len(page)) \o FlattenSeq(matches) \in Seq(Bytes)
    <3>1. TaskReply(Zeros(8), Task[kind], Len(page), Len(page)) \in Seq(Bytes)
      BY <1>3, <1>6, <1>7
    <3> QED BY <1>4, <3>1, ConcatIsSeq
  <2>2. size = Len(ReplyBody(TaskReply(Zeros(8), Task[kind], Len(page), Len(page))
                               \o FlattenSeq(matches)))
    BY <1>1, <1>11 DEF ReplySize, LobbyReply, matches
  <2> QED BY <1>9, <2>1, <2>2
<1>12. CASE kind \notin {"create", "find"}
  <2>1. TaskReply(Zeros(8), Task[kind], 0, 0) \in Seq(Bytes)
    BY <1>6, <1>7
  <2>2. size = Len(ReplyBody(TaskReply(Zeros(8), Task[kind], 0, 0)))
    BY <1>1, <1>12 DEF ReplySize, LobbyReply
  <2> QED BY <1>9, <2>1, <2>2
<1> QED BY <1>10, <1>11, <1>12

\* A push has a header of five bytes and whole blocks behind it.
LEMMA PushesAllowed ==
  ASSUME NEW size \in PushSizes
  PROVE  size \in Nat \ {Marker}
<1>1. PICK n \in NameSizes, m \in MessageSizes :
        size = Len(Push(MaxSenderName, Integer, Zeros(8), Zeros(Shortened(n)), Zeros(m)))
  BY DEF PushSizes
<1>2. Shortened(n) \in Nat /\ m \in Nat
  BY StreamAssumption, LobbyLimits DEF Shortened, MaxSenderName
<1> DEFINE values == <<Word(21), Zeros(8), Zeros(Shortened(n)), Zeros(m)>>
           plain  == PushMark \o WriteFields(PushFields(MaxSenderName), values)
           blocks == Encrypt(Integer, BlockPadded(plain))
<1>3. plain \in Seq(Bytes)
  <2>1. PushMark \in Seq(Bytes)
    BY DEF PushMark, Bytes
  <2>2. PushFields(MaxSenderName) \in Seq(AnyField) /\ DOMAIN PushFields(MaxSenderName) = 1..4
    BY LobbyLimits DEF PushFields, MaxSenderName, Field, Limited, AnyField, FieldTypes
  <2>3. /\ values[1] \in Seq(Bytes) /\ values[2] \in Seq(Bytes)
        /\ values[3] \in Seq(Bytes) /\ values[4] \in Seq(Bytes)
    BY <1>2, WordBytes, ZerosBytes
  <2> HIDE DEF values
  <2>4. \A i \in DOMAIN PushFields(MaxSenderName) : values[i] \in Seq(Bytes)
    BY <2>2, <2>3
  <2>5. WriteFields(PushFields(MaxSenderName), values) \in Seq(Bytes)
    BY <2>2, <2>4, FieldsBytes
  <2> QED BY <2>1, <2>5, ConcatIsSeq
<1> HIDE DEF plain
<1>4. BlockPadded(plain) \in Seq(Bytes) /\ Len(BlockPadded(plain)) % 8 = 0
  <2> DEFINE short == (8 - (Len(plain) % 8)) % 8
  <2>1. Len(plain) \in Nat /\ short \in Nat /\ (Len(plain) + short) % 8 = 0
    BY <1>3
  <2> HIDE DEF short
  <2>2. Zeros(short) \in Seq(Bytes) /\ Len(Zeros(short)) = short
    BY <2>1, ZerosBytes
  <2>3. BlockPadded(plain) = plain \o Zeros(short)
    BY DEF BlockPadded, BlockSize, short
  <2>4. /\ plain \o Zeros(short) \in Seq(Bytes)
        /\ Len(plain \o Zeros(short)) = Len(plain) + Len(Zeros(short))
    BY <1>3, <2>2, ConcatIsSeq
  <2> QED BY <2>1, <2>2, <2>3, <2>4
<1> DEFINE k == Len(BlockPadded(plain))
           S == Bytes \cup {blocks[i] : i \in 1..k}
<1>5. blocks \in Seq(S) /\ Len(blocks) = k
  <2>1. k \in Nat /\ DOMAIN BlockPadded(plain) = 1..k
    BY <1>4
  <2>2. DOMAIN blocks = 1..k /\ blocks = [i \in 1..k |-> blocks[i]]
    BY <2>1 DEF Encrypt
  <2> HIDE DEF blocks, k
  <2>3. blocks \in [1..k -> S]
    BY <2>2
  <2> HIDE DEF S
  <2> QED BY <2>1, <2>3, FunctionIsSeq
<1>6. <<1>> \o Integer \in Seq(S) /\ Len(<<1>> \o Integer) = 5
  <2>1. Integer \in Seq(Bytes) /\ Len(Integer) = 4
    BY ZerosBytes DEF Integer
  <2>2. <<1>> \in Seq(Bytes) /\ Len(<<1>>) = 1
    BY DEF Bytes
  <2>3. <<1>> \o Integer \in Seq(Bytes) /\ Len(<<1>> \o Integer) = Len(<<1>>) + Len(Integer)
    BY <2>1, <2>2, ConcatIsSeq
  <2>4. Bytes \subseteq S
    OBVIOUS
  <2> HIDE DEF S
  <2> QED BY <2>1, <2>2, <2>3, <2>4
<1>7. size = Len((<<1>> \o Integer) \o blocks)
  BY <1>1 DEF Push, plain
<1> HIDE DEF S, blocks
<1>8. Len((<<1>> \o Integer) \o blocks) = 5 + k
  BY <1>5, <1>6, ConcatIsSeq
<1> QED BY <1>4, <1>7, <1>8 DEF Marker

LEMMA OthersAllowed == ConnectionIDSize \in Nat \ {Marker}
<1>1. ASSUME NEW a \in Seq(Bytes), NEW b \in Seq(Bytes), NEW c \in Seq(Bytes),
             Len(a) = 2, Len(b) = 1, Len(c) = 8
      PROVE  Len(a \o (b \o c)) = 11
  <2>1. b \o c \in Seq(Bytes) /\ Len(b \o c) = Len(b) + Len(c)
    BY ConcatIsSeq
  <2>2. Len(a \o (b \o c)) = Len(a) + Len(b \o c)
    BY <2>1, ConcatIsSeq
  <2>3. Len(b) + Len(c) = 9
    BY <1>1
  <2>4. Len(a) = 2
    BY <1>1
  <2> QED BY <2>1, <2>2, <2>3, <2>4
<1>2. /\ <<0, 4>> \in Seq(Bytes) /\ Len(<<0, 4>>) = 2
      /\ <<DataType["uint64"]>> \in Seq(Bytes) /\ Len(<<DataType["uint64"]>>) = 1
  BY DataTypeByte DEF Bytes, FieldTypes
<1>3. Zeros(8) \in Seq(Bytes) /\ Len(Zeros(8)) = 8
  BY ZerosBytes
<1>4. ConnectionIDSize = Len(<<0, 4>> \o (<<DataType["uint64"]>> \o Zeros(8)))
  BY DEF ConnectionIDSize, ConnectionIDBody, WriteFixed
<1>5. Len(<<0, 4>> \o (<<DataType["uint64"]>> \o Zeros(8))) = 11
  BY <1>1, <1>2, <1>3, Zenon
<1> QED BY <1>4, <1>5 DEF Marker

-----------------------------------------------------------------------------
(* The inductive invariant                                                 *)

Frames  == [kind : {"connection", "keepalive", "push"} \cup LobbyKinds,
            number : Nat, size : Nat \ {Marker}]
Parts   == [frame : Frames, part : {"prefix", "body", "cut"}]
Records == {"login", "keepalive", "buffer"} \cup LobbyKinds

\* where the handler has a record to answer, or is done with the last one
Busy == {"greeting", "answering", "echoing", "replying", "pushing"}
Idle == {"login", "reading", "over"}

Typed ==
  /\ asked \in Seq(Records) /\ place \in Busy \cup Idle /\ transaction \in Nat
  /\ active \in BOOLEAN /\ open \in BOOLEAN
  /\ writing \in [Writers -> Frames \cup {None}]
  /\ next \in [Writers -> {"outside", "prefix", "body", "end"}]
  /\ wire \in Seq(Parts)

\* Whoever is in writeFrame has a frame, and nobody else is.
MutexHeld ==
  /\ \A w \in Writers : next[w] # "outside" => writing[w] # None
  /\ \A v, w \in Writers : next[v] # "outside" /\ next[w] # "outside" => v = w

Uncut == \A i \in DOMAIN wire : wire[i].part # "cut"

\* The wire ends in the prefix of the frame whose body is to be written, or
\* behind a whole frame.
EndOfWire ==
  Uncut =>
    /\ \A w \in Writers : next[w] = "body" =>
         wire # <<>> /\ wire[Len(wire)] = [frame |-> writing[w], part |-> "prefix"]
    /\ wire # <<>> /\ (\A w \in Writers : next[w] # "body") =>
         wire[Len(wire)].part # "prefix" \/ wire[Len(wire)].frame.size = 0

\* the record that the handler answers
Current == asked[Len(asked)]

\* The frame in the handler's hands answers the last record it read, after the
\* push, where there is one; other players only push.
InAnswer ==
  /\ writing[Handler] = None <=> place \in Idle
  /\ place \in Busy => asked # <<>> /\ Current # "buffer"
  /\ place = "greeting" => Current = "login"
  /\ place \in {"answering", "echoing"} => Current = "keepalive"
  /\ place = "replying" => Current \in LobbyKinds
  /\ place = "pushing" => Current = "message"
  /\ place \in Busy \ {"pushing"} => writing[Handler].kind = AnswerKind(Current)
  /\ place = "replying" => writing[Handler].number = transaction
  /\ place = "pushing" => writing[Handler].kind = "push"
  /\ \A s \in Senders : writing[s] # None => writing[s].kind = "push"

\* The last record has no frame on the wire yet, and is not counted yet.
Unanswered == \/ place = "pushing"
              \/ place \in Busy /\ next[Handler] \in {"outside", "prefix"}
Uncounted == place \in {"replying", "pushing"}

\* As long as replies get through, there are as many as records that have one,
\* and the handler has counted the requests among them.
OneForOne ==
  /\ place # "over" /\ open /\ Uncut =>
       Cardinality(ReplyAt)
         = Cardinality({k \in Answerable : Unanswered => k < Len(asked)})
  /\ place # "over" =>
       transaction = Cardinality({k \in Answerable : /\ asked[k] \in LobbyKinds
                                                     /\ Uncounted => k < Len(asked)})

Greeted == \E c \in ReplyAt : wire[c].frame.kind = "connection"

\* Only a client that got its connection ID is in the registry or behind it.
GreetedFirst ==
  Uncut =>
    \/ Greeted
    \/ /\ place \in {"login", "answering", "greeting", "over"} /\ ~active
       /\ place = "greeting" => next[Handler] \in {"outside", "prefix"}
       /\ \A s \in Senders : writing[s] = None

IInv ==
  /\ Typed /\ MutexHeld /\ EndOfWire /\ InAnswer /\ OneForOne /\ GreetedFirst
  /\ PartsTogether /\ SizesAllowed /\ RepliesInOrder

-----------------------------------------------------------------------------
(* The wire                                                                *)

LEMMA LobbyKindsAre == LobbyKinds = {"log", "create", "update", "delete", "find", "message"}
BY DEF LobbyKinds, Task

LEMMA IntactOnWire ==
  ASSUME Typed
  PROVE  /\ DOMAIN wire = 1..Len(wire) /\ Len(wire) \in Nat
         /\ Intact \subseteq DOMAIN wire
         /\ Uncut => Intact = DOMAIN wire
         /\ IsFiniteSet(ReplyAt)
<1>1. DOMAIN wire = 1..Len(wire) /\ Len(wire) \in Nat
  BY DEF Typed
<1>2. Intact \subseteq DOMAIN wire
  BY DEF Intact
<1>3. Uncut => Intact = DOMAIN wire
  BY DEF Intact, Uncut
<1>4. IsFiniteSet(ReplyAt)
  <2>1. ReplyAt \in SUBSET (1..Len(wire)) /\ IsFiniteSet(1..Len(wire))
    BY <1>1, <1>2, FS_Interval DEF ReplyAt
  <2> QED BY <2>1, FS_Subset
<1> QED BY <1>1, <1>2, <1>3, <1>4

\* What a part written to the wire does to what the client can read.
LEMMA Appended ==
  ASSUME Typed, NEW f \in Frames, NEW p \in {"prefix", "body", "cut"},
         wire' = Append(wire, [frame |-> f, part |-> p])
  PROVE  /\ Len(wire') = Len(wire) + 1 /\ wire' \in Seq(Parts)
         /\ wire'[Len(wire) + 1] = [frame |-> f, part |-> p]
         /\ \A i \in 1..Len(wire) : wire'[i] = wire[i]
         /\ Uncut' <=> Uncut /\ p # "cut"
         /\ Intact' = IF Uncut' THEN Intact \cup {Len(wire) + 1} ELSE Intact
<1> DEFINE n == Len(wire) + 1
<1>1. wire \in Seq(Parts) /\ n \in Nat /\ [frame |-> f, part |-> p] \in Parts
  BY DEF Typed, Parts
<1>2. /\ Len(wire') = n /\ wire' \in Seq(Parts) /\ DOMAIN wire' = 1..n
      /\ wire'[n] = [frame |-> f, part |-> p]
      /\ \A i \in 1..Len(wire) : wire'[i] = wire[i]
  BY <1>1
<1>3. DOMAIN wire = 1..Len(wire) /\ DOMAIN wire' = DOMAIN wire \cup {n}
  BY <1>1, <1>2
<1>4. Uncut' <=> Uncut /\ p # "cut"
  BY <1>2, <1>3 DEF Uncut
<1>5. {i \in DOMAIN wire' : wire'[i].part = "cut"}
        = {i \in DOMAIN wire : wire[i].part = "cut"} \cup (IF p = "cut" THEN {n} ELSE {})
  BY <1>2, <1>3
<1>6. \A i \in DOMAIN wire : i < n /\ i \in Nat /\ ~ (n < i)
  BY <1>1, <1>3
<1>7. \A i : i \in Intact' <=> i \in IF Uncut' THEN Intact \cup {n} ELSE Intact
  <2> DEFINE cuts == {i \in DOMAIN wire : wire[i].part = "cut"}
  <2>1. Intact = {i \in DOMAIN wire : \A c \in cuts : i < c}
    BY DEF Intact
  <2>2. Intact' = {i \in DOMAIN wire \cup {n} :
                     \A c \in cuts \cup (IF p = "cut" THEN {n} ELSE {}) : i < c}
    BY <1>3, <1>5 DEF Intact
  <2>3. Uncut <=> cuts = {}
    BY DEF Uncut
  <2>4. cuts \subseteq DOMAIN wire /\ ~ (n < n)
    BY <1>1
  <2> HIDE DEF cuts, n
  <2>5. CASE cuts = {} /\ p # "cut"
    BY <1>4, <2>1, <2>2, <2>3, <2>5
  <2>6. CASE cuts = {} /\ p = "cut"
    BY <1>4, <1>6, <2>1, <2>2, <2>3, <2>4, <2>6
  <2>7. CASE cuts # {}
    BY <1>4, <1>6, <2>1, <2>2, <2>3, <2>4, <2>7
  <2> QED BY <2>5, <2>6, <2>7
<1> QED BY <1>2, <1>4, <1>7

\* A frame's prefix is only written behind whole frames, its body behind it.
LEMMA WholeAppended ==
  ASSUME Typed, MutexHeld, EndOfWire, PartsTogether, NEW w \in Writers,
         NEW p \in {"prefix", "body", "cut"},
         p = "prefix" => next[w] = "prefix", p = "body" => next[w] = "body",
         writing[w] \in Frames, Sent(w, p)
  PROVE  PartsTogether'
<1> DEFINE n == Len(wire) + 1
           f == writing[w]
<1>1. wire' = Append(wire, [frame |-> f, part |-> p])
  BY DEF Sent
<1>2. /\ Len(wire') = n /\ wire'[n] = [frame |-> f, part |-> p]
      /\ \A i \in 1..Len(wire) : wire'[i] = wire[i]
      /\ Uncut' <=> Uncut /\ p # "cut"
      /\ Intact' = IF Uncut' THEN Intact \cup {n} ELSE Intact
  BY <1>1, Appended
<1>3. /\ DOMAIN wire = 1..Len(wire) /\ Len(wire) \in Nat /\ Intact \subseteq 1..Len(wire)
      /\ Uncut => Intact = 1..Len(wire)
      /\ \A i \in 1..Len(wire) : wire[i] \in Parts
  BY IntactOnWire DEF Typed
<1> DEFINE Behind(i)  == wire'[i].part = "body" =>
                           i > 1 /\ wire'[i - 1] = [wire'[i] EXCEPT !.part = "prefix"]
           Before(i) == wire'[i].part = "prefix" /\ wire'[i].frame.size > 0 /\ i + 1 \in Intact' =>
                          wire'[i + 1] = [wire'[i] EXCEPT !.part = "body"]
<1>4. ASSUME NEW i \in Intact PROVE Behind(i)
  <2>1. wire[i].part = "body" => i > 1 /\ wire[i - 1] = [wire[i] EXCEPT !.part = "prefix"]
    BY DEF PartsTogether
  <2>2. i \in 1..Len(wire) /\ (i > 1 => i - 1 \in 1..Len(wire))
    BY <1>3
  <2> QED BY <1>2, <2>1, <2>2
<1>5. ASSUME NEW i \in Intact, i < Len(wire) PROVE Before(i)
  <2>1. wire[i].part = "prefix" /\ wire[i].frame.size > 0 /\ i + 1 \in Intact =>
          wire[i + 1] = [wire[i] EXCEPT !.part = "body"]
    BY DEF PartsTogether
  <2>2. i \in 1..Len(wire) /\ i + 1 \in 1..Len(wire) /\ i + 1 # n
    BY <1>3, <1>5
  <2>3. i + 1 \in Intact' => i + 1 \in Intact
    BY <1>2, <2>2
  <2> QED BY <1>2, <2>1, <2>2, <2>3
<1>6. ASSUME Uncut', Len(wire) >= 1 PROVE Before(Len(wire)) /\ (p = "body" => Behind(n))
  <2>1. Uncut /\ p # "cut" /\ wire # <<>> /\ Len(wire) \in 1..Len(wire)
    BY <1>2, <1>3, <1>6
  <2>2. wire'[Len(wire)] = wire[Len(wire)] /\ Len(wire) + 1 = n /\ n - 1 = Len(wire) /\ n > 1
    BY <1>2, <1>3, <1>6, <2>1
  <2>3. CASE p = "prefix"
    <3>1. \A v \in Writers : next[v] # "body"
      BY <2>3 DEF MutexHeld
    <3>2. wire[Len(wire)].part # "prefix" \/ wire[Len(wire)].frame.size = 0
      BY <2>1, <3>1 DEF EndOfWire
    <3> QED BY <2>2, <2>3, <3>2
  <2>4. CASE p = "body"
    <3>1. wire[Len(wire)] = [frame |-> f, part |-> "prefix"]
      BY <2>1, <2>4 DEF EndOfWire
    <3> QED BY <1>2, <2>2, <2>4, <3>1
  <2> QED BY <2>1, <2>3, <2>4
<1>7. ASSUME Uncut' PROVE Behind(n) /\ Before(n)
  <2>1. Uncut /\ p # "cut"
    BY <1>2, <1>7
  <2>2. n + 1 \notin Intact'
    BY <1>2, <1>3
  <2>3. Before(n)
    BY <2>2
  <2>4. p = "body" => Len(wire) >= 1
    <3>1. p = "body" => wire # <<>>
      BY <2>1 DEF EndOfWire
    <3>2. Len(wire) = 0 => wire = <<>>
      BY DEF Typed
    <3> QED BY <1>3, <3>1, <3>2
  <2>5. Behind(n)
    <3>1. CASE p = "body"
      BY <1>6, <1>7, <2>4, <3>1
    <3>2. CASE p # "body"
      BY <1>2, <3>2
    <3> QED BY <3>1, <3>2
  <2> QED BY <2>3, <2>5
<1>8. ASSUME NEW i \in Intact' PROVE Behind(i) /\ Before(i)
  <2>1. CASE i \in Intact /\ i < Len(wire)
    BY <1>4, <1>5, <2>1
  <2>2. CASE i \in Intact /\ i = Len(wire)
    <3>1. Behind(i)
      BY <1>4, <2>2
    <3>2. CASE Uncut'
      BY <1>3, <1>6, <2>2, <3>1, <3>2
    <3>3. CASE ~Uncut'
      <4>1. i + 1 \notin Intact'
        BY <1>2, <1>3, <2>2, <3>3
      <4> QED BY <3>1, <4>1
    <3> QED BY <3>2, <3>3
  <2>3. CASE i \notin Intact
    BY <1>2, <1>7, <2>3
  <2> QED BY <1>3, <2>1, <2>2, <2>3
<1> HIDE DEF Behind, Before
<1>9. \A i \in Intact' : Behind(i) /\ Before(i)
  BY <1>8
<1> QED BY <1>9 DEF PartsTogether, Behind, Before

-----------------------------------------------------------------------------
(* The records and their answers                                           *)

LEMMA NoneIsNoFrame == None \notin Frames
<1>1. ASSUME NEW f \in Frames PROVE f.kind # "none"
  BY <1>1, LobbyKindsAre DEF Frames
<1> QED BY <1>1 DEF None

\* Whoever has not got the mutex may take up another frame.
LEMMA SocketKept ==
  ASSUME IInv, UNCHANGED socket,
         \A w \in Writers : next[w] # "outside" => writing'[w] = writing[w]
  PROVE  /\ MutexHeld' /\ EndOfWire' /\ PartsTogether' /\ SizesAllowed'
         /\ Uncut' <=> Uncut
         /\ Greeted' <=> Greeted
         /\ Intact' = Intact /\ ReplyAt' = ReplyAt
<1>1. UNCHANGED <<next, wire, refused>>
  BY DEF socket
<1>2. MutexHeld'
  BY <1>1 DEF IInv, MutexHeld
<1>3. Uncut' <=> Uncut
  BY <1>1 DEF Uncut
<1>4. EndOfWire'
  <2>1. \A w \in Writers : next[w] = "body" => writing'[w] = writing[w]
    OBVIOUS
  <2> QED BY <1>1, <1>3, <2>1 DEF IInv, EndOfWire
<1>5. Intact' = Intact
  BY <1>1 DEF Intact
<1>6. PartsTogether' /\ SizesAllowed'
  BY <1>1, <1>5 DEF IInv, PartsTogether, SizesAllowed
<1>7. ReplyAt' = ReplyAt /\ (Greeted' <=> Greeted)
  BY <1>1, <1>5 DEF ReplyAt, Greeted
<1> QED BY <1>2, <1>3, <1>4, <1>5, <1>6, <1>7

LEMMA AnswerableFinite ==
  ASSUME Typed
  PROVE  /\ DOMAIN asked = 1..Len(asked) /\ Len(asked) \in Nat
         /\ Answerable \subseteq 1..Len(asked)
         /\ \A S \in SUBSET Answerable : IsFiniteSet(S) /\ Cardinality(S) \in Nat
<1>1. DOMAIN asked = 1..Len(asked) /\ Len(asked) \in Nat
  BY DEF Typed
<1>2. Answerable \subseteq 1..Len(asked)
  BY <1>1 DEF Answerable
<1>3. ASSUME NEW S \in SUBSET Answerable PROVE IsFiniteSet(S) /\ Cardinality(S) \in Nat
  <2>1. S \in SUBSET (1..Len(asked)) /\ IsFiniteSet(1..Len(asked))
    BY <1>1, <1>2, FS_Interval
  <2> QED BY <2>1, FS_Subset, FS_CardinalityType
<1> QED BY <1>1, <1>2, <1>3

\* A record that is read changes nothing in the ones before.
LEMMA Heard ==
  ASSUME Typed, NEW r \in Records, Hears(r)
  PROVE  /\ asked' \in Seq(Records) /\ Len(asked') = Len(asked) + 1
         /\ asked' # <<>> /\ Current' = r
         /\ \A k \in 1..Len(asked) : asked'[k] = asked[k]
         /\ Answerable' = IF r = "buffer" THEN Answerable ELSE Answerable \cup {Len(asked) + 1}
<1>1. asked' = Append(asked, r) /\ asked \in Seq(Records)
  BY DEF Hears, Typed
<1>2. /\ asked' \in Seq(Records) /\ Len(asked') = Len(asked) + 1 /\ asked' # <<>>
      /\ \A k \in 1..Len(asked) : asked'[k] = asked[k]
      /\ asked'[Len(asked) + 1] = r
      /\ DOMAIN asked' = 1..Len(asked) + 1 /\ Len(asked) \in Nat
      /\ DOMAIN asked = 1..Len(asked)
  BY <1>1
<1>3. Current' = r
  BY <1>2 DEF Current
<1>4. \A k : k \in Answerable' <=>
             k \in IF r = "buffer" THEN Answerable ELSE Answerable \cup {Len(asked) + 1}
  <2>1. \A k : k \in DOMAIN asked' <=> k \in 1..Len(asked) \/ k = Len(asked) + 1
    BY <1>2
  <2>2. Len(asked) + 1 \notin DOMAIN asked
    BY <1>2
  <2> QED BY <1>2, <2>1, <2>2 DEF Answerable
<1> QED BY <1>2, <1>3, <1>4

\* What is on the wire keeps its answers, whatever else is asked.
LEMMA RepliesKept ==
  ASSUME Typed, RepliesInOrder, UNCHANGED wire,
         UNCHANGED asked \/ \E r \in Records : Hears(r)
  PROVE  RepliesInOrder'
<1>1. Intact' = Intact /\ ReplyAt' = ReplyAt
  BY DEF Intact, ReplyAt
<1>2. /\ DOMAIN asked = 1..Len(asked) /\ Len(asked) \in Nat
      /\ Answerable \subseteq 1..Len(asked)
  BY AnswerableFinite
<1>3. /\ Answerable \subseteq Answerable'
      /\ \A k \in Answerable' : k \in Answerable \/ k = Len(asked) + 1
      /\ \A k \in Answerable : asked'[k] = asked[k]
  BY <1>2, Heard DEF Answerable
<1>4. ASSUME NEW i \in ReplyAt, NEW j \in Answerable, Answered(i, j)
      PROVE  Answered(i, j)'
  <2>1. \A k \in Answerable' : k < j <=> k \in Answerable /\ k < j
    BY <1>2, <1>3
  <2>2. {k \in Answerable' : k < j} = {k \in Answerable : k < j}
    BY <1>3, <2>1
  <2>3. {k \in Answerable' : k < j /\ asked'[k] \in LobbyKinds}
          = {k \in Answerable : k < j /\ asked[k] \in LobbyKinds}
    BY <1>3, <2>1
  <2>4. asked'[j] = asked[j]
    BY <1>3
  <2> QED BY <1>1, <1>4, <2>2, <2>3, <2>4 DEF Answered
<1>5. \A i \in ReplyAt' : \E j \in Answerable' : Answered(i, j)'
  BY <1>1, <1>3, <1>4 DEF RepliesInOrder
<1>6. \A i \in Intact' :
        wire'[i].part = "prefix" /\ wire'[i].frame.kind = "push" =>
          \E c \in ReplyAt' : c < i /\ wire'[c].frame.kind = "connection"
  BY <1>1 DEF RepliesInOrder
<1> QED BY <1>5, <1>6 DEF RepliesInOrder

\* A record that the handler goes on to answer.
LEMMA HearingKeeps ==
  ASSUME IInv, NEW r \in Records \ {"buffer"}, Hears(r), UNCHANGED <<transaction, socket, open>>,
         place \in {"login", "reading"}, place' \in Busy \cup {"over"},
         place' \in Busy => (place' \in {"replying", "pushing"} <=> r \in LobbyKinds),
         \A s \in Senders : writing'[s] = writing[s],
         Typed', InAnswer', GreetedFirst'
  PROVE  IInv'
<1>1. writing[Handler] = None /\ next[Handler] = "outside" /\ Handler \in Writers
  BY DEF IInv, InAnswer, MutexHeld, Idle, Busy, Writers
<1>2. \A w \in Writers : next[w] # "outside" => writing'[w] = writing[w]
  BY <1>1 DEF Writers
<1>3. /\ MutexHeld' /\ EndOfWire' /\ PartsTogether' /\ SizesAllowed'
      /\ Uncut' <=> Uncut
      /\ ReplyAt' = ReplyAt
  <2>1. UNCHANGED socket
    OBVIOUS
  <2> QED BY <1>2, <2>1, SocketKept
<1>4. RepliesInOrder'
  BY RepliesKept DEF IInv, socket
<1>5. /\ Len(asked) \in Nat /\ Answerable \subseteq 1..Len(asked)
  BY AnswerableFinite DEF IInv
<1>6. /\ Len(asked') = Len(asked) + 1 /\ Current' = r
      /\ Answerable' = Answerable \cup {Len(asked) + 1}
      /\ \A k \in Answerable : asked'[k] = asked[k]
  BY <1>5, Heard DEF IInv
<1>7. ~Unanswered /\ ~Uncounted
  BY DEF Unanswered, Uncounted, Busy
<1>8. OneForOne'
  <2> SUFFICES ASSUME place' \in Busy PROVE OneForOne'
    BY DEF OneForOne
  <2>1. Unanswered' /\ place # "over"
    BY <1>1 DEF Unanswered, socket
  <2>2. \A k : k \in Answerable' /\ k < Len(asked') <=> k \in Answerable
    <3>1. \A k \in Answerable : k < Len(asked) + 1
      BY <1>5
    <3>2. ~ (Len(asked) + 1 < Len(asked) + 1)
      BY <1>5
    <3> QED BY <1>6, <3>1, <3>2
  <2>3. {k \in Answerable' : Unanswered' => k < Len(asked')} = Answerable
    BY <2>1, <2>2
  <2>4. {k \in Answerable : Unanswered => k < Len(asked)} = Answerable
    BY <1>7
  <2>5. {k \in Answerable' : /\ asked'[k] \in LobbyKinds
                             /\ Uncounted' => k < Len(asked')}
          = {k \in Answerable : /\ asked[k] \in LobbyKinds
                                /\ Uncounted => k < Len(asked)}
    <3>1. CASE r \in LobbyKinds
      <4>1. Uncounted'
        BY <3>1 DEF Uncounted
      <4> QED BY <1>6, <1>7, <2>2, <4>1
    <3>2. CASE r \notin LobbyKinds
      <4>1. ~Uncounted'
        BY <3>2 DEF Uncounted
      <4>2. asked'[Len(asked) + 1] = r
        BY <1>6 DEF Current
      <4> QED BY <1>6, <1>7, <3>2, <4>1, <4>2
    <3> QED BY <3>1, <3>2
  <2> QED BY <1>3, <2>1, <2>3, <2>4, <2>5 DEF IInv, OneForOne
<1> QED BY <1>3, <1>4, <1>8 DEF IInv

LEMMA FramesTyped ==
  /\ Frame("connection", 0, ConnectionIDSize) \in Frames
  /\ Frame("keepalive", 0, 0) \in Frames
  /\ \A kind \in LobbyKinds, number \in Nat : \A size \in ReplySizes[kind] :
       Frame(kind, number, size) \in Frames
  /\ \A size \in PushSizes : Frame("push", 0, size) \in Frames
<1> USE DEF Frame, Frames
<1>1. Frame("connection", 0, ConnectionIDSize) \in Frames
  BY OthersAllowed
<1>2. Frame("keepalive", 0, 0) \in Frames
  BY DEF Marker
<1>3. \A kind \in LobbyKinds, number \in Nat : \A size \in ReplySizes[kind] :
        Frame(kind, number, size) \in Frames
  BY RepliesAllowed
<1>4. \A size \in PushSizes : Frame("push", 0, size) \in Frames
  BY PushesAllowed
<1> QED BY <1>1, <1>2, <1>3, <1>4

\* What the handler has in its hands when it begins to answer the record r.
LEMMA BeginsToAnswer ==
  ASSUME IInv, NEW r \in Records \ {"buffer"}, Hears(r), NEW f \in Frames, Writes(Handler, f),
         UNCHANGED <<transaction, socket, open>>, active' \in BOOLEAN,
         \/ /\ place = "login" /\ place' = "greeting"
            /\ r = "login" /\ f.kind = "connection"
         \/ /\ place = "login" /\ place' = "answering"
            /\ r = "keepalive" /\ f.kind = "keepalive"
         \/ /\ place = "reading" /\ place' = "echoing"
            /\ r = "keepalive" /\ f.kind = "keepalive"
         \/ /\ place = "reading" /\ place' = "replying"
            /\ r \in LobbyKinds /\ f.kind = r /\ f.number = transaction
         \/ /\ place = "reading" /\ place' = "pushing"
            /\ r = "message" /\ f.kind = "push",
         place = "login" => active' = active
  PROVE  IInv'
<1>1. /\ asked' \in Seq(Records) /\ asked' # <<>> /\ Current' = r
  BY Heard DEF IInv
<1>2. /\ writing \in [Writers -> Frames \cup {None}] /\ Handler \in Writers
      /\ writing' = [writing EXCEPT ![Handler] = f] /\ Handler \notin Senders
      /\ Senders \subseteq Writers
  BY StreamAssumption DEF IInv, Typed, Writes, Writers, Handler
<1>3. writing'[Handler] = f /\ f # None /\ \A s \in Senders : writing'[s] = writing[s]
  BY <1>2, NoneIsNoFrame
<1>4. Typed'
  BY <1>1, <1>2 DEF IInv, Typed, socket, Busy
<1>5. /\ r = "login" => AnswerKind(r) = "connection" 
      /\ r # "login" => AnswerKind(r) = r
      /\ r \in LobbyKinds => r \notin {"login", "keepalive"}
  BY LobbyKindsAre DEF AnswerKind
<1>6. InAnswer'
  <2>1. \A s \in Senders : writing'[s] # None => writing'[s].kind = "push"
    BY <1>3 DEF IInv, InAnswer
  <2> QED BY <1>1, <1>3, <1>5, <2>1 DEF InAnswer, Busy, Idle
<1>7. GreetedFirst'
  <2>1. next[Handler] = "outside"
    BY <1>2 DEF IInv, InAnswer, MutexHeld, Idle
  <2>2. (Uncut' <=> Uncut) /\ (Greeted' <=> Greeted) /\ next' = next
    <3>1. UNCHANGED <<next, wire, refused>>
      BY DEF socket
    <3> QED BY <3>1 DEF Uncut, Greeted, ReplyAt, Intact
  <2>3. CASE place = "login"
    BY <1>3, <2>1, <2>2, <2>3 DEF IInv, GreetedFirst
  <2>4. CASE place = "reading"
    BY <2>2, <2>4 DEF IInv, GreetedFirst
  <2> QED BY <2>3, <2>4
<1>8. /\ place \in {"login", "reading"} /\ place' \in Busy
      /\ place' \in {"replying", "pushing"} <=> r \in LobbyKinds
  BY <1>5, LobbyKindsAre DEF Busy
<1> QED BY <1>3, <1>4, <1>6, <1>7, <1>8, HearingKeeps

LEMMA HandlerReads ==
  ASSUME IInv, \/ Login \/ Keepalive \/ MessageSelf
               \/ \E kind \in Kinds : Request(kind)
  PROVE  IInv'
<1>1. /\ active \in BOOLEAN /\ transaction \in Nat
      /\ {"login", "keepalive"} \subseteq Records \ {"buffer"}
      /\ LobbyKinds \subseteq Records \ {"buffer"}
      /\ Registered \in BOOLEAN
  BY LobbyKindsAre DEF IInv, Typed, Records, Registered
<1>2. CASE Login
  <2>1. Frame("connection", 0, ConnectionIDSize).kind = "connection"
    BY DEF Frame
  <2> QED BY <1>1, <1>2, <2>1, FramesTyped, BeginsToAnswer DEF Login
<1>3. CASE Keepalive
  <2>1. Frame("keepalive", 0, 0).kind = "keepalive"
    BY DEF Frame
  <2> QED BY <1>1, <1>3, <2>1, FramesTyped, BeginsToAnswer DEF Keepalive
<1>4. CASE MessageSelf
  <2>1. PICK size \in PushSizes : Writes(Handler, Frame("push", 0, size))
    BY <1>4 DEF MessageSelf
  <2>2. Frame("push", 0, size).kind = "push" /\ "message" \in LobbyKinds
    BY LobbyKindsAre DEF Frame
  <2> QED BY <1>1, <1>4, <2>1, <2>2, FramesTyped, BeginsToAnswer DEF MessageSelf
<1>5. ASSUME NEW kind \in Kinds, Request(kind) PROVE IInv'
  <2>1. kind \in LobbyKinds
    BY StreamAssumption
  <2>2. /\ Hears(kind) /\ place = "reading" /\ active' = Registered
        /\ UNCHANGED <<transaction, socket, open>>
    BY <1>5 DEF Request
  <2>3. CASE place' = "replying" /\ Answers(kind)
    <3>1. PICK size \in ReplySizes[kind] : Writes(Handler, Frame(kind, transaction, size))
      BY <2>3 DEF Answers
    <3>2. /\ Frame(kind, transaction, size).kind = kind
          /\ Frame(kind, transaction, size).number = transaction
      BY DEF Frame
    <3> QED BY <1>1, <2>1, <2>2, <2>3, <3>1, <3>2, FramesTyped, BeginsToAnswer
  <2>4. CASE place' = "over" /\ UNCHANGED writing
    <3>1. Typed'
      BY <1>1, <2>1, <2>2, <2>4, Heard DEF IInv, Typed, socket, Idle
    <3>2. InAnswer'
      BY <2>2, <2>4 DEF IInv, InAnswer, Busy, Idle
    <3>3. GreetedFirst'
      BY <2>2, <2>4 DEF IInv, GreetedFirst, Uncut, Greeted, ReplyAt, Intact, socket
    <3>4. /\ place' \in Busy \cup {"over"}
          /\ place' \in Busy => (place' \in {"replying", "pushing"} <=> kind \in LobbyKinds)
          /\ place \in {"login", "reading"} /\ \A s \in Senders : writing'[s] = writing[s]
      BY <2>2, <2>4 DEF Busy
    <3>5. kind \in Records \ {"buffer"}
      BY <1>1, <2>1
    <3> QED BY <2>2, <3>1, <3>2, <3>3, <3>4, <3>5, HearingKeeps
  <2> QED BY <1>5, <2>3, <2>4 DEF Request
<1> QED BY <1>2, <1>3, <1>4, <1>5

-----------------------------------------------------------------------------
(* Steps that leave the socket alone                                       *)

LEMMA InitIInv == Init => IInv
<1> SUFFICES ASSUME Init PROVE IInv
  OBVIOUS
<1>1. /\ asked = <<>> /\ wire = <<>> /\ place = "login" /\ transaction = 0
      /\ \A w \in Writers : writing[w] = None /\ next[w] = "outside"
      /\ active = FALSE /\ refused = FALSE
      /\ Handler \in Writers /\ Senders \subseteq Writers
  BY DEF Init, Writers
<1>2. Typed
  <2>1. writing \in [Writers -> Frames \cup {None}]
    BY DEF Init
  <2>2. next \in [Writers -> {"outside", "prefix", "body", "end"}]
    BY DEF Init
  <2>3. asked \in Seq(Records) /\ wire \in Seq(Parts)
    BY <1>1
  <2> QED BY <2>1, <2>2, <2>3 DEF Init, Typed, Idle
<1>3. /\ DOMAIN asked = {} /\ DOMAIN wire = {}
  BY <1>1
<1>4. Intact = {} /\ Answerable = {}
  BY <1>3 DEF Intact, Answerable
<1>5. ReplyAt = {}
  BY <1>4 DEF ReplyAt
<1>6. OneForOne
  <2>1. {k \in Answerable : Unanswered => k < Len(asked)} = {}
    BY <1>4
  <2>2. {k \in Answerable : asked[k] \in LobbyKinds /\ (Uncounted => k < Len(asked))} = {}
    BY <1>4
  <2>3. Cardinality({}) = 0
    BY FS_EmptySet
  <2> QED BY <1>1, <1>5, <2>1, <2>2, <2>3 DEF OneForOne
<1>7. MutexHeld /\ EndOfWire
  BY <1>1 DEF MutexHeld, EndOfWire
<1>8. InAnswer
  BY <1>1 DEF InAnswer, Busy, Idle
<1>9. GreetedFirst
  BY <1>1 DEF GreetedFirst
<1>10. PartsTogether /\ SizesAllowed /\ RepliesInOrder
  BY <1>1, <1>4, <1>5 DEF PartsTogether, SizesAllowed, RepliesInOrder
<1> QED BY <1>2, <1>6, <1>7, <1>8, <1>9, <1>10 DEF IInv

\* A buffer-available record is read and forgotten.
LEMMA BufferKeeps ==
  ASSUME IInv, BufferAvailable
  PROVE  IInv'
<1>1. /\ Hears("buffer") /\ place \in {"login", "reading"} /\ "buffer" \in Records
      /\ UNCHANGED <<place, transaction, active, writing, open>> /\ UNCHANGED socket
  BY DEF BufferAvailable, Records
<1>2. /\ asked' \in Seq(Records) /\ Answerable' = Answerable
      /\ \A k \in 1..Len(asked) : asked'[k] = asked[k]
  BY <1>1, Heard DEF IInv
<1>3. /\ MutexHeld' /\ EndOfWire' /\ PartsTogether' /\ SizesAllowed'
      /\ Uncut' <=> Uncut
      /\ Greeted' <=> Greeted
      /\ Intact' = Intact /\ ReplyAt' = ReplyAt
  <2>1. \A w \in Writers : next[w] # "outside" => writing'[w] = writing[w]
    BY <1>1
  <2> QED BY <1>1, <2>1, SocketKept
<1>4. UNCHANGED <<next, wire, refused>>
  BY <1>1 DEF socket
<1>5. Typed'
  BY <1>1, <1>2, <1>4 DEF IInv, Typed
<1>6. InAnswer'
  BY <1>1 DEF IInv, InAnswer, Busy, Idle
<1>7. GreetedFirst'
  BY <1>1, <1>3, <1>4 DEF IInv, GreetedFirst
<1>8. RepliesInOrder'
  BY <1>1, <1>4, RepliesKept DEF IInv
<1>9. OneForOne'
  <2>1. ~Unanswered /\ ~Unanswered' /\ ~Uncounted /\ ~Uncounted'
    BY <1>1 DEF Unanswered, Uncounted, Busy
  <2>2. \A k \in Answerable : asked'[k] = asked[k]
    BY <1>2, AnswerableFinite DEF IInv
  <2>3. {k \in Answerable' : Unanswered' => k < Len(asked')}
          = {k \in Answerable : Unanswered => k < Len(asked)}
    BY <1>2, <2>1
  <2>4. {k \in Answerable' : asked'[k] \in LobbyKinds /\ (Uncounted' => k < Len(asked'))}
          = {k \in Answerable : asked[k] \in LobbyKinds /\ (Uncounted => k < Len(asked))}
    BY <1>2, <2>1, <2>2
  <2> QED BY <1>1, <1>3, <2>3, <2>4 DEF IInv, OneForOne
<1> QED BY <1>3, <1>5, <1>6, <1>7, <1>8, <1>9 DEF IInv

\* Whoever leaves, is displaced or evicted writes nothing for it.
LEMMA QuietKeeps ==
  ASSUME IInv, UNCHANGED <<asked, transaction, writing>>, UNCHANGED socket,
         place' = place \/ (place \in {"login", "reading"} /\ place' = "over"),
         open' \in BOOLEAN, open' => open, active' \in BOOLEAN, active' => active
  PROVE  IInv'
<1>1. /\ MutexHeld' /\ EndOfWire' /\ PartsTogether' /\ SizesAllowed'
      /\ Uncut' <=> Uncut
      /\ Greeted' <=> Greeted
      /\ Intact' = Intact /\ ReplyAt' = ReplyAt
  BY SocketKept
<1>2. UNCHANGED <<next, wire, refused>>
  BY DEF socket
<1>3. Typed'
  BY <1>2 DEF IInv, Typed, Idle
<1>4. InAnswer'
  BY DEF IInv, InAnswer, Busy, Idle, Current
<1>5. GreetedFirst'
  BY <1>1, <1>2 DEF IInv, GreetedFirst
<1>6. RepliesInOrder'
  BY <1>2, RepliesKept DEF IInv
<1>7. OneForOne'
  <2> SUFFICES ASSUME place' # "over" PROVE OneForOne'
    BY DEF OneForOne
  <2>1. place' = place /\ Answerable' = Answerable
    BY DEF Answerable
  <2>2. (Unanswered' <=> Unanswered) /\ (Uncounted' <=> Uncounted)
    BY <1>2, <2>1 DEF Unanswered, Uncounted
  <2>3. {k \in Answerable' : Unanswered' => k < Len(asked')}
          = {k \in Answerable : Unanswered => k < Len(asked)}
    BY <2>1, <2>2
  <2>4. {k \in Answerable' : asked'[k] \in LobbyKinds /\ (Uncounted' => k < Len(asked'))}
          = {k \in Answerable : asked[k] \in LobbyKinds /\ (Uncounted => k < Len(asked))}
    BY <2>1, <2>2
  <2> QED BY <1>1, <2>1, <2>3, <2>4 DEF IInv, OneForOne
<1> QED BY <1>1, <1>3, <1>4, <1>5, <1>6, <1>7 DEF IInv

\* The message of another player, to a client in the registry.
LEMMA PushKeeps ==
  ASSUME IInv, NEW s \in Senders, PushFrom(s)
  PROVE  IInv'
<1>1. /\ active /\ writing[s] = None /\ UNCHANGED <<asked, place, transaction, active, open>>
      /\ UNCHANGED socket
  BY DEF PushFrom, handler
<1>2. PICK size \in PushSizes : Writes(s, Frame("push", 0, size))
  BY DEF PushFrom
<1>3. Frame("push", 0, size) \in Frames /\ Frame("push", 0, size).kind = "push"
  BY FramesTyped DEF Frame
<1> DEFINE f == Frame("push", 0, size)
<1> HIDE DEF f
<1>4. f \in Frames /\ f.kind = "push" /\ writing' = [writing EXCEPT ![s] = f]
  BY <1>2, <1>3 DEF f, Writes
<1>5. /\ s \in Writers /\ Handler \in Writers /\ s # Handler
      /\ writing \in [Writers -> Frames \cup {None}]
  BY StreamAssumption DEF Writers, Handler, IInv, Typed
<1>6. /\ writing'[Handler] = writing[Handler]
      /\ \A v \in Writers : writing'[v] = IF v = s THEN f ELSE writing[v]
      /\ next[s] = "outside"
  BY <1>1, <1>4, <1>5 DEF IInv, MutexHeld
<1>7. /\ MutexHeld' /\ EndOfWire' /\ PartsTogether' /\ SizesAllowed'
      /\ Uncut' <=> Uncut
      /\ Greeted' <=> Greeted
      /\ Intact' = Intact /\ ReplyAt' = ReplyAt
  <2>1. \A w \in Writers : next[w] # "outside" => writing'[w] = writing[w]
    BY <1>6
  <2> QED BY <1>1, <2>1, SocketKept
<1>8. UNCHANGED <<next, wire, refused>>
  BY <1>1 DEF socket
<1>9. Typed'
  BY <1>1, <1>4, <1>5, <1>8 DEF IInv, Typed
<1>10. InAnswer'
  <2>1. Senders \subseteq Writers
    BY DEF Writers
  <2>2. \A v \in Senders : writing'[v] # None => writing'[v].kind = "push"
    BY <1>4, <1>6, <2>1 DEF IInv, InAnswer
  <2> QED BY <1>1, <1>6, <2>2 DEF IInv, InAnswer, Current
<1>11. GreetedFirst'
  BY <1>1, <1>7 DEF IInv, GreetedFirst
<1>12. RepliesInOrder'
  BY <1>1, <1>8, RepliesKept DEF IInv
<1>13. OneForOne'
  BY <1>1, <1>7, <1>8 DEF IInv, OneForOne, Unanswered, Uncounted, Answerable
<1> QED BY <1>7, <1>9, <1>10, <1>11, <1>12, <1>13 DEF IInv

-----------------------------------------------------------------------------
(* writeFrame                                                              *)

\* Who is in writeFrame writes a frame that it may write.
LEMMA InWriteFrame ==
  ASSUME IInv, NEW w \in Writers, next[w] # "outside"
  PROVE  /\ writing[w] \in Frames /\ writing[w] # None /\ Allowed(writing[w])
         /\ \A v \in Writers : v # w => next[v] = "outside"
         /\ w = Handler => place \in Busy
         /\ w # Handler => w \in Senders /\ writing[w].kind = "push"
<1>1. writing[w] # None /\ \A v \in Writers : v # w => next[v] = "outside"
  BY DEF IInv, MutexHeld
<1>2. writing[w] \in Frames
  BY <1>1 DEF IInv, Typed
<1>3. Allowed(writing[w])
  BY <1>2 DEF Frames, Allowed
<1>4. w = Handler => place \in Busy
  BY <1>1 DEF IInv, InAnswer, Typed
<1>5. w # Handler => w \in Senders /\ writing[w].kind = "push"
  BY <1>1 DEF IInv, InAnswer, Writers
<1> QED BY <1>1, <1>2, <1>3, <1>4, <1>5

\* A frame of the handler's is the answer to the record it read last.
LEMMA HandlersFrame ==
  ASSUME IInv, next[Handler] # "outside"
  PROVE  /\ place \in Busy /\ asked # <<>> /\ Len(asked) \in Answerable
         /\ writing[Handler].kind = "push" <=> place = "pushing"
         /\ writing[Handler].kind \in LobbyKinds <=> place = "replying"
         /\ Current \in LobbyKinds <=> Uncounted
         /\ place # "pushing" => writing[Handler].kind = AnswerKind(Current)
         /\ place = "replying" => writing[Handler].number = transaction
         /\ place = "greeting" => writing[Handler].kind = "connection"
<1>1. Handler \in Writers
  BY DEF Writers
<1>2. place \in Busy
  BY <1>1, InWriteFrame
<1>3. asked # <<>> /\ Current # "buffer"
  BY <1>2 DEF IInv, InAnswer
<1>4. Len(asked) \in Answerable
  <2>1. asked \in Seq(Records)
    BY DEF IInv, Typed
  <2>2. Len(asked) \in DOMAIN asked
    BY <1>3, <2>1
  <2> QED BY <1>3, <2>2 DEF Answerable, Current
<1>5. /\ "login" \notin LobbyKinds /\ "keepalive" \notin LobbyKinds
      /\ "push" \notin LobbyKinds /\ "connection" \notin LobbyKinds
      /\ "message" \in LobbyKinds
  BY LobbyKindsAre
<1>6. /\ place = "greeting" => Current = "login"
      /\ place \in {"answering", "echoing"} => Current = "keepalive"
      /\ place = "replying" => Current \in LobbyKinds
      /\ place = "pushing" => Current = "message" /\ writing[Handler].kind = "push"
      /\ place # "pushing" => writing[Handler].kind = AnswerKind(Current)
      /\ place = "replying" => writing[Handler].number = transaction
  BY <1>2 DEF IInv, InAnswer
<1> QED BY <1>2, <1>3, <1>4, <1>5, <1>6 DEF AnswerKind, Uncounted, Busy

\* What is added behind the end of the wire changes no answer before.
LEMMA AnswersStand ==
  ASSUME IInv, NEW n, n = Len(wire) + 1, UNCHANGED asked,
         \A i \in 1..Len(wire) : wire'[i] = wire[i],
         ReplyAt' \subseteq ReplyAt \cup {n}, ReplyAt \subseteq ReplyAt',
         NEW i \in ReplyAt
  PROVE  \E j \in Answerable' : Answered(i, j)'
<1>1. PICK j \in Answerable : Answered(i, j)
  BY DEF IInv, RepliesInOrder
<1>2. Len(wire) \in Nat /\ ReplyAt \subseteq 1..Len(wire)
  BY IntactOnWire DEF IInv, ReplyAt
<1>3. wire'[i] = wire[i]
  BY <1>2
<1>4. ~ (n < i)
  BY <1>2
<1>5. {k \in ReplyAt' : k < i} = {k \in ReplyAt : k < i}
  BY <1>4
<1>6. Answerable' = Answerable
  BY DEF Answerable
<1>7. Answered(i, j)'
  BY <1>1, <1>3, <1>5, <1>6 DEF Answered
<1> QED BY <1>6, <1>7

\* The prefix of a frame of the handler's is the answer to the record it read
\* last; no other part answers anything.
LEMMA RepliesAppended ==
  ASSUME IInv, NEW w \in Writers, next[w] \in {"prefix", "body"},
         NEW p \in {"prefix", "body", "cut"},
         p = "prefix" => next[w] = "prefix" /\ open,
         Sent(w, p), UNCHANGED asked
  PROVE  /\ RepliesInOrder'
         /\ Uncut' <=> Uncut /\ p # "cut"
         /\ ReplyAt' = IF Uncut' /\ p = "prefix" /\ writing[w].kind # "push"
                       THEN ReplyAt \cup {Len(wire) + 1} ELSE ReplyAt
         /\ Greeted => Greeted'
         /\ Uncut' /\ p = "prefix" /\ writing[w].kind = "connection" => Greeted'
<1>0. PICK n : n = Len(wire) + 1
  OBVIOUS
<1> DEFINE f == writing[w]
           New == Uncut' /\ p = "prefix" /\ f.kind # "push"
<1>1. /\ f \in Frames /\ \A v \in Writers : v # w => next[v] = "outside"
      /\ w = Handler => place \in Busy
      /\ w # Handler => w \in Senders /\ f.kind = "push"
  BY InWriteFrame
<1>2. /\ Len(wire') = n /\ wire'[n] = [frame |-> f, part |-> p]
      /\ \A i \in 1..Len(wire) : wire'[i] = wire[i]
      /\ Uncut' <=> Uncut /\ p # "cut"
      /\ Intact' = IF Uncut' THEN Intact \cup {n} ELSE Intact
  <2>1. wire' = Append(wire, [frame |-> f, part |-> p])
    BY DEF Sent
  <2> QED BY <1>1, <1>0, <2>1, Appended DEF IInv
<1>3. /\ Len(wire) \in Nat /\ Intact \subseteq 1..Len(wire) /\ ReplyAt \subseteq Intact
      /\ \A i \in Intact : i < n
  BY <1>0, IntactOnWire DEF IInv, ReplyAt
<1> HIDE DEF f
<1>4. ReplyAt' = IF New THEN ReplyAt \cup {n} ELSE ReplyAt
  <2>1. \A i : i \in ReplyAt' <=> i \in ReplyAt \/ (New /\ i = n)
    <3>1. \A i \in Intact : wire'[i] = wire[i] /\ i # n
      BY <1>2, <1>3
    <3>2. wire'[n].part = p /\ wire'[n].frame = f
      BY <1>2
    <3> QED BY <1>2, <3>1, <3>2 DEF ReplyAt
  <2> QED BY <2>1
<1>5. ASSUME NEW i \in ReplyAt PROVE \E j \in Answerable' : Answered(i, j)'
  BY <1>2, <1>4, <1>0, AnswersStand
<1>6. ASSUME New PROVE \E j \in Answerable' : Answered(n, j)'
  <2>1. w = Handler /\ next[Handler] = "prefix" /\ open /\ Uncut
    BY <1>1, <1>2, <1>6
  <2>2. /\ place \in Busy /\ place # "pushing" /\ Len(asked) \in Answerable
        /\ f.kind = AnswerKind(Current)
        /\ f.kind \in LobbyKinds => f.number = transaction /\ Uncounted
    BY <1>6, <2>1, HandlersFrame DEF f, Uncounted
  <2>3. Unanswered /\ place # "over"
    BY <2>1, <2>2 DEF Unanswered, Busy
  <2>4. {k \in ReplyAt' : k < n} = ReplyAt
    <3>1. ~ (n < n)
      BY <1>3, <1>0
    <3> QED BY <1>3, <1>4, <1>6, <3>1
  <2>5. Cardinality(ReplyAt) = Cardinality({k \in Answerable : k < Len(asked)})
    BY <2>1, <2>3 DEF IInv, OneForOne
  <2>6. f.kind \in LobbyKinds =>
          f.number = Cardinality({k \in Answerable : k < Len(asked) /\ asked[k] \in LobbyKinds})
    <3> SUFFICES ASSUME f.kind \in LobbyKinds
                 PROVE  f.number = Cardinality({k \in Answerable : k < Len(asked) /\ asked[k] \in LobbyKinds})
      OBVIOUS
    <3>1. {k \in Answerable : asked[k] \in LobbyKinds /\ (Uncounted => k < Len(asked))}
            = {k \in Answerable : k < Len(asked) /\ asked[k] \in LobbyKinds}
      BY <2>2
    <3> QED BY <2>2, <2>3, <3>1 DEF IInv, OneForOne
  <2>7. PICK j : j = Len(asked)
    OBVIOUS
  <2>8. Answerable' = Answerable /\ asked'[j] = Current
    BY <2>7 DEF Answerable, Current
  <2>9. Answered(n, j)'
    BY <1>2, <2>2, <2>4, <2>5, <2>6, <2>7, <2>8 DEF Answered
  <2> QED BY <2>2, <2>7, <2>8, <2>9
<1>7. Greeted => Greeted'
  <2>1. \A c \in ReplyAt : c \in ReplyAt' /\ wire'[c] = wire[c]
    BY <1>2, <1>3, <1>4
  <2> QED BY <2>1 DEF Greeted
<1>8. ASSUME Uncut', p = "prefix", f.kind = "push" PROVE Greeted
  <2>1. Uncut /\ f # None
    BY <1>1, <1>2, <1>8, NoneIsNoFrame
  <2>2. CASE w = Handler
    <3>1. place = "pushing"
      BY <1>8, <2>2, HandlersFrame DEF f
    <3> QED BY <2>1, <3>1 DEF IInv, GreetedFirst
  <2>3. CASE w # Handler
    BY <1>1, <2>1, <2>3 DEF IInv, GreetedFirst, f
  <2> QED BY <2>2, <2>3
<1>9. ASSUME NEW i \in Intact', wire'[i].part = "prefix", wire'[i].frame.kind = "push"
      PROVE  \E c \in ReplyAt' : c < i /\ wire'[c].frame.kind = "connection"
  <2>1. \A c \in ReplyAt : c \in ReplyAt' /\ wire'[c] = wire[c] /\ c < n
    BY <1>2, <1>3, <1>4
  <2>2. CASE i \in Intact
    <3>1. wire'[i] = wire[i]
      BY <1>2, <1>3, <2>2
    <3>2. \E c \in ReplyAt : c < i /\ wire[c].frame.kind = "connection"
      BY <1>9, <2>2, <3>1 DEF IInv, RepliesInOrder
    <3> QED BY <2>1, <3>2
  <2>3. CASE i \notin Intact
    <3>1. i = n /\ Uncut' /\ p = "prefix" /\ f.kind = "push"
      BY <1>2, <1>9, <2>3
    <3>2. Greeted
      BY <1>8, <3>1
    <3> QED BY <2>1, <3>1, <3>2 DEF Greeted
  <2> QED BY <2>2, <2>3
<1>10. RepliesInOrder'
  <2>1. \A i \in ReplyAt' : \E j \in Answerable' : Answered(i, j)'
    BY <1>4, <1>5, <1>6
  <2> QED BY <1>9, <2>1 DEF RepliesInOrder
<1>11. Uncut' /\ p = "prefix" /\ f.kind = "connection" => Greeted'
  BY <1>2, <1>4 DEF Greeted
<1> QED BY <1>2, <1>4, <1>7, <1>10, <1>11, <1>0 DEF f

LEMMA AcquireKeeps ==
  ASSUME IInv, NEW w \in Writers, Acquire(w)
  PROVE  IInv'
<1>1. /\ writing[w] # None /\ \A v \in Writers : next[v] = "outside"
      /\ next' = [next EXCEPT ![w] = "prefix"]
      /\ UNCHANGED <<asked, place, transaction, active, writing, wire, refused, open>>
  BY DEF Acquire, MutexFree, handler
<1>2. \A v \in Writers : next'[v] = IF v = w THEN "prefix" ELSE "outside"
  BY <1>1 DEF IInv, Typed
<1>3. Typed'
  BY <1>1 DEF IInv, Typed
<1>4. MutexHeld'
  BY <1>1, <1>2 DEF MutexHeld
<1>5. /\ Uncut' <=> Uncut
      /\ Intact' = Intact /\ ReplyAt' = ReplyAt
      /\ Greeted' <=> Greeted
  BY <1>1 DEF Uncut, Intact, ReplyAt, Greeted
<1>6. EndOfWire'
  BY <1>1, <1>2, <1>5 DEF IInv, EndOfWire
<1>7. InAnswer'
  BY <1>1 DEF IInv, InAnswer, Current
<1>8. Handler \in Writers
  BY DEF Writers
<1>9. OneForOne'
  <2>1. (Unanswered' <=> Unanswered) /\ (Uncounted' <=> Uncounted) /\ Answerable' = Answerable
    BY <1>1, <1>2, <1>8 DEF Unanswered, Uncounted, Answerable
  <2>2. {k \in Answerable' : Unanswered' => k < Len(asked')}
          = {k \in Answerable : Unanswered => k < Len(asked)}
    BY <1>1, <2>1
  <2>3. {k \in Answerable' : asked'[k] \in LobbyKinds /\ (Uncounted' => k < Len(asked'))}
          = {k \in Answerable : asked[k] \in LobbyKinds /\ (Uncounted => k < Len(asked))}
    BY <1>1, <2>1
  <2> QED BY <1>1, <1>5, <2>2, <2>3 DEF IInv, OneForOne
<1>10. GreetedFirst'
  BY <1>1, <1>2, <1>5, <1>8 DEF IInv, GreetedFirst
<1>11. PartsTogether' /\ SizesAllowed'
  BY <1>1, <1>5 DEF IInv, PartsTogether, SizesAllowed
<1>12. RepliesInOrder'
  BY <1>1, RepliesKept DEF IInv
<1> QED BY <1>3, <1>4, <1>6, <1>7, <1>9, <1>10, <1>11, <1>12 DEF IInv

\* A part is written, and the next one is up.
LEMMA WriteKeeps ==
  ASSUME IInv, NEW w \in Writers, NEW p \in {"prefix", "body"}, next[w] = p, open, Sent(w, p),
         next' = [next EXCEPT ![w] = IF p = "prefix" /\ writing[w].size # 0 THEN "body" ELSE "end"],
         UNCHANGED <<asked, place, transaction, active, writing, open, refused>>
  PROVE  IInv'
<1> DEFINE f == writing[w]
<1>1. /\ f \in Frames /\ f # None /\ \A v \in Writers : v # w => next[v] = "outside"
      /\ w = Handler => place \in Busy
      /\ w # Handler => w \in Senders /\ f.kind = "push"
  BY InWriteFrame
<1>2. /\ Len(wire') = Len(wire) + 1 /\ wire' \in Seq(Parts)
      /\ wire'[Len(wire) + 1] = [frame |-> f, part |-> p]
      /\ Len(wire) \in Nat /\ wire' # <<>>
  <2>1. wire' = Append(wire, [frame |-> f, part |-> p])
    BY DEF Sent
  <2>2. /\ Len(wire') = Len(wire) + 1 /\ wire' \in Seq(Parts)
        /\ wire'[Len(wire) + 1] = [frame |-> f, part |-> p]
    BY <1>1, <2>1, Appended DEF IInv
  <2>3. wire \in Seq(Parts) /\ Len(wire) \in Nat
    BY DEF IInv, Typed
  <2>4. wire' # <<>>
    BY <2>2, <2>3
  <2> QED BY <2>2, <2>3, <2>4
<1>3. /\ RepliesInOrder'
      /\ Uncut' <=> Uncut
      /\ ReplyAt' = IF Uncut /\ p = "prefix" /\ f.kind # "push"
                    THEN ReplyAt \cup {Len(wire) + 1} ELSE ReplyAt
      /\ Greeted => Greeted'
      /\ Uncut /\ p = "prefix" /\ f.kind = "connection" => Greeted'
  BY RepliesAppended
<1> HIDE DEF f
<1>4. \A v \in Writers :
        next'[v] = IF v = w THEN IF p = "prefix" /\ f.size # 0 THEN "body" ELSE "end"
                   ELSE "outside"
  BY <1>1 DEF IInv, Typed, f
<1>5. Typed'
  BY <1>2 DEF IInv, Typed
<1>6. MutexHeld'
  BY <1>1, <1>4 DEF IInv, MutexHeld, f
<1>7. PartsTogether'
  BY <1>1, WholeAppended DEF IInv, f
<1>8. EndOfWire'
  <2>1. wire'[Len(wire')] = [frame |-> f, part |-> p]
    BY <1>2
  <2>2. wire'[Len(wire')].part = p /\ wire'[Len(wire')].frame = f
    BY <2>1
  <2>3. \A v \in Writers : next'[v] = "body" => v = w /\ p = "prefix" /\ writing'[v] = f
    BY <1>4 DEF f
  <2>4. (\A v \in Writers : next'[v] # "body") => p # "prefix" \/ f.size = 0
    BY <1>4
  <2> QED BY <1>2, <2>1, <2>2, <2>3, <2>4 DEF EndOfWire
<1>9. InAnswer'
  BY DEF IInv, InAnswer, Current
<1>10. SizesAllowed'
  BY DEF IInv, SizesAllowed
<1>11. GreetedFirst'
  <2> SUFFICES ASSUME Uncut', ~Greeted' PROVE GreetedFirst'
    BY DEF GreetedFirst
  <2>1. Uncut /\ ~Greeted
    BY <1>3
  <2>2. /\ place \in {"login", "answering", "greeting", "over"} /\ ~active
        /\ place = "greeting" => next[Handler] \in {"outside", "prefix"}
        /\ \A s \in Senders : writing[s] = None
    BY <2>1 DEF IInv, GreetedFirst
  <2>3. w = Handler
    BY <1>1, <2>2 DEF f
  <2>4. place # "greeting"
    <3> SUFFICES ASSUME place = "greeting" PROVE FALSE
      OBVIOUS
    <3>1. p = "prefix"
      BY <2>2, <2>3
    <3>2. f.kind = "connection"
      BY <2>3, HandlersFrame DEF f
    <3> QED BY <1>3, <2>1, <3>1, <3>2
  <2> QED BY <2>2, <2>4 DEF GreetedFirst
<1>12. OneForOne'
  <2>1. Answerable' = Answerable /\ (Uncounted' <=> Uncounted) /\ Len(asked') = Len(asked)
    BY DEF Answerable, Uncounted
  <2>2. {k \in Answerable' : asked'[k] \in LobbyKinds /\ (Uncounted' => k < Len(asked'))}
          = {k \in Answerable : asked[k] \in LobbyKinds /\ (Uncounted => k < Len(asked))}
    BY <2>1
  <2>3. ASSUME place # "over", Uncut
        PROVE  Cardinality(ReplyAt')
                 = Cardinality({k \in Answerable' : Unanswered' => k < Len(asked')})
    <3> DEFINE Before == {k \in Answerable : Unanswered => k < Len(asked)}
               After  == {k \in Answerable' : Unanswered' => k < Len(asked')}
    <3>1. Cardinality(ReplyAt) = Cardinality(Before)
      BY <2>3 DEF IInv, OneForOne
    <3>2. Handler \in Writers
      BY DEF Writers
    <3>3. CASE f.kind # "push" /\ p = "prefix"
      <4>1. w = Handler
        BY <1>1, <3>3
      <4>2. place \in Busy /\ place # "pushing" /\ Len(asked) \in Answerable
        BY <3>3, <4>1, HandlersFrame DEF f
      <4>3. Unanswered /\ ~Unanswered'
        <5>1. next'[Handler] \in {"body", "end"} /\ next[Handler] = "prefix"
          BY <1>4, <3>2, <3>3, <4>1
        <5> QED BY <4>2, <5>1 DEF Unanswered
      <4>4. /\ Answerable \subseteq 1..Len(asked) /\ Len(asked) \in Nat
            /\ \A S \in SUBSET Answerable : IsFiniteSet(S) /\ Cardinality(S) \in Nat
        BY AnswerableFinite DEF IInv
      <4>5. Before \cup {Len(asked)} = Answerable /\ Len(asked) \notin Before
        <5>1. \A k \in Answerable : k < Len(asked) \/ k = Len(asked)
          BY <4>4
        <5>2. ~ (Len(asked) < Len(asked))
          BY <4>4
        <5> QED BY <4>2, <4>3, <5>1, <5>2
      <4>6. After = Answerable
        BY <2>1, <4>3
      <4>7. Cardinality(After) = Cardinality(Before) + 1
        <5>1. IsFiniteSet(Before)
          BY <4>4
        <5> HIDE DEF Before, After
        <5> QED BY <4>5, <4>6, <5>1, FS_AddElement
      <4>8. Cardinality(ReplyAt') = Cardinality(ReplyAt) + 1
        <5>1. IsFiniteSet(ReplyAt) /\ ReplyAt \subseteq 1..Len(wire)
          BY IntactOnWire DEF IInv, ReplyAt
        <5>2. Len(wire) + 1 \notin ReplyAt
          BY <1>2, <5>1
        <5>3. ReplyAt' = ReplyAt \cup {Len(wire) + 1}
          BY <1>3, <2>3, <3>3
        <5> QED BY <5>1, <5>2, <5>3, FS_AddElement
      <4> QED BY <3>1, <4>7, <4>8
    <3>4. CASE f.kind = "push" \/ p = "body"
      <4>1. ReplyAt' = ReplyAt
        BY <1>3, <3>4
      <4>2. Unanswered' <=> Unanswered
        <5>1. CASE w = Handler
          <6>1. next[Handler] = p /\ next'[Handler] \in {"body", "end"}
            BY <1>4, <3>2, <5>1
          <6>2. f.kind = "push" => place = "pushing"
            BY <5>1, <6>1, HandlersFrame DEF f
          <6> QED BY <3>4, <6>1, <6>2 DEF Unanswered
        <5>2. CASE w # Handler
          <6>1. next'[Handler] = next[Handler]
            BY <1>1, <1>4, <3>2, <5>2
          <6> QED BY <6>1 DEF Unanswered
        <5> QED BY <5>1, <5>2
      <4>3. After = Before
        BY <2>1, <4>2
      <4> QED BY <3>1, <4>1, <4>3
    <3> QED BY <3>3, <3>4
  <2> QED BY <1>3, <2>2, <2>3 DEF IInv, OneForOne
<1> QED BY <1>3, <1>5, <1>6, <1>7, <1>8, <1>9, <1>10, <1>11, <1>12 DEF IInv

\* Whoever returns from writeFrame leaves whole frames on the wire, or a cut one.
LEMMA UnlockKeeps ==
  ASSUME IInv, NEW w \in Writers, Unlock(w), UNCHANGED <<asked, refused>>,
         \/ UNCHANGED wire /\ next[w] \in {"prefix", "end"}
         \/ Sent(w, "cut") /\ next[w] \in {"prefix", "body"},
         \A v \in Writers : v # w => writing'[v] = writing[v]
  PROVE  /\ next' \in [Writers -> {"outside", "prefix", "body", "end"}]
         /\ \A v \in Writers : next'[v] = "outside"
         /\ wire' \in Seq(Parts)
         /\ MutexHeld' /\ EndOfWire' /\ PartsTogether' /\ SizesAllowed' /\ RepliesInOrder'
         /\ ReplyAt' = ReplyAt
         /\ Uncut' => Uncut
         /\ Greeted => Greeted'
<1>1. writing[w] \in Frames /\ \A v \in Writers : v # w => next[v] = "outside"
  BY InWriteFrame
<1>2. /\ next' \in [Writers -> {"outside", "prefix", "body", "end"}]
      /\ \A v \in Writers : next'[v] = "outside"
  BY <1>1 DEF Unlock, IInv, Typed
<1>3. MutexHeld'
  BY <1>2 DEF MutexHeld
<1>4. SizesAllowed'
  BY DEF IInv, SizesAllowed
<1>5. CASE UNCHANGED wire /\ next[w] \in {"prefix", "end"}
  <2>1. /\ Uncut' <=> Uncut
        /\ Intact' = Intact /\ ReplyAt' = ReplyAt
        /\ Greeted' <=> Greeted
    BY <1>5 DEF Uncut, Intact, ReplyAt, Greeted
  <2>2. \A v \in Writers : next[v] # "body"
    BY <1>1, <1>5
  <2>3. EndOfWire'
    BY <1>2, <1>5, <2>1, <2>2 DEF IInv, EndOfWire
  <2>4. PartsTogether'
    BY <1>5, <2>1 DEF IInv, PartsTogether
  <2>5. RepliesInOrder' /\ wire' \in Seq(Parts)
    BY <1>5, RepliesKept DEF IInv, Typed
  <2> QED BY <1>2, <1>3, <1>4, <2>1, <2>3, <2>4, <2>5
<1>6. CASE Sent(w, "cut") /\ next[w] \in {"prefix", "body"}
  <2>1. /\ RepliesInOrder' /\ ~Uncut' /\ ReplyAt' = ReplyAt
        /\ Greeted => Greeted'
    BY <1>6, RepliesAppended
  <2>2. PartsTogether'
    BY <1>1, <1>6, WholeAppended DEF IInv
  <2>3. wire' \in Seq(Parts)
    <3>1. wire' = Append(wire, [frame |-> writing[w], part |-> "cut"])
      BY <1>6 DEF Sent
    <3> QED BY <1>1, <3>1, Appended DEF IInv
  <2>4. EndOfWire'
    BY <2>1 DEF EndOfWire
  <2> QED BY <1>2, <1>3, <1>4, <2>1, <2>2, <2>3, <2>4
<1> QED BY <1>5, <1>6

\* The next frame in the handler's hands.
LEMMA HandsOn ==
  ASSUME IInv, next[Handler] # "outside",
         \/ Writes(Handler, None)
         \/ place = "pushing" /\ Answers("message")
  PROVE  /\ writing' \in [Writers -> Frames \cup {None}]
         /\ \A v \in Writers : v # Handler => writing'[v] = writing[v]
         /\ \A s \in Senders : writing'[s] = writing[s]
         /\ Writes(Handler, None) => writing'[Handler] = None
         /\ Answers("message") =>
              /\ writing'[Handler] # None
              /\ writing'[Handler].kind = "message" /\ writing'[Handler].number = transaction
<1>1. /\ Handler \in Writers /\ Senders \subseteq Writers /\ Handler \notin Senders
      /\ writing \in [Writers -> Frames \cup {None}] /\ transaction \in Nat
  BY StreamAssumption DEF Writers, Handler, IInv, Typed
<1>2. ASSUME Answers("message")
      PROVE  \E f \in Frames : Writes(Handler, f) /\ f.kind = "message" /\ f.number = transaction
  <2>1. PICK size \in ReplySizes["message"] : Writes(Handler, Frame("message", transaction, size))
    BY <1>2 DEF Answers
  <2>2. Frame("message", transaction, size) \in Frames
    BY <1>1, LobbyKindsAre, FramesTyped
  <2> QED BY <2>1, <2>2 DEF Frame
<1>3. ASSUME Writes(Handler, None) PROVE writing' = [writing EXCEPT ![Handler] = None]
  BY <1>3 DEF Writes
<1>4. ASSUME Answers("message")
      PROVE  \E f \in Frames : /\ writing' = [writing EXCEPT ![Handler] = f]
                               /\ f.kind = "message" /\ f.number = transaction
  BY <1>2, <1>4 DEF Writes
<1> QED BY <1>1, <1>3, <1>4, NoneIsNoFrame

\* The handler has written a frame: it counts it if it was a reply, and reads on.
LEMMA HandlerWritten ==
  ASSUME IInv, Written(Handler)
  PROVE  IInv'
<1>1. /\ next[Handler] = "end" /\ Unlock(Handler) /\ Handler \in Writers
      /\ transaction' = Counted(writing[Handler]) /\ Afterwards(writing[Handler])
      /\ UNCHANGED <<asked, active, wire, refused, open>>
  BY DEF Written, Writers
<1>2. /\ place \in Busy /\ asked # <<>> /\ Len(asked) \in Answerable
      /\ writing[Handler].kind = "push" <=> place = "pushing"
      /\ writing[Handler].kind \in LobbyKinds <=> place = "replying"
      /\ Current \in LobbyKinds <=> Uncounted
  BY <1>1, HandlersFrame
<1>3. \/ place = "pushing" /\ place' = "replying" /\ Answers("message")
      \/ /\ place # "pushing" /\ Writes(Handler, None)
         /\ place' = IF place = "answering" THEN "login" ELSE "reading"
  BY <1>1 DEF Afterwards
<1>4. /\ writing' \in [Writers -> Frames \cup {None}]
      /\ \A v \in Writers : v # Handler => writing'[v] = writing[v]
      /\ \A s \in Senders : writing'[s] = writing[s]
      /\ Writes(Handler, None) => writing'[Handler] = None
      /\ Answers("message") =>
           /\ writing'[Handler] # None
           /\ writing'[Handler].kind = "message" /\ writing'[Handler].number = transaction
  BY <1>1, <1>3, HandsOn
<1>5. /\ next' \in [Writers -> {"outside", "prefix", "body", "end"}]
      /\ \A v \in Writers : next'[v] = "outside"
      /\ wire' \in Seq(Parts)
      /\ MutexHeld' /\ EndOfWire' /\ PartsTogether' /\ SizesAllowed' /\ RepliesInOrder'
      /\ ReplyAt' = ReplyAt
      /\ Uncut' => Uncut
      /\ Greeted => Greeted'
  BY <1>1, <1>4, UnlockKeeps
<1>6. transaction' = IF place = "replying" THEN transaction + 1 ELSE transaction
  BY <1>1, <1>2 DEF Counted
<1>7. Typed'
  BY <1>1, <1>3, <1>4, <1>5, <1>6 DEF IInv, Typed, Busy, Idle
<1>8. InAnswer'
  <2>1. \A s \in Senders : writing'[s] # None => writing'[s].kind = "push"
    BY <1>4 DEF IInv, InAnswer
  <2>2. CASE place = "pushing"
    <3>1. Current' = "message" /\ AnswerKind("message") = "message" /\ "message" \in LobbyKinds
      BY <1>1, <1>2, <2>2, LobbyKindsAre DEF IInv, InAnswer, Current, AnswerKind
    <3> QED BY <1>1, <1>2, <1>3, <1>4, <1>6, <2>1, <2>2, <3>1 DEF InAnswer, Busy, Idle
  <2>3. CASE place # "pushing"
    BY <1>3, <1>4, <2>1, <2>3 DEF InAnswer, Busy, Idle
  <2> QED BY <2>2, <2>3
<1>9. GreetedFirst'
  <2> SUFFICES ASSUME Uncut', ~Greeted' PROVE GreetedFirst'
    BY DEF GreetedFirst
  <2>1. /\ place \in {"login", "answering", "greeting", "over"} /\ ~active
        /\ place = "greeting" => next[Handler] \in {"outside", "prefix"}
        /\ \A s \in Senders : writing[s] = None
    BY <1>5 DEF IInv, GreetedFirst
  <2>2. place = "answering"
    BY <1>1, <1>2, <2>1 DEF Busy
  <2> QED BY <1>1, <1>3, <1>4, <2>1, <2>2 DEF GreetedFirst
<1>10. OneForOne'
  <2>1. Answerable' = Answerable /\ Len(asked') = Len(asked) /\ place # "over"
    BY <1>1, <1>2 DEF Answerable, Busy
  <2>2. Unanswered' <=> Unanswered
    BY <1>1, <1>2, <1>3, <1>5 DEF Unanswered, Busy
  <2>3. {k \in Answerable' : Unanswered' => k < Len(asked')}
          = {k \in Answerable : Unanswered => k < Len(asked)}
    BY <2>1, <2>2
  <2> DEFINE Before == {k \in Answerable : asked[k] \in LobbyKinds /\ (Uncounted => k < Len(asked))}
             After  == {k \in Answerable' : asked'[k] \in LobbyKinds
                                              /\ (Uncounted' => k < Len(asked'))}
  <2>4. transaction = Cardinality(Before)
    BY <2>1 DEF IInv, OneForOne
  <2>5. transaction' = Cardinality(After)
    <3>1. CASE place # "replying"
      <4>1. Uncounted' <=> Uncounted
        BY <1>2, <1>3, <3>1 DEF Uncounted
      <4>2. After = Before
        BY <1>1, <2>1, <4>1
      <4> QED BY <1>6, <2>4, <3>1, <4>2
    <3>2. CASE place = "replying"
      <4>1. Uncounted /\ ~Uncounted' /\ Current \in LobbyKinds
        BY <1>2, <1>3, <3>2 DEF Uncounted
      <4>2. /\ Answerable \subseteq 1..Len(asked) /\ Len(asked) \in Nat
            /\ \A S \in SUBSET Answerable : IsFiniteSet(S)
        BY AnswerableFinite DEF IInv
      <4>3. After = Before \cup {Len(asked)} /\ Len(asked) \notin Before
        <5>1. \A k \in Answerable : k < Len(asked) \/ k = Len(asked)
          BY <4>2
        <5>2. ~ (Len(asked) < Len(asked))
          BY <4>2
        <5>3. \A k : k \in After <=> k \in Before \/ k = Len(asked)
          BY <1>1, <1>2, <2>1, <4>1, <5>1, <5>2 DEF Current
        <5>4. Len(asked) \notin Before
          BY <4>1, <5>2
        <5> HIDE DEF Before, After
        <5> QED BY <5>3, <5>4
      <4>4. IsFiniteSet(Before)
        BY <4>2
      <4>5. Cardinality(After) = Cardinality(Before) + 1
        <5> HIDE DEF Before, After
        <5> QED BY <4>3, <4>4, FS_AddElement
      <4> QED BY <1>6, <2>4, <3>2, <4>5
    <3> QED BY <3>1, <3>2
  <2> QED BY <1>1, <1>5, <2>1, <2>3, <2>5 DEF IInv, OneForOne
<1> QED BY <1>5, <1>7, <1>8, <1>9, <1>10 DEF IInv

\* Another player's handler has pushed its frame, or failed to.
LEMMA SenderReturns ==
  ASSUME IInv, NEW s \in Senders, Unlock(s), Writes(s, None),
         UNCHANGED <<asked, place, transaction, active, refused, open>>,
         \/ UNCHANGED wire /\ next[s] \in {"prefix", "end"}
         \/ Sent(s, "cut") /\ next[s] \in {"prefix", "body"}
  PROVE  IInv'
<1>1. /\ s \in Writers /\ Handler \in Writers /\ s # Handler /\ Senders \subseteq Writers
      /\ writing \in [Writers -> Frames \cup {None}]
      /\ writing' = [writing EXCEPT ![s] = None]
  BY StreamAssumption DEF Writers, Handler, IInv, Typed, Writes
<1>2. /\ writing' \in [Writers -> Frames \cup {None}]
      /\ \A v \in Writers : v # s => writing'[v] = writing[v]
      /\ writing'[s] = None
  BY <1>1
<1>3. /\ next' \in [Writers -> {"outside", "prefix", "body", "end"}]
      /\ \A v \in Writers : next'[v] = "outside"
      /\ wire' \in Seq(Parts)
      /\ MutexHeld' /\ EndOfWire' /\ PartsTogether' /\ SizesAllowed' /\ RepliesInOrder'
      /\ ReplyAt' = ReplyAt
      /\ Uncut' => Uncut
      /\ Greeted => Greeted'
  BY <1>1, <1>2, UnlockKeeps
<1>4. next[s] # "outside" /\ writing[s] # None /\ next[Handler] = "outside"
  BY <1>1 DEF IInv, MutexHeld
<1>5. Typed'
  BY <1>2, <1>3 DEF IInv, Typed
<1>6. InAnswer'
  <2>1. \A v \in Senders : writing'[v] # None => writing'[v].kind = "push"
    BY <1>1, <1>2 DEF IInv, InAnswer
  <2>2. writing'[Handler] = writing[Handler] /\ Current' = Current
    BY <1>1, <1>2 DEF Current
  <2> QED BY <2>1, <2>2 DEF IInv, InAnswer
<1>7. GreetedFirst'
  BY <1>3, <1>4 DEF IInv, GreetedFirst
<1>8. OneForOne'
  <2>1. Answerable' = Answerable /\ (Uncounted' <=> Uncounted)
    BY DEF Answerable, Uncounted
  <2>2. Unanswered' <=> Unanswered
    BY <1>1, <1>3, <1>4 DEF Unanswered
  <2>3. {k \in Answerable' : Unanswered' => k < Len(asked')}
          = {k \in Answerable : Unanswered => k < Len(asked)}
    BY <2>1, <2>2
  <2>4. {k \in Answerable' : asked'[k] \in LobbyKinds /\ (Uncounted' => k < Len(asked'))}
          = {k \in Answerable : asked[k] \in LobbyKinds /\ (Uncounted => k < Len(asked))}
    BY <2>1
  <2> QED BY <1>3, <2>1, <2>3, <2>4 DEF IInv, OneForOne
<1> QED BY <1>3, <1>5, <1>6, <1>7, <1>8 DEF IInv

\* What Fails leaves behind, as its frame never had to be refused.
LEMMA FailsUnlocks ==
  ASSUME IInv, NEW w \in Writers, Fails(w)
  PROVE  /\ next[w] # "outside" /\ Unlock(w) /\ UNCHANGED refused
         /\ \/ UNCHANGED wire /\ next[w] \in {"prefix", "end"}
            \/ Sent(w, "cut") /\ next[w] \in {"prefix", "body"}
<1>1. next[w] # "outside"
  BY DEF Fails
<1>2. Allowed(writing[w]) /\ refused = FALSE
  BY <1>1, InWriteFrame DEF IInv, SizesAllowed, Typed
<1> QED BY <1>1, <1>2 DEF Fails

\* The handler's frame failed: it is over, or if it was a push to the player
\* himself, closes its socket and replies all the same.
LEMMA HandlerFailsKeeps ==
  ASSUME IInv, HandlerFails
  PROVE  IInv'
<1>1. /\ Fails(Handler) /\ Handler \in Writers /\ UNCHANGED <<asked, transaction>>
      /\ \/ /\ place = "pushing" /\ active' = FALSE /\ open' = FALSE
            /\ place' = "replying" /\ Answers("message")
         \/ /\ place # "pushing" /\ place' = "over" /\ Writes(Handler, None)
            /\ UNCHANGED <<active, open>>
  BY DEF HandlerFails, Writers
<1>2. /\ next[Handler] # "outside" /\ Unlock(Handler) /\ UNCHANGED refused
      /\ \/ UNCHANGED wire /\ next[Handler] \in {"prefix", "end"}
         \/ Sent(Handler, "cut") /\ next[Handler] \in {"prefix", "body"}
  BY <1>1, FailsUnlocks
<1>3. /\ writing' \in [Writers -> Frames \cup {None}]
      /\ \A v \in Writers : v # Handler => writing'[v] = writing[v]
      /\ \A s \in Senders : writing'[s] = writing[s]
      /\ Writes(Handler, None) => writing'[Handler] = None
      /\ Answers("message") =>
           /\ writing'[Handler] # None
           /\ writing'[Handler].kind = "message" /\ writing'[Handler].number = transaction
  BY <1>1, <1>2, HandsOn
<1>4. /\ next' \in [Writers -> {"outside", "prefix", "body", "end"}]
      /\ \A v \in Writers : next'[v] = "outside"
      /\ wire' \in Seq(Parts)
      /\ MutexHeld' /\ EndOfWire' /\ PartsTogether' /\ SizesAllowed' /\ RepliesInOrder'
      /\ Uncut' => Uncut
      /\ Greeted => Greeted'
  BY <1>1, <1>2, <1>3, UnlockKeeps
<1>5. Typed'
  BY <1>1, <1>3, <1>4 DEF IInv, Typed, Busy, Idle
<1>6. \A s \in Senders : writing'[s] # None => writing'[s].kind = "push"
  BY <1>3 DEF IInv, InAnswer
<1>7. CASE place = "pushing"
  <2>1. /\ asked' # <<>> /\ Current' = "message"
        /\ AnswerKind("message") = "message" /\ "message" \in LobbyKinds
    BY <1>1, <1>7, LobbyKindsAre DEF IInv, InAnswer, Current, AnswerKind, Busy
  <2>2. InAnswer'
    BY <1>1, <1>3, <1>6, <1>7, <2>1 DEF InAnswer, Busy, Idle
  <2>3. OneForOne'
    <3>1. Answerable' = Answerable /\ Uncounted' /\ Uncounted
      BY <1>1, <1>7 DEF Answerable, Uncounted
    <3>2. {k \in Answerable' : asked'[k] \in LobbyKinds /\ (Uncounted' => k < Len(asked'))}
            = {k \in Answerable : asked[k] \in LobbyKinds /\ (Uncounted => k < Len(asked))}
      BY <1>1, <3>1
    <3> QED BY <1>1, <1>7, <3>2 DEF IInv, OneForOne
  <2>4. GreetedFirst'
    BY <1>4, <1>7 DEF IInv, GreetedFirst
  <2> QED BY <1>4, <1>5, <2>2, <2>3, <2>4 DEF IInv
<1>8. CASE place # "pushing"
  <2>1. InAnswer'
    BY <1>1, <1>3, <1>6, <1>8 DEF InAnswer, Busy, Idle
  <2>2. OneForOne'
    BY <1>1, <1>8 DEF OneForOne
  <2>3. GreetedFirst'
    BY <1>1, <1>3, <1>4, <1>8 DEF IInv, GreetedFirst
  <2> QED BY <1>4, <1>5, <2>1, <2>2, <2>3 DEF IInv
<1> QED BY <1>7, <1>8

-----------------------------------------------------------------------------
(* The theorems                                                            *)

LEMMA StepIInv == IInv /\ [Next]_vars => IInv'
<1> SUFFICES ASSUME IInv, [Next]_vars PROVE IInv'
  OBVIOUS
<1> USE DEF handler
<1>1. active \in BOOLEAN /\ open \in BOOLEAN
  BY DEF IInv, Typed
<1>2. CASE Login \/ Keepalive \/ MessageSelf \/ \E kind \in Kinds : Request(kind)
  BY <1>2, HandlerReads
<1>3. CASE BufferAvailable
  BY <1>3, BufferKeeps
<1>4. CASE HandlerEnds
  BY <1>1, <1>4, QuietKeeps DEF HandlerEnds
<1>5. CASE Leave
  BY <1>1, <1>5, QuietKeeps DEF Leave
<1>6. CASE Displaced
  BY <1>1, <1>6, QuietKeeps DEF Displaced
<1>7. ASSUME NEW s \in Senders, PushFrom(s) PROVE IInv'
  BY <1>7, PushKeeps
<1>8. ASSUME NEW s \in Senders, Deactivate(s) PROVE IInv'
  BY <1>1, <1>8, QuietKeeps DEF Deactivate
<1>9. ASSUME NEW s \in Senders, CloseRecipient(s) PROVE IInv'
  BY <1>1, <1>9, QuietKeeps DEF CloseRecipient
<1>10. ASSUME NEW s \in Senders, SenderFails(s) PROVE IInv'
  <2>1. s \in Writers
    BY DEF Writers
  <2>2. /\ Fails(s) /\ Writes(s, None)
        /\ UNCHANGED <<asked, place, transaction, active, open>>
    BY <1>10 DEF SenderFails
  <2> QED BY <2>1, <2>2, FailsUnlocks, SenderReturns
<1>11. ASSUME NEW w \in Writers, Acquire(w) PROVE IInv'
  BY <1>11, AcquireKeeps
<1>12. ASSUME NEW w \in Writers, WritePrefix(w) PROVE IInv'
  <2>1. /\ next[w] = "prefix" /\ open /\ Sent(w, "prefix")
        /\ next' = [next EXCEPT ![w] = IF writing[w].size = 0 THEN "end" ELSE "body"]
        /\ UNCHANGED <<asked, place, transaction, active, writing, open, refused>>
    BY <1>12 DEF WritePrefix
  <2>2. next' = [next EXCEPT ![w] = IF "prefix" = "prefix" /\ writing[w].size # 0
                                    THEN "body" ELSE "end"]
    BY <2>1
  <2> QED BY <2>1, <2>2, WriteKeeps
<1>13. ASSUME NEW w \in Writers, WriteBody(w) PROVE IInv'
  <2>1. /\ next[w] = "body" /\ open /\ Sent(w, "body")
        /\ next' = [next EXCEPT ![w] = "end"]
        /\ UNCHANGED <<asked, place, transaction, active, writing, open, refused>>
    BY <1>13 DEF WriteBody
  <2>2. next' = [next EXCEPT ![w] = IF "body" = "prefix" /\ writing[w].size # 0
                                    THEN "body" ELSE "end"]
    BY <2>1
  <2> QED BY <2>1, <2>2, WriteKeeps
<1>14. ASSUME NEW w \in Writers, Written(w) PROVE IInv'
  <2>1. CASE w = Handler
    BY <1>14, <2>1, HandlerWritten
  <2>2. CASE w # Handler
    <3>1. w \in Senders
      BY <2>2 DEF Writers
    <3> QED BY <1>14, <2>2, <3>1, SenderReturns DEF Written
  <2> QED BY <2>1, <2>2
<1>15. CASE HandlerFails
  BY <1>15, HandlerFailsKeeps
<1>16. CASE UNCHANGED vars
  BY <1>1, <1>16, QuietKeeps DEF vars
<1> QED BY <1>2, <1>3, <1>4, <1>5, <1>6, <1>7, <1>8, <1>9, <1>10, <1>11, <1>12, <1>13, <1>14,
           <1>15, <1>16 DEF Next

LEMMA Invariance == Spec => []IInv
<1> QED BY InitIInv, StepIInv, PTL DEF Spec

(* writeFrame holds writeMu from the prefix to the end of the body          *)
(* (lobby/client.go), and whoever fails in between leaves a cut frame:      *)
(* however many players push at once, a client reads whole frames up to     *)
(* the first write that failed.  And the marshallers pad what would come    *)
(* out at the size of the buffer record marker                              *)
(* (marshalClearTaskReplyBody), so that WriteFrame (bitdemon/frame.go)      *)
(* never has to refuse a body for it: for pages of any length, and names,   *)
(* hosts and messages of any sizes within the limits.                       *)
THEOREM FramesReachWhole == Spec => []FramesWhole
<1>1. IInv => FramesWhole
  BY DEF IInv, FramesWhole
<1> QED BY <1>1, Invariance, PTL

(* The handler's loop (lobby/lsg.go) writes a frame for each record but the *)
(* announcements of a buffer, in their order, and raises transactionID      *)
(* after each reply it wrote: the client can tell by order and number what  *)
(* a reply is for, whatever others push in between and whatever fails; and  *)
(* the registry lets nobody push before the connection ID is out.           *)
THEOREM RepliesTold == Spec => []RepliesInOrder
<1>1. IInv => RepliesInOrder
  BY DEF IInv
<1> QED BY <1>1, Invariance, PTL
=============================================================================
