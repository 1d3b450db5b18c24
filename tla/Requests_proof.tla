--------------------------- MODULE Requests_proof ---------------------------
(***************************************************************************)
(* Proofs that no two bodies mean the same request to a service, that a    *)
(* legal request that arrives as it was written is understood as it was    *)
(* meant, and that the client reads out of every answer what the service   *)
(* had to say: for any requests, any limits, any alterations.              *)
(*                                                                         *)
(* For each layer, from the fields of a message to the body around them,   *)
(* a lemma "...There" says that what was written there is read back, and   *)
(* a lemma "...Gives" that what is read successfully had been written.     *)
(***************************************************************************)
EXTENDS Requests, SequenceTheorems, WellFoundedInduction, TLAPS

FieldTypes == {"uint8", "int32", "uint32", "uint64", "string", "blob"}

Byte       == 0..255
Limits     == {n \in Nat : n <= MaxInt32}
LobbyField == [type : FieldTypes, max : Limits]

\* s stands behind the first at bytes of bytes
At(bytes, at, s) ==
  at + Len(s) <= Len(bytes) /\ \A i \in 1..Len(s) : bytes[at + i] = s[i]

\* A read that succeeds.
Got(value, end) == [ok |-> TRUE, value |-> value, next |-> end]

LEMMA LeastNumber ==
  ASSUME NEW T \in SUBSET Nat, T # {}
  PROVE  \E m \in T : \A n \in T : m <= n
<1> DEFINE R == OpToRel(<, Nat)
<1>1. PICK m \in T : \A n \in T : ~ (<<n, m>> \in R)
  BY NatLessThanWellFounded, WFMin
<1>2. \A n \in T : ~ (n < m)
  BY <1>1 DEF OpToRel
<1> QED BY <1>2

LEMMA ReadIs ==
  /\ \A value, end : /\ Got(value, end).ok /\ Got(value, end).value = value
                      /\ Got(value, end).next = end
  /\ \A at : ~NoValue(at).ok
BY DEF Got, NoValue

LEMMA Joined ==
  ASSUME NEW s \in Seq(Byte), NEW t \in Seq(Byte)
  PROVE  /\ s \o t \in Seq(Byte) /\ Len(s \o t) = Len(s) + Len(t)
         /\ Len(s) \in Nat /\ Len(t) \in Nat
         /\ \A i \in 1..Len(s) : (s \o t)[i] = s[i]
         /\ \A i \in 1..Len(t) : (s \o t)[Len(s) + i] = t[i]
OBVIOUS

LEMMA AtConcat ==
  ASSUME NEW s \in Seq(Byte), NEW t \in Seq(Byte), NEW bytes \in Seq(Byte), NEW at \in Nat
  PROVE  At(bytes, at, s \o t) <=> At(bytes, at, s) /\ At(bytes, at + Len(s), t)
<1>1. Len(s \o t) = Len(s) + Len(t) /\ Len(s) \in Nat /\ Len(t) \in Nat
  BY Joined
<1>2. \A i \in 1..Len(s) + Len(t) :
        (s \o t)[i] = IF i <= Len(s) THEN s[i] ELSE t[i - Len(s)]
  OBVIOUS
<1>3. ASSUME At(bytes, at, s \o t) PROVE At(bytes, at, s) /\ At(bytes, at + Len(s), t)
  <2>1. \A i \in 1..Len(s) + Len(t) : bytes[at + i] = (s \o t)[i]
    BY <1>1, <1>3 DEF At
  <2>2. ASSUME NEW i \in 1..Len(s) PROVE bytes[at + i] = s[i]
    BY <1>1, <1>2, <2>1
  <2>3. ASSUME NEW i \in 1..Len(t) PROVE bytes[(at + Len(s)) + i] = t[i]
    <3>1. /\ Len(s) + i \in 1..Len(s) + Len(t) /\ ~ (Len(s) + i <= Len(s))
          /\ (Len(s) + i) - Len(s) = i /\ at + (Len(s) + i) = (at + Len(s)) + i
      BY <1>1
    <3> QED BY <1>2, <2>1, <3>1
  <2> QED BY <1>1, <1>3, <2>2, <2>3 DEF At
<1>4. ASSUME At(bytes, at, s), At(bytes, at + Len(s), t) PROVE At(bytes, at, s \o t)
  <2>1. ASSUME NEW i \in 1..Len(s) + Len(t) PROVE bytes[at + i] = (s \o t)[i]
    <3>1. CASE i <= Len(s)
      BY <1>1, <1>2, <1>4, <3>1 DEF At
    <3>2. CASE ~ (i <= Len(s))
      <4>1. i - Len(s) \in 1..Len(t) /\ (at + Len(s)) + (i - Len(s)) = at + i
        BY <1>1, <3>2
      <4>2. bytes[(at + Len(s)) + (i - Len(s))] = t[i - Len(s)]
        BY <1>4, <4>1 DEF At
      <4> QED BY <1>2, <3>2, <4>1, <4>2
    <3> QED BY <3>1, <3>2
  <2> QED BY <1>1, <1>4, <2>1 DEF At
<1> QED BY <1>3, <1>4

LEMMA AtTyped ==
  ASSUME NEW bytes \in Seq(Byte), NEW at \in Nat, NEW s \in Seq(Byte), At(bytes, at, s)
  PROVE  at + Len(s) \in Nat /\ at + Len(s) <= Len(bytes) /\ Len(bytes) \in Nat
BY DEF At

LEMMA Part ==
  ASSUME NEW bytes \in Seq(Byte), NEW at \in Nat, NEW n \in Nat, at + n <= Len(bytes)
  PROVE  LET part == SubSeq(bytes, at + 1, at + n)
         IN  part \in Seq(Byte) /\ Len(part) = n /\ At(bytes, at, part)
<1> DEFINE part == SubSeq(bytes, at + 1, at + n)
<1>1. \A i \in (at + 1)..(at + n) : bytes[i] \in Byte
  OBVIOUS
<1>2. /\ part \in Seq(Byte)
      /\ Len(part) = IF at + 1 <= at + n THEN (at + n) - (at + 1) + 1 ELSE 0
      /\ \A i \in 1..(at + n) - (at + 1) + 1 : part[i] = bytes[(at + 1) + i - 1]
  BY <1>1, SubSeqProperties
<1> HIDE DEF part
<1>3. Len(part) = n /\ \A i \in 1..n : part[i] = bytes[at + i]
  BY <1>2
<1> QED BY <1>2, <1>3 DEF At, part

\* What stands there is what is cut out there.
LEMMA PartThere ==
  ASSUME NEW bytes \in Seq(Byte), NEW at \in Nat, NEW s \in Seq(Byte), At(bytes, at, s)
  PROVE  SubSeq(bytes, at + 1, at + Len(s)) = s
<1>1. Len(s) \in Nat /\ at + Len(s) <= Len(bytes)
  BY DEF At
<1>2. PICK part : part = SubSeq(bytes, at + 1, at + Len(s))
  OBVIOUS
<1>3. part \in Seq(Byte) /\ Len(part) = Len(s) /\ At(bytes, at, part)
  BY <1>1, <1>2, Part
<1>4. \A i \in 1..Len(s) : part[i] = s[i]
  BY <1>3 DEF At
<1>5. part = s
  BY <1>3, <1>4
<1> QED BY <1>2, <1>5

LEMMA ReadThere ==
  ASSUME NEW bytes \in Seq(Byte), NEW at \in Nat, NEW s \in Seq(Byte), At(bytes, at, s)
  PROVE  ReadRaw(bytes, at, Len(s)) = Got(s, at + Len(s))
<1>1. ~ (Len(s) > Len(bytes) - at)
  BY AtTyped
<1>2. SubSeq(bytes, at + 1, at + Len(s)) = s
  BY PartThere
<1> QED BY <1>1, <1>2 DEF ReadRaw, Got

LEMMA ReadGives ==
  ASSUME NEW bytes \in Seq(Byte), NEW at \in Nat, NEW n \in Nat, ReadRaw(bytes, at, n).ok
  PROVE  \E s \in Seq(Byte) : /\ Len(s) = n /\ At(bytes, at, s)
                              /\ ReadRaw(bytes, at, n) = Got(s, at + n)
<1>1. ~ (n > Len(bytes) - at)
  BY DEF ReadRaw, NoValue
<1>2. Len(bytes) \in Nat
  OBVIOUS
<1>3. at + n <= Len(bytes)
  BY <1>1, <1>2
<1>4. PICK part : part = SubSeq(bytes, at + 1, at + n)
  OBVIOUS
<1>5. part \in Seq(Byte) /\ Len(part) = n /\ At(bytes, at, part)
  BY <1>3, <1>4, Part
<1>6. ReadRaw(bytes, at, n) = Got(part, at + n)
  BY <1>1, <1>4 DEF ReadRaw, Got
<1> QED BY <1>5, <1>6

LEMMA AtWhole ==
  ASSUME NEW s \in Seq(Byte), NEW t \in Seq(Byte)
  PROVE  At(s, 0, t) /\ Len(s) = Len(t) <=> s = t
BY DEF At

LEMMA FunctionIsSeq ==
  ASSUME NEW S, NEW n \in Nat, NEW f \in [1..n -> S]
  PROVE  f \in Seq(S) /\ Len(f) = n
OBVIOUS

\* A word has four bytes, whatever the number is.
LEMMA WordBytes ==
  ASSUME NEW n \in Nat
  PROVE  /\ Word(n) \in Seq(Byte) /\ Len(Word(n)) = 4
         /\ Word(n)[1] = n % 256 /\ Word(n)[2] = (n \div 256) % 256
         /\ Word(n)[3] = (n \div 65536) % 256 /\ Word(n)[4] = (n \div 16777216) % 256
<1>1. 256^(1-1) = 1 /\ 256^(2-1) = 256 /\ 256^(3-1) = 65536 /\ 256^(4-1) = 16777216
  BY SMT
<1>2. /\ Word(n)[1] = n % 256 /\ Word(n)[2] = (n \div 256) % 256
      /\ Word(n)[3] = (n \div 65536) % 256 /\ Word(n)[4] = (n \div 16777216) % 256
  BY <1>1, SMT DEF Word
<1>3. /\ n % 256 \in 0..255 /\ (n \div 256) % 256 \in 0..255
      /\ (n \div 65536) % 256 \in 0..255 /\ (n \div 16777216) % 256 \in 0..255
  BY SMT
<1>4. \A i \in 1..4 : i = 1 \/ i = 2 \/ i = 3 \/ i = 4
  OBVIOUS
<1>5. \A i \in 1..4 : Word(n)[i] \in Byte
  BY <1>2, <1>3, <1>4, SMT DEF Byte
<1>6. Word(n) = [i \in 1..4 |-> Word(n)[i]]
  BY DEF Word
<1> HIDE DEF Word
<1>7. Word(n) \in [1..4 -> Byte]
  BY <1>5, <1>6
<1>8. Word(n) \in Seq(Byte) /\ Len(Word(n)) = 4
  BY <1>7, FunctionIsSeq
<1> QED BY <1>2, <1>8

\* Word and Number are inverse to each other.
LEMMA WordNumber ==
  ASSUME NEW n \in Limits
  PROVE  /\ Word(n) \in Seq(Byte) /\ Len(Word(n)) = 4
         /\ Word(n)[4] < 128 /\ Number(Word(n)) = n
<1>1. n \in Nat /\ n < 128 * 16777216
  BY SMT DEF Limits, MaxInt32
<1>2. /\ Word(n) \in Seq(Byte) /\ Len(Word(n)) = 4
      /\ Word(n)[1] = n % 256 /\ Word(n)[2] = (n \div 256) % 256
      /\ Word(n)[3] = (n \div 65536) % 256 /\ Word(n)[4] = (n \div 16777216) % 256
  BY <1>1, WordBytes
<1>3. Word(n)[4] < 128
  BY <1>1, <1>2, SMT
<1>4. PICK p \in Nat, q \in Nat, r \in Nat :
        p = n \div 256 /\ q = n \div 65536 /\ r = n \div 16777216
  BY <1>1
<1>5. PICK a \in Nat : a = n % 256 /\ n = 256 * p + a
  BY <1>1, <1>4
<1>6. PICK b \in Nat : b = p % 256 /\ p = 256 * q + b
  BY <1>1, <1>4
<1>7. PICK c \in Nat : c = q % 256 /\ q = 256 * r + c
  BY <1>1, <1>4
<1>8. r % 256 = r
  BY <1>1, <1>4
<1>9. a + 256 * b + 65536 * c + 16777216 * r = n
  BY <1>5, <1>6, <1>7
<1>10. Word(n)[1] = a /\ Word(n)[2] = b /\ Word(n)[3] = c /\ Word(n)[4] = r
  BY <1>2, <1>4, <1>5, <1>6, <1>7, <1>8
<1>11. Number(Word(n)) = n
  BY <1>9, <1>10 DEF Number
<1> QED BY <1>2, <1>3, <1>11

LEMMA NumberWord ==
  ASSUME NEW w \in Seq(Byte), Len(w) = 4, w[4] < 128
  PROVE  Number(w) \in Limits /\ Word(Number(w)) = w
<1>1. \A i \in 1..4 : w[i] \in 0..255
  BY ElementOfSeq DEF Byte
<1>2. PICK a \in 0..255, b \in 0..255, c \in 0..255, d \in 0..255 :
        w[1] = a /\ w[2] = b /\ w[3] = c /\ w[4] = d
  <2>1. 1 \in 1..4 /\ 2 \in 1..4 /\ 3 \in 1..4 /\ 4 \in 1..4
    OBVIOUS
  <2> QED BY <1>1, <2>1, Zenon
<1>3. d \in 0..127
  BY <1>2, SMT
<1>4. PICK n : n = a + 256 * b + 65536 * c + 16777216 * d
  OBVIOUS
<1>5. /\ n \in Nat /\ n <= MaxInt32
      /\ n % 256 = w[1] /\ (n \div 256) % 256 = w[2]
      /\ (n \div 65536) % 256 = w[3] /\ (n \div 16777216) % 256 = w[4]
  <2>1. n \in Nat
    BY <1>3, <1>4, SMT
  <2>2. n <= MaxInt32
    BY <1>3, <1>4, SMT DEF MaxInt32
  <2>3. n % 256 = a
    BY <1>3, <1>4, SMT
  <2>4. (n \div 256) % 256 = b
    <3>1. PICK q \in Nat : q = b + 256 * c + 65536 * d
      BY <1>3, <1>4, SMT
    <3>2. n = a + 256 * q
      BY <1>3, <1>4, <3>1, SMT
    <3>3. n \div 256 = q
      BY <1>3, <1>4, <3>2, SMT
    <3>4. q % 256 = b
      BY <1>3, <1>4, <3>1, SMT
    <3> QED BY <3>3, <3>4
  <2>5. (n \div 65536) % 256 = c
    <3>1. PICK r \in Nat : r = a + 256 * b
      BY <1>3, <1>4, SMT
    <3>2. PICK q \in Nat : q = c + 256 * d
      BY <1>3, <1>4, SMT
    <3>3. n = r + 65536 * q /\ r < 65536
      BY <1>3, <1>4, <3>1, <3>2, SMT
    <3>4. n \div 65536 = q
      BY <1>3, <1>4, <3>3, SMT
    <3>5. q % 256 = c
      BY <1>3, <1>4, <3>2, SMT
    <3> QED BY <3>4, <3>5
  <2>6. (n \div 16777216) % 256 = d
    <3>1. PICK r \in Nat : r = a + 256 * b + 65536 * c
      BY <1>3, <1>4, SMT
    <3>2. n = r + 16777216 * d /\ r < 16777216
      BY <1>3, <1>4, <3>1, SMT
    <3>3. n \div 16777216 = d
      BY <1>3, <1>4, <3>2, SMT
    <3>4. d % 256 = d
      BY <1>3, <1>4, SMT
    <3> QED BY <3>3, <3>4
  <2> QED BY <1>2, <2>1, <2>2, <2>3, <2>4, <2>5, <2>6
<1>6. n \in Limits
  BY <1>5 DEF Limits
<1>7. 256^(1-1) = 1 /\ 256^(2-1) = 256 /\ 256^(3-1) = 65536 /\ 256^(4-1) = 16777216
  BY SMT
<1>8. \A i \in 1..4 : Word(n)[i] = w[i]
  <2>1. /\ Word(n)[1] = n % 256 /\ Word(n)[2] = (n \div 256) % 256
        /\ Word(n)[3] = (n \div 65536) % 256 /\ Word(n)[4] = (n \div 16777216) % 256
    BY <1>5, <1>7, SMT DEF Word
  <2>2. \A i \in 1..4 : i = 1 \/ i = 2 \/ i = 3 \/ i = 4
    OBVIOUS
  <2> QED BY <1>5, <2>1, <2>2, SMT
<1>9. Word(n) \in Seq(Byte) /\ Len(Word(n)) = 4
  BY <1>6, WordNumber
<1>10. Word(n) = w
  BY <1>8, <1>9
<1>11. Number(w) = n
  BY <1>2, <1>4, SMT DEF Number
<1> QED BY <1>6, <1>10, <1>11

-----------------------------------------------------------------------------
(* Values of a fixed size, numbers and blobs                               *)

FixedTypes == {"uint8", "int32", "uint32", "uint64"}

\* The values that a field of a request can have.
Fits(field, value) ==
  CASE field.type = "string" -> value \in Seq(1..255) /\ Len(value) <= field.max
    [] field.type = "blob"   -> value \in Seq(Byte) /\ Len(value) <= field.max
    [] OTHER                 -> value \in Seq(Byte) /\ Len(value) = Size[field.type]

LEMMA TypeBytes ==
  /\ \A type \in FieldTypes : DataType[type] \in Byte
  /\ \A type \in FixedTypes : type \in FieldTypes /\ Size[type] \in Nat
BY DEF FieldTypes, FixedTypes, DataType, Size, Byte

LEMMA NamedTypes ==
  /\ \E type \in FieldTypes : type = "string" /\ DataType[type] = DataType.string
  /\ \E type \in FieldTypes : type = "blob" /\ DataType[type] = DataType.blob
  /\ \E type \in FixedTypes : type = "uint32" /\ Size[type] = 4
<1>2. \E type \in FieldTypes : type = "string" /\ DataType[type] = DataType.string
  <2>1. "string" \in FieldTypes
    BY DEF FieldTypes
  <2> QED BY <2>1, Zenon
<1>3. \E type \in FieldTypes : type = "blob" /\ DataType[type] = DataType.blob
  <2>1. "blob" \in FieldTypes
    BY DEF FieldTypes
  <2> QED BY <2>1, Zenon
<1>4. \E type \in FixedTypes : type = "uint32" /\ Size[type] = 4
  BY DEF FixedTypes, Size
<1> QED BY <1>2, <1>3, <1>4

LEMMA Single ==
  ASSUME NEW b \in Byte
  PROVE  <<b>> \in Seq(Byte) /\ Len(<<b>>) = 1 /\ <<b>>[1] = b
OBVIOUS

LEMMA Tagged1 ==
  ASSUME NEW type \in FieldTypes, NEW s \in Seq(Byte)
  PROVE  /\ <<DataType[type]>> \o s \in Seq(Byte)
         /\ Len(<<DataType[type]>> \o s) = 1 + Len(s)
<1>1. DataType[type] \in Byte
  BY TypeBytes
<1>2. <<DataType[type]>> \in Seq(Byte) /\ Len(<<DataType[type]>>) = 1
  BY <1>1, Single
<1> QED BY <1>2, Joined

LEMMA AtOne ==
  ASSUME NEW bytes \in Seq(Byte), NEW at \in Nat, NEW b \in Byte
  PROVE  At(bytes, at, <<b>>) <=> at < Len(bytes) /\ bytes[at + 1] = b
<1>1. Len(<<b>>) = 1 /\ <<b>>[1] = b /\ Len(bytes) \in Nat
  OBVIOUS
<1>2. \A i \in 1..1 : i = 1
  OBVIOUS
<1> QED BY <1>1, <1>2 DEF At

LEMMA AtTagged ==
  ASSUME NEW bytes \in Seq(Byte), NEW at \in Nat, NEW type \in FieldTypes, NEW s \in Seq(Byte)
  PROVE  At(bytes, at, <<DataType[type]>> \o s)
           <=> Expected(bytes, at, type) /\ At(bytes, at + 1, s)
<1>1. PICK b \in Byte : b = DataType[type]
  BY TypeBytes
<1>2. <<b>> \in Seq(Byte) /\ Len(<<b>>) = 1
  BY Single
<1>3. At(bytes, at, <<b>> \o s) <=> At(bytes, at, <<b>>) /\ At(bytes, at + 1, s)
  BY <1>2, AtConcat
<1>4. At(bytes, at, <<b>>) <=> Expected(bytes, at, type)
  BY <1>1, AtOne DEF Expected
<1> QED BY <1>1, <1>3, <1>4

LEMMA FixedWritten ==
  ASSUME NEW type \in FixedTypes, NEW v \in Seq(Byte), Len(v) = Size[type]
  PROVE  WriteFixed(type, v) \in Seq(Byte) /\ Len(WriteFixed(type, v)) = 1 + Size[type]
BY TypeBytes, Tagged1 DEF WriteFixed

LEMMA FixedThere ==
  ASSUME NEW bytes \in Seq(Byte), NEW at \in Nat, NEW type \in FixedTypes,
         NEW v \in Seq(Byte), Len(v) = Size[type], At(bytes, at, WriteFixed(type, v))
  PROVE  ReadFixed(bytes, at, type) = Got(v, at + 1 + Size[type])
<1>1. type \in FieldTypes /\ at + 1 \in Nat
  BY TypeBytes
<1>2. Expected(bytes, at, type) /\ At(bytes, at + 1, v)
  BY <1>1, AtTagged DEF WriteFixed
<1>3. ReadRaw(bytes, at + 1, Size[type]) = Got(v, at + 1 + Size[type])
  BY <1>1, <1>2, ReadThere
<1> QED BY <1>2, <1>3, ReadIs DEF ReadFixed

LEMMA FixedGives ==
  ASSUME NEW bytes \in Seq(Byte), NEW at \in Nat, NEW type \in FixedTypes,
         ReadFixed(bytes, at, type).ok
  PROVE  \E v \in Seq(Byte) :
           /\ Len(v) = Size[type] /\ At(bytes, at, WriteFixed(type, v))
           /\ ReadFixed(bytes, at, type) = Got(v, at + 1 + Size[type])
<1>1. type \in FieldTypes /\ at + 1 \in Nat /\ Size[type] \in Nat
  BY TypeBytes
<1>2. PICK read : read = ReadRaw(bytes, at + 1, Size[type])
  OBVIOUS
<1>3. ReadFixed(bytes, at, type) = IF Expected(bytes, at, type) /\ read.ok THEN read ELSE NoValue(at)
  BY <1>2 DEF ReadFixed
<1>4. Expected(bytes, at, type) /\ read.ok
  <2>1. NoValue(at).ok = FALSE
    BY DEF NoValue
  <2> QED BY <1>3, <2>1, Zenon
<1>5. PICK v \in Seq(Byte) : /\ Len(v) = Size[type] /\ At(bytes, at + 1, v)
                             /\ read = Got(v, at + 1 + Size[type])
  <2>1. PICK n \in Nat, from \in Nat : n = Size[type] /\ from = at + 1
    BY <1>1
  <2>2. ReadRaw(bytes, from, n).ok
    BY <1>2, <1>4, <2>1, Zenon
  <2>3. PICK v \in Seq(Byte) : /\ Len(v) = n /\ At(bytes, from, v)
                               /\ ReadRaw(bytes, from, n) = Got(v, from + n)
    BY <2>2, ReadGives
  <2> QED BY <1>2, <2>1, <2>3, Zenon
<1>6. At(bytes, at, WriteFixed(type, v))
  BY <1>1, <1>4, <1>5, AtTagged DEF WriteFixed
<1> QED BY <1>3, <1>4, <1>5, <1>6

LEMMA NumberWritten ==
  ASSUME NEW w \in Seq(Byte), Len(w) = 4
  PROVE  /\ WriteFixed("uint32", w) \in Seq(Byte) /\ Len(WriteFixed("uint32", w)) = 5
         /\ \A bytes \in Seq(Byte), at \in Nat : At(bytes, at, WriteFixed("uint32", w)) =>
              ReadFixed(bytes, at, "uint32") = Got(w, at + 5)
<1>1. PICK type \in FixedTypes : type = "uint32" /\ Size[type] = 4
  BY NamedTypes
<1>2. Len(w) = Size[type] /\ 1 + Size[type] = 5
  BY <1>1
<1>3. WriteFixed(type, w) \in Seq(Byte) /\ Len(WriteFixed(type, w)) = 5
  BY <1>2, FixedWritten
<1>4. ASSUME NEW bytes \in Seq(Byte), NEW at \in Nat, At(bytes, at, WriteFixed(type, w))
      PROVE  ReadFixed(bytes, at, type) = Got(w, at + 5)
  <2>1. at + 1 + Size[type] = at + 5
    BY <1>1
  <2>2. ReadFixed(bytes, at, type) = Got(w, at + 1 + Size[type])
    BY <1>2, <1>4, FixedThere
  <2> QED BY <2>1, <2>2
<1> QED BY <1>1, <1>3, <1>4

LEMMA NumberGives ==
  ASSUME NEW bytes \in Seq(Byte), NEW at \in Nat, ReadFixed(bytes, at, "uint32").ok
  PROVE  \E w \in Seq(Byte) :
           /\ Len(w) = 4 /\ At(bytes, at, WriteFixed("uint32", w))
           /\ ReadFixed(bytes, at, "uint32") = Got(w, at + 5)
<1>1. PICK type \in FixedTypes : type = "uint32" /\ Size[type] = 4
  BY NamedTypes
<1>2. PICK w \in Seq(Byte) : /\ Len(w) = Size[type] /\ At(bytes, at, WriteFixed(type, w))
                             /\ ReadFixed(bytes, at, type) = Got(w, at + 1 + Size[type])
  BY <1>1, FixedGives
<1>3. at + 1 + Size[type] = at + 5
  BY <1>1
<1> QED BY <1>1, <1>2, <1>3

-----------------------------------------------------------------------------
LEMMA BlobWritten ==
  ASSUME NEW v \in Seq(Byte), Len(v) \in Limits
  PROVE  /\ WriteBlob(v) \in Seq(Byte) /\ Len(WriteBlob(v)) = 6 + Len(v)
         /\ Word(Len(v)) \in Seq(Byte) /\ Len(Word(Len(v))) = 4
         /\ \A bytes \in Seq(Byte), at \in Nat :
              At(bytes, at, WriteBlob(v)) <=>
                /\ Expected(bytes, at, "blob")
                /\ At(bytes, at + 1, WriteFixed("uint32", Word(Len(v)))) /\ At(bytes, at + 6, v)
<1>1. PICK w \in Seq(Byte) : w = Word(Len(v)) /\ Len(w) = 4
  <2>1. PICK n \in Limits : n = Len(v)
    OBVIOUS
  <2> QED BY <2>1, WordNumber
<1>2. PICK head \in Seq(Byte) : head = WriteFixed("uint32", w) /\ Len(head) = 5
  <2>1. WriteFixed("uint32", w) \in Seq(Byte) /\ Len(WriteFixed("uint32", w)) = 5
    BY <1>1, NumberWritten
  <2> QED BY <2>1
<1>3. PICK type \in FieldTypes : type = "blob" /\ DataType[type] = DataType.blob
  BY NamedTypes
<1>4. PICK front : front = <<DataType[type]>> \o head
  OBVIOUS
<1>8. front \in Seq(Byte) /\ Len(front) = 6
  <2>1. front \in Seq(Byte) /\ Len(front) = 1 + Len(head)
    BY <1>4, Tagged1
  <2> QED BY <1>2, <2>1
<1>7. WriteBlob(v) = front \o v
  BY <1>1, <1>2, <1>3, <1>4 DEF WriteBlob
<1>5. ASSUME NEW bytes \in Seq(Byte), NEW at \in Nat
      PROVE  At(bytes, at, WriteBlob(v)) <=> /\ Expected(bytes, at, "blob") /\ At(bytes, at + 1, head)
                                            /\ At(bytes, at + 6, v)
  <2>1. At(bytes, at, front \o v) <=> At(bytes, at, front) /\ At(bytes, at + 6, v)
    BY <1>8, AtConcat
  <2>2. At(bytes, at, front) <=> Expected(bytes, at, "blob") /\ At(bytes, at + 1, head)
    BY <1>3, <1>4, <1>8, AtTagged
  <2> QED BY <1>7, <2>1, <2>2
<1>6. WriteBlob(v) \in Seq(Byte) /\ Len(WriteBlob(v)) = 6 + Len(v)
  <2>1. front \o v \in Seq(Byte) /\ Len(front \o v) = Len(front) + Len(v)
    BY <1>8, Joined
  <2> QED BY <1>7, <1>8, <2>1
<1> QED BY <1>1, <1>2, <1>5, <1>6

LEMMA BlobThere ==
  ASSUME NEW bytes \in Seq(Byte), NEW at \in Nat, NEW max \in Limits,
         NEW v \in Seq(Byte), Len(v) <= max, At(bytes, at, WriteBlob(v))
  PROVE  ReadBlob(bytes, at, max) = Got(v, at + 6 + Len(v))
<1>1. Len(v) \in Limits
  <2>1. PICK n : n = Len(v)
    OBVIOUS
  <2>2. n \in Nat /\ max \in Nat /\ n <= max /\ max <= MaxInt32
    BY <2>1 DEF Limits
  <2>3. n <= MaxInt32
    BY <2>2, SMT DEF MaxInt32
  <2> QED BY <2>1, <2>2, <2>3 DEF Limits
<1>2. PICK w \in Seq(Byte) : w = Word(Len(v)) /\ Len(w) = 4 /\ w[4] < 128 /\ Number(w) = Len(v)
  <2>1. PICK n \in Limits : n = Len(v)
    BY <1>1
  <2> QED BY <2>1, WordNumber
<1>3. /\ Expected(bytes, at, "blob") /\ At(bytes, at + 1, WriteFixed("uint32", w))
      /\ At(bytes, at + 6, v)
  BY <1>1, <1>2, BlobWritten
<1>4. ReadFixed(bytes, at + 1, "uint32") = Got(w, at + 6)
  <2>1. at + 1 \in Nat /\ (at + 1) + 5 = at + 6
    OBVIOUS
  <2> QED BY <1>2, <1>3, <2>1, NumberWritten
<1>5. ReadRaw(bytes, at + 6, Number(w)) = Got(v, at + 6 + Len(v))
  BY <1>2, <1>3, ReadThere
<1>6. AtMost(w, max)
  BY <1>2 DEF AtMost
<1> QED BY <1>3, <1>4, <1>5, <1>6, ReadIs DEF ReadBlob

LEMMA BlobGives ==
  ASSUME NEW bytes \in Seq(Byte), NEW at \in Nat, NEW max \in Limits,
         ReadBlob(bytes, at, max).ok
  PROVE  \E v \in Seq(Byte) :
           /\ Len(v) <= max /\ At(bytes, at, WriteBlob(v))
           /\ ReadBlob(bytes, at, max) = Got(v, at + 6 + Len(v))
<1>1. PICK length : length = ReadFixed(bytes, at + 1, "uint32")
  OBVIOUS
<1>2. PICK read : read = ReadRaw(bytes, length.next, Number(length.value))
  OBVIOUS
<1>3. ReadBlob(bytes, at, max) =
        IF Expected(bytes, at, "blob") /\ length.ok /\ AtMost(length.value, max) /\ read.ok
        THEN read ELSE NoValue(at)
  BY <1>1, <1>2 DEF ReadBlob
<1>4. Expected(bytes, at, "blob") /\ length.ok /\ AtMost(length.value, max) /\ read.ok
  BY <1>3, ReadIs
<1>5. PICK w \in Seq(Byte) : /\ Len(w) = 4 /\ At(bytes, at + 1, WriteFixed("uint32", w))
                             /\ length = Got(w, at + 6)
  <2>1. at + 1 \in Nat /\ (at + 1) + 5 = at + 6
    OBVIOUS
  <2> QED BY <1>1, <1>4, <2>1, NumberGives
<1>6. PICK n : n = Number(w)
  OBVIOUS
<1>7. w[4] < 128 /\ n <= max
  BY <1>4, <1>5, <1>6, ReadIs DEF AtMost
<1>8. n \in Limits /\ n \in Nat /\ Word(n) = w
  BY <1>5, <1>6, <1>7, NumberWord DEF Limits
<1>9. length.next = at + 6 /\ at + 6 \in Nat
  BY <1>5, ReadIs
<1>10. PICK v \in Seq(Byte) : Len(v) = n /\ At(bytes, at + 6, v) /\ read = Got(v, at + 6 + n)
  <2>1. read = ReadRaw(bytes, at + 6, n)
    BY <1>2, <1>5, <1>6, <1>9, ReadIs
  <2> QED BY <1>4, <1>8, <1>9, <2>1, ReadGives
<1>11. At(bytes, at, WriteBlob(v))
  BY <1>4, <1>5, <1>8, <1>10, BlobWritten
<1> QED BY <1>3, <1>4, <1>7, <1>10, <1>11

-----------------------------------------------------------------------------
LEMMA StringWritten ==
  ASSUME NEW v \in Seq(1..255)
  PROVE  /\ v \in Seq(Byte) /\ WriteString(v) \in Seq(Byte) /\ Len(WriteString(v)) = 2 + Len(v)
         /\ \A bytes \in Seq(Byte), at \in Nat :
              At(bytes, at, WriteString(v)) <=>
                /\ Expected(bytes, at, "string") /\ At(bytes, at + 1, v)
                /\ at + 1 + Len(v) < Len(bytes) /\ bytes[at + 1 + Len(v) + 1] = 0
<1>1. v \in Seq(Byte)
  BY DEF Byte
<1>2. <<0>> \in Seq(Byte) /\ Len(<<0>>) = 1 /\ 0 \in Byte
  BY DEF Byte
<1>3. v \o <<0>> \in Seq(Byte) /\ Len(v \o <<0>>) = Len(v) + 1 /\ Len(v) \in Nat
  BY <1>1, <1>2, Joined
<1>4. PICK type \in FieldTypes : type = "string" /\ DataType[type] = DataType.string
  BY NamedTypes
<1>5. WriteString(v) = <<DataType[type]>> \o (v \o <<0>>)
  <2>1. <<DataType[type]>> \in Seq(Byte)
    BY TypeBytes, Single
  <2> QED BY <1>1, <1>2, <1>4, <2>1 DEF WriteString
<1>6. ASSUME NEW bytes \in Seq(Byte), NEW at \in Nat
      PROVE  At(bytes, at, WriteString(v)) <=>
               /\ Expected(bytes, at, "string") /\ At(bytes, at + 1, v)
               /\ at + 1 + Len(v) < Len(bytes) /\ bytes[at + 1 + Len(v) + 1] = 0
  <2>1. At(bytes, at, WriteString(v)) <=>
          Expected(bytes, at, "string") /\ At(bytes, at + 1, v \o <<0>>)
    <3>2. PICK s \in Seq(Byte) : s = v \o <<0>>
      BY <1>3
    <3>3. At(bytes, at, <<DataType[type]>> \o s) <=> Expected(bytes, at, type) /\ At(bytes, at + 1, s)
      BY AtTagged
    <3>4. WriteString(v) = <<DataType[type]>> \o s
      BY <1>5, <3>2
    <3>5. At(bytes, at, WriteString(v)) <=> Expected(bytes, at, type) /\ At(bytes, at + 1, s)
      BY <3>3, <3>4
    <3>6. Expected(bytes, at, type) <=> Expected(bytes, at, "string")
      BY <1>4
    <3> QED BY <3>2, <3>5, <3>6
  <2>2. At(bytes, at + 1, v \o <<0>>) <=> At(bytes, at + 1, v) /\ At(bytes, at + 1 + Len(v), <<0>>)
    <3>1. PICK zero : zero = <<0>>
      OBVIOUS
    <3>2. zero \in Seq(Byte) /\ at + 1 \in Nat
      BY <1>2, <3>1
    <3>3. At(bytes, at + 1, v \o zero) <=> At(bytes, at + 1, v) /\ At(bytes, at + 1 + Len(v), zero)
      BY <1>1, <3>2, AtConcat
    <3> QED BY <3>1, <3>3
  <2>3. At(bytes, at + 1 + Len(v), <<0>>) <=>
          at + 1 + Len(v) < Len(bytes) /\ bytes[at + 1 + Len(v) + 1] = 0
    <3>1. at + 1 + Len(v) \in Nat
      BY <1>3
    <3> QED BY <1>2, <3>1, AtOne
  <2> QED BY <2>1, <2>2, <2>3
<1>7. WriteString(v) \in Seq(Byte) /\ Len(WriteString(v)) = 2 + Len(v)
  <2>1. PICK s \in Seq(Byte) : s = v \o <<0>> /\ Len(s) = Len(v) + 1
    BY <1>3
  <2> QED BY <1>3, <1>5, <2>1, Tagged1
<1> QED BY <1>1, <1>6, <1>7

-----------------------------------------------------------------------------
(* Strings, and fields of any type                                         *)

\* What follows the tag of a string, and where the first zero in it is.
LEMMA RestIs ==
  ASSUME NEW bytes \in Seq(Byte), NEW at \in Nat, at < Len(bytes)
  PROVE  LET rest == SubSeq(bytes, at + 2, Len(bytes))
         IN  /\ rest \in Seq(Byte) /\ Len(rest) = Len(bytes) - (at + 1)
             /\ \A i \in 1..Len(rest) : rest[i] = bytes[at + 1 + i]
<1>1. PICK n, start : n = Len(bytes) - (at + 1) /\ start = at + 1
  OBVIOUS
<1>2. Len(bytes) \in Nat
  OBVIOUS
<1>3. /\ start \in Nat /\ n \in Nat /\ start + n <= Len(bytes)
      /\ start + 1 = at + 2 /\ start + n = Len(bytes)
  BY <1>1, <1>2
<1>4. PICK rest : rest = SubSeq(bytes, start + 1, start + n)
  OBVIOUS
<1>5. rest \in Seq(Byte) /\ Len(rest) = n /\ At(bytes, start, rest)
  BY <1>3, <1>4, Part
<1>6. \A i \in 1..Len(rest) : rest[i] = bytes[at + 1 + i]
  BY <1>1, <1>5 DEF At
<1> QED BY <1>1, <1>3, <1>4, <1>5, <1>6

FirstZero(rest, end) ==
  /\ end \in 1..Len(rest) /\ rest[end] = 0
  /\ \A i \in 1..Len(rest) : rest[i] = 0 => end <= i

StringEnds(bytes, at, max, rest, end) ==
  /\ FirstZero(rest, end) /\ Expected(bytes, at, "string") /\ end - 1 <= max
  /\ ReadString(bytes, at, max) = Got(SubSeq(rest, 1, end - 1), at + 1 + end)

LEMMA StringRead ==
  ASSUME NEW bytes \in Seq(Byte), NEW at \in Nat, NEW max \in Nat,
         NEW rest \in Seq(Byte), rest = SubSeq(bytes, at + 2, Len(bytes))
  PROVE  /\ \A end : FirstZero(rest, end) /\ Expected(bytes, at, "string") /\ end - 1 <= max =>
              StringEnds(bytes, at, max, rest, end)
         /\ ReadString(bytes, at, max).ok => \E end : StringEnds(bytes, at, max, rest, end)
<1> DEFINE nuls == {i \in DOMAIN rest : rest[i] = 0}
           first == CHOOSE i \in nuls : \A j \in nuls : i <= j
<1>1. nuls = {i \in 1..Len(rest) : rest[i] = 0} /\ Len(rest) \in Nat
  OBVIOUS
<1>2. ReadString(bytes, at, max) =
        IF Expected(bytes, at, "string") /\ nuls # {} /\ first - 1 <= max
        THEN Got(SubSeq(rest, 1, first - 1), at + 1 + first) ELSE NoValue(at)
  BY DEF ReadString, Got
<1>3. ASSUME nuls # {} PROVE first \in nuls /\ \A j \in nuls : first <= j
  <2>1. nuls \in SUBSET Nat
    BY <1>1
  <2>2. \E i \in nuls : \A j \in nuls : i <= j
    BY <1>3, <2>1, LeastNumber
  <2> HIDE DEF nuls
  <2> QED BY <2>2
<1> HIDE DEF first, nuls
<1>4. ASSUME nuls # {} PROVE FirstZero(rest, first)
  BY <1>1, <1>3, <1>4 DEF FirstZero
<1>5. ASSUME NEW end, FirstZero(rest, end) PROVE nuls # {} /\ first = end
  <2>1. end \in nuls
    BY <1>1, <1>5 DEF FirstZero
  <2>2. nuls # {}
    BY <2>1
  <2>3. FirstZero(rest, first)
    BY <1>4, <2>2
  <2>4. end \in Nat /\ first \in Nat /\ end <= first /\ first <= end
    BY <1>1, <1>5, <2>3 DEF FirstZero
  <2> QED BY <2>2, <2>4
<1>6. ASSUME NEW end, FirstZero(rest, end), Expected(bytes, at, "string"), end - 1 <= max
      PROVE  StringEnds(bytes, at, max, rest, end)
  BY <1>2, <1>5, <1>6 DEF StringEnds
<1>7. ASSUME ReadString(bytes, at, max).ok
      PROVE  StringEnds(bytes, at, max, rest, first)
  <2>1. Expected(bytes, at, "string") /\ nuls # {} /\ first - 1 <= max
    BY <1>2, <1>7, ReadIs
  <2> QED BY <1>2, <1>4, <2>1 DEF StringEnds
<1> QED BY <1>6, <1>7

LEMMA StringThere ==
  ASSUME NEW bytes \in Seq(Byte), NEW at \in Nat, NEW max \in Nat,
         NEW v \in Seq(1..255), Len(v) <= max, At(bytes, at, WriteString(v))
  PROVE  ReadString(bytes, at, max) = Got(v, at + 2 + Len(v))
<1>1. /\ Expected(bytes, at, "string") /\ At(bytes, at + 1, v) /\ v \in Seq(Byte)
      /\ at + 1 + Len(v) < Len(bytes) /\ bytes[at + 1 + Len(v) + 1] = 0
  BY StringWritten
<1>2. Len(v) \in Nat /\ Len(bytes) \in Nat /\ at < Len(bytes)
  BY <1>1
<1>3. PICK rest \in Seq(Byte) : /\ rest = SubSeq(bytes, at + 2, Len(bytes))
                                /\ Len(rest) = Len(bytes) - (at + 1)
                                /\ \A i \in 1..Len(rest) : rest[i] = bytes[at + 1 + i]
  BY <1>2, RestIs
<1>4. PICK end \in Nat : end = Len(v) + 1
  BY <1>2
<1>5. end \in 1..Len(rest) /\ rest[end] = 0
  <2>1. end \in 1..Len(rest) /\ at + 1 + end = at + 1 + Len(v) + 1
    BY <1>1, <1>2, <1>3, <1>4
  <2> QED BY <1>1, <1>3, <2>1
<1>6. \A i \in 1..Len(v) : i \in 1..Len(rest) /\ rest[i] = v[i] /\ v[i] # 0
  <2>1. \A i \in 1..Len(v) : bytes[at + 1 + i] = v[i]
    <3>1. PICK start : start = at + 1
      OBVIOUS
    <3>2. \A i \in 1..Len(v) : bytes[start + i] = v[i]
      BY <1>1, <3>1 DEF At
    <3> QED BY <3>1, <3>2
  <2>2. \A i \in 1..Len(v) : v[i] \in 1..255
    BY ElementOfSeq
  <2>3. \A i \in 1..Len(v) : v[i] # 0
    <3>1. \A x \in 1..255 : x # 0
      OBVIOUS
    <3> QED BY <2>2, <3>1
  <2>4. \A i \in 1..Len(v) : i \in 1..Len(rest)
    BY <1>2, <1>4, <1>5
  <2>5. \A i \in 1..Len(v) : rest[i] = v[i]
    BY <1>3, <2>1, <2>4
  <2> QED BY <2>3, <2>4, <2>5
<1>7. FirstZero(rest, end)
  <2>1. \A i \in 1..Len(rest) : rest[i] = 0 => end <= i
    BY <1>2, <1>4, <1>6
  <2> QED BY <1>5, <2>1 DEF FirstZero
<1>8. SubSeq(rest, 1, end - 1) = v
  <2>1. At(rest, 0, v)
    <3>1. 0 + Len(v) <= Len(rest) /\ \A i \in 1..Len(v) : 0 + i = i
      BY <1>2, <1>3, <1>4, <1>5
    <3> QED BY <1>6, <3>1 DEF At
  <2>2. SubSeq(rest, 0 + 1, 0 + Len(v)) = v
    BY <1>1, <2>1, PartThere
  <2>3. 0 + 1 = 1 /\ 0 + Len(v) = end - 1
    BY <1>2, <1>4
  <2> QED BY <2>2, <2>3
<1>9. end - 1 <= max /\ at + 1 + end = at + 2 + Len(v)
  BY <1>2, <1>4
<1>10. ReadString(bytes, at, max) = Got(SubSeq(rest, 1, end - 1), at + 1 + end)
  <2>1. StringEnds(bytes, at, max, rest, end)
    BY <1>1, <1>3, <1>7, <1>9, StringRead
  <2> QED BY <2>1 DEF StringEnds
<1> QED BY <1>8, <1>9, <1>10

LEMMA StringGives ==
  ASSUME NEW bytes \in Seq(Byte), NEW at \in Nat, NEW max \in Nat, ReadString(bytes, at, max).ok
  PROVE  \E v \in Seq(1..255) :
           /\ Len(v) <= max /\ At(bytes, at, WriteString(v))
           /\ ReadString(bytes, at, max) = Got(v, at + 2 + Len(v))
<1>1. Expected(bytes, at, "string") /\ at < Len(bytes)
  BY ReadIs DEF ReadString, Expected
<1>2. PICK rest \in Seq(Byte) : /\ rest = SubSeq(bytes, at + 2, Len(bytes))
                                /\ Len(rest) = Len(bytes) - (at + 1)
                                /\ \A i \in 1..Len(rest) : rest[i] = bytes[at + 1 + i]
  BY <1>1, RestIs
<1>3. PICK end : /\ FirstZero(rest, end) /\ end - 1 <= max
                 /\ ReadString(bytes, at, max) = Got(SubSeq(rest, 1, end - 1), at + 1 + end)
  <2>1. \E end : StringEnds(bytes, at, max, rest, end)
    BY <1>2, StringRead
  <2> QED BY <2>1 DEF StringEnds
<1>4. /\ end \in 1..Len(rest) /\ rest[end] = 0 /\ Len(rest) \in Nat /\ Len(bytes) \in Nat
      /\ \A i \in 1..Len(rest) : rest[i] = 0 => end <= i
  <2>1. Len(rest) \in Nat /\ Len(bytes) \in Nat
    OBVIOUS
  <2> QED BY <1>3, <2>1 DEF FirstZero
<1>5. PICK n \in Nat : n = end - 1
  BY <1>4
<1>6. PICK v \in Seq(Byte) : v = SubSeq(rest, 1, n) /\ Len(v) = n /\ At(rest, 0, v)
  <2>1. 0 + n <= Len(rest) /\ 0 + 1 = 1 /\ 0 + n = n
    BY <1>4, <1>5
  <2>2. PICK part : part = SubSeq(rest, 0 + 1, 0 + n)
    OBVIOUS
  <2>3. part \in Seq(Byte) /\ Len(part) = n /\ At(rest, 0, part)
    BY <2>1, <2>2, Part
  <2> QED BY <2>1, <2>2, <2>3
<1>7. \A i \in 1..n : v[i] = rest[i] /\ i \in 1..Len(rest) /\ v[i] \in Byte /\ v[i] # 0
  <2>1. \A i \in 1..n : 0 + i = i /\ i \in 1..Len(rest) /\ ~ (end <= i)
    BY <1>4, <1>5
  <2>2. \A i \in 1..n : v[i] = rest[i]
    BY <1>6, <2>1 DEF At
  <2>3. \A i \in 1..n : v[i] \in Byte
    BY <1>6
  <2> QED BY <1>4, <2>1, <2>2, <2>3
<1>8. v \in Seq(1..255)
  <2>1. \A i \in 1..n : v[i] \in 1..255
    BY <1>7 DEF Byte
  <2> QED BY <1>6, <2>1
<1>9. At(bytes, at, WriteString(v))
  <2>1. At(bytes, at + 1, v)
    <3>1. (at + 1) + Len(v) <= Len(bytes)
      BY <1>2, <1>4, <1>5, <1>6
    <3>2. \A i \in 1..Len(v) : bytes[(at + 1) + i] = v[i]
      BY <1>2, <1>6, <1>7
    <3> QED BY <3>1, <3>2 DEF At
  <2>2. at + 1 + Len(v) < Len(bytes) /\ at + 1 + Len(v) + 1 = at + 1 + end
    BY <1>2, <1>4, <1>5, <1>6
  <2>3. bytes[at + 1 + end] = 0
    BY <1>2, <1>4
  <2> QED BY <1>1, <1>8, <2>1, <2>2, <2>3, StringWritten
<1>10. at + 1 + end = at + 2 + Len(v) /\ Len(v) <= max
  BY <1>3, <1>4, <1>5, <1>6
<1>11. ReadString(bytes, at, max) = Got(v, at + 2 + Len(v))
  BY <1>3, <1>5, <1>6, <1>10
<1> QED BY <1>8, <1>9, <1>10, <1>11

-----------------------------------------------------------------------------
LEMMA FieldWritten ==
  ASSUME NEW field \in LobbyField, NEW v, Fits(field, v)
  PROVE  v \in Seq(Byte) /\ WriteField(field, v) \in Seq(Byte)
<1>1. CASE field.type = "string"
  BY <1>1, StringWritten DEF Fits, WriteField
<1>2. CASE field.type = "blob"
  <2>1. v \in Seq(Byte) /\ Len(v) <= field.max
    BY <1>2 DEF Fits
  <2>2. PICK n : n = Len(v)
    OBVIOUS
  <2>3. n \in Nat /\ field.max \in Nat /\ n <= field.max /\ field.max <= MaxInt32
    BY <2>1, <2>2 DEF LobbyField, Limits
  <2>4. n <= MaxInt32
    BY <2>3, SMT DEF MaxInt32
  <2>5. Len(v) \in Limits
    BY <2>2, <2>3, <2>4 DEF Limits
  <2> QED BY <1>2, <2>1, <2>5, BlobWritten DEF WriteField
<1>3. CASE field.type # "string" /\ field.type # "blob"
  <2>1. PICK type \in FixedTypes : type = field.type
    BY <1>3 DEF LobbyField, FieldTypes, FixedTypes
  <2>2. v \in Seq(Byte) /\ Len(v) = Size[type]
    BY <1>3, <2>1 DEF Fits
  <2>3. WriteFixed(type, v) \in Seq(Byte)
    BY <2>2, FixedWritten
  <2> QED BY <1>3, <2>1, <2>2, <2>3 DEF WriteField
<1> QED BY <1>1, <1>2, <1>3

LEMMA FieldThere ==
  ASSUME NEW field \in LobbyField, NEW v, Fits(field, v), NEW bytes \in Seq(Byte), NEW at \in Nat,
         At(bytes, at, WriteField(field, v))
  PROVE  ReadField(bytes, at, field) = Got(v, at + Len(WriteField(field, v)))
<1>0. field.max \in Limits /\ field.max \in Nat
  BY DEF LobbyField, Limits
<1>1. CASE field.type = "string"
  <2>1. v \in Seq(1..255) /\ Len(v) <= field.max /\ Len(v) \in Nat
    BY <1>1 DEF Fits
  <2>2. WriteField(field, v) = WriteString(v) /\ ReadField(bytes, at, field) = ReadString(bytes, at, field.max)
    BY <1>1 DEF WriteField, ReadField
  <2>3. ReadString(bytes, at, field.max) = Got(v, at + 2 + Len(v))
    BY <1>0, <2>1, <2>2, StringThere
  <2>4. Len(WriteString(v)) = 2 + Len(v)
    BY <2>1, StringWritten
  <2>5. at + 2 + Len(v) = at + (2 + Len(v))
    BY <2>1
  <2> QED BY <2>2, <2>3, <2>4, <2>5
<1>2. CASE field.type = "blob"
  <2>1. v \in Seq(Byte) /\ Len(v) <= field.max /\ Len(v) \in Nat
    BY <1>2 DEF Fits
  <2>2. WriteField(field, v) = WriteBlob(v) /\ ReadField(bytes, at, field) = ReadBlob(bytes, at, field.max)
    BY <1>2 DEF WriteField, ReadField
  <2>3. ReadBlob(bytes, at, field.max) = Got(v, at + 6 + Len(v))
    BY <1>0, <2>1, <2>2, BlobThere
  <2>4. Len(v) \in Limits
    <3>1. PICK n : n = Len(v)
      OBVIOUS
    <3>2. n \in Nat /\ field.max \in Nat /\ n <= field.max /\ field.max <= MaxInt32
      BY <1>0, <2>1, <3>1 DEF Limits
    <3>3. n <= MaxInt32
      BY <3>2, SMT DEF MaxInt32
    <3> QED BY <3>1, <3>2, <3>3 DEF Limits
  <2>5. Len(WriteBlob(v)) = 6 + Len(v)
    BY <2>1, <2>4, BlobWritten
  <2>6. at + 6 + Len(v) = at + (6 + Len(v))
    BY <2>1
  <2> QED BY <2>2, <2>3, <2>5, <2>6
<1>3. CASE field.type # "string" /\ field.type # "blob"
  <2>1. PICK type \in FixedTypes : type = field.type
    BY <1>3 DEF LobbyField, FieldTypes, FixedTypes
  <2>2. v \in Seq(Byte) /\ Len(v) = Size[type]
    BY <1>3, <2>1 DEF Fits
  <2>3. WriteField(field, v) = WriteFixed(type, v) /\ ReadField(bytes, at, field) = ReadFixed(bytes, at, type)
    BY <1>3, <2>1 DEF WriteField, ReadField
  <2>4. ReadFixed(bytes, at, type) = Got(v, at + 1 + Size[type])
    BY <2>2, <2>3, FixedThere
  <2>5. Len(WriteFixed(type, v)) = 1 + Size[type] /\ Size[type] \in Nat
    BY <2>2, FixedWritten, TypeBytes
  <2>6. at + 1 + Size[type] = at + (1 + Size[type])
    BY <2>5
  <2> QED BY <2>3, <2>4, <2>5, <2>6
<1> QED BY <1>1, <1>2, <1>3

LEMMA FieldGives ==
  ASSUME NEW field \in LobbyField, NEW bytes \in Seq(Byte), NEW at \in Nat,
         ReadField(bytes, at, field).ok
  PROVE  \E v \in Seq(Byte) :
           /\ Fits(field, v) /\ At(bytes, at, WriteField(field, v))
           /\ ReadField(bytes, at, field) = Got(v, at + Len(WriteField(field, v)))
<1>0. field.max \in Limits /\ field.max \in Nat
  BY DEF LobbyField, Limits
<1>1. \E v \in Seq(Byte) : Fits(field, v) /\ At(bytes, at, WriteField(field, v))
  <2>1. CASE field.type = "string"
    <3>1. PICK v \in Seq(1..255) : Len(v) <= field.max /\ At(bytes, at, WriteString(v))
      BY <1>0, <2>1, StringGives DEF ReadField
    <3>2. v \in Seq(Byte)
      BY StringWritten
    <3> QED BY <2>1, <3>1, <3>2 DEF Fits, WriteField
  <2>2. CASE field.type = "blob"
    <3>1. PICK v \in Seq(Byte) : Len(v) <= field.max /\ At(bytes, at, WriteBlob(v))
      BY <1>0, <2>2, BlobGives DEF ReadField
    <3> QED BY <2>2, <3>1 DEF Fits, WriteField
  <2>3. CASE field.type # "string" /\ field.type # "blob"
    <3>1. PICK type \in FixedTypes : type = field.type
      BY <2>3 DEF LobbyField, FieldTypes, FixedTypes
    <3>2. PICK v \in Seq(Byte) : Len(v) = Size[type] /\ At(bytes, at, WriteFixed(type, v))
      BY <2>3, <3>1, FixedGives DEF ReadField
    <3> QED BY <2>3, <3>1, <3>2 DEF Fits, WriteField
  <2> QED BY <2>1, <2>2, <2>3
<1> QED BY <1>1, FieldThere

-----------------------------------------------------------------------------
(* Fields that follow one another                                          *)

\* put[i] is what the first i fields are written as.
Laid(fields, values, put) ==
  /\ put \in [0..Len(fields) -> Seq(Byte)]
  /\ put[0] = <<>>
  /\ \A i \in 1..Len(fields) : put[i] = put[i - 1] \o WriteField(fields[i], values[i])

JoinOf(seqs, k, join) ==
  join = [i \in 1..k |-> IF i = 1 THEN seqs[i] ELSE join[i-1] \o seqs[i]]

\* The recursion by which FlattenSeq is defined has a solution.
LEMMA JoinExists ==
  ASSUME NEW seqs, NEW n \in Nat \ {0}
  PROVE  \E join : JoinOf(seqs, n, join)
<1> DEFINE T == {k \in Nat \ {0} : ~ \E join : JoinOf(seqs, k, join)}
<1>1. SUFFICES ASSUME T # {} PROVE FALSE
  OBVIOUS
<1>2. PICK k \in T : \A m \in T : k <= m
  <2>1. T \in SUBSET Nat
    OBVIOUS
  <2> HIDE DEF T
  <2> QED BY <1>1, <2>1, LeastNumber
<1>3. k \in Nat \ {0} /\ ~ \E join : JoinOf(seqs, k, join)
  OBVIOUS
<1>4. CASE k = 1
  <2> DEFINE join == [i \in 1..1 |-> seqs[i]]
  <2>1. \A i \in 1..1 : i = 1
    OBVIOUS
  <2>2. join = [i \in 1..1 |-> IF i = 1 THEN seqs[i] ELSE join[i-1] \o seqs[i]]
    BY <2>1, Zenon
  <2> QED BY <1>3, <1>4, <2>2 DEF JoinOf
<1>5. CASE k # 1
  <2>1. k - 1 \in Nat \ {0} /\ k - 1 < k
    BY <1>3, <1>5
  <2>2. PICK less : JoinOf(seqs, k - 1, less)
    BY <1>2, <1>3, <2>1
  <2> DEFINE join == [i \in 1..k |-> IF i = k THEN less[k - 1] \o seqs[k] ELSE less[i]]
  <2>3. ASSUME NEW i \in 1..k
        PROVE  (IF i = k THEN less[k - 1] \o seqs[k] ELSE less[i])
                 = IF i = 1 THEN seqs[i] ELSE join[i-1] \o seqs[i]
    <3>1. CASE i = 1
      <4>1. i # k /\ i \in 1..k - 1
        BY <1>3, <1>5, <3>1
      <4> QED BY <2>2, <3>1, <4>1 DEF JoinOf
    <3>2. CASE i # 1
      <4>1. i - 1 \in 1..k /\ i - 1 # k
        BY <1>3, <3>2
      <4>2. join[i - 1] = less[i - 1]
        BY <4>1
      <4>3. i # k => i \in 1..k - 1
        BY <1>3
      <4>4. i # k => less[i] = less[i - 1] \o seqs[i]
        BY <2>2, <3>2, <4>3 DEF JoinOf
      <4> QED BY <3>2, <4>2, <4>4
    <3> QED BY <3>1, <3>2
  <2>4. join = [i \in 1..k |-> IF i = 1 THEN seqs[i] ELSE join[i-1] \o seqs[i]]
    BY <2>3, Zenon
  <2> QED BY <1>3, <2>4 DEF JoinOf
<1> QED BY <1>4, <1>5

LEMMA FlattenIs ==
  ASSUME NEW n \in Nat, NEW seqs, DOMAIN seqs = 1..n, Len(seqs) = n
  PROVE  /\ n = 0 => FlattenSeq(seqs) = seqs
         /\ n # 0 => \E join : JoinOf(seqs, n, join) /\ FlattenSeq(seqs) = join[n]
<1>1. n = 0 => FlattenSeq(seqs) = seqs
  BY DEF FlattenSeq
<1>2. ASSUME n # 0 PROVE \E join : JoinOf(seqs, n, join) /\ FlattenSeq(seqs) = join[n]
  <2> DEFINE flatten == CHOOSE join : JoinOf(seqs, n, join)
  <2>1. JoinOf(seqs, n, flatten)
    BY <1>2, JoinExists
  <2>2. FlattenSeq(seqs) = flatten[n]
    BY <1>2 DEF FlattenSeq, JoinOf
  <2> QED BY <2>1, <2>2
<1> QED BY <1>1, <1>2

\* put[i] is the first i sequences, one behind the other.
Piled(seqs, put) ==
  /\ put \in [0..Len(seqs) -> Seq(Byte)]
  /\ put[0] = <<>>
  /\ \A i \in 1..Len(seqs) : put[i] = put[i - 1] \o seqs[i]

LEMMA PiledExists ==
  ASSUME NEW seqs \in Seq(Seq(Byte))
  PROVE  \E put : Piled(seqs, put) /\ FlattenSeq(seqs) = put[Len(seqs)]
<1> DEFINE n == Len(seqs)
<1>1. n \in Nat /\ DOMAIN seqs = 1..n /\ Len(seqs) = n
  OBVIOUS
<1>2. \A i \in 1..n : seqs[i] \in Seq(Byte)
  OBVIOUS
<1> HIDE DEF n
<1>3. CASE n = 0
  <2> DEFINE put == [i \in 0..0 |-> <<>>]
  <2>1. seqs = <<>>
    BY <1>1, <1>3
  <2>2. FlattenSeq(seqs) = <<>>
    BY <1>1, <1>3, <2>1, FlattenIs
  <2>3. put \in [0..0 -> Seq(Byte)] /\ put[0] = <<>>
    OBVIOUS
  <2> HIDE DEF put
  <2>4. ~ \E i \in 1..0 : TRUE
    OBVIOUS
  <2>5. Piled(seqs, put)
    BY <1>3, <2>3, <2>4 DEF Piled, n
  <2> QED BY <1>3, <2>2, <2>3, <2>5 DEF n
<1>4. CASE n # 0
  <2>1. PICK join : JoinOf(seqs, n, join) /\ FlattenSeq(seqs) = join[n]
    BY <1>1, <1>4, FlattenIs
  <2> DEFINE put == [i \in 0..n |-> IF i = 0 THEN <<>> ELSE join[i]]
  <2>2. \A i \in 1..n : join[i] = IF i = 1 THEN seqs[i] ELSE join[i-1] \o seqs[i]
    BY <2>1, Zenon DEF JoinOf
  <2>3. put[0] = <<>> /\ put[n] = join[n] /\ \A i \in 1..n : put[i] = join[i]
    BY <1>1, <1>4
  <2>4. ASSUME NEW i \in 1..n PROVE put[i] = put[i - 1] \o seqs[i]
    <3>1. CASE i = 1
      <4>1. <<>> \o seqs[1] = seqs[1] /\ i - 1 = 0
        BY <1>2, <3>1
      <4> QED BY <2>2, <2>3, <3>1, <4>1
    <3>2. CASE i # 1
      <4>1. i - 1 \in 1..n
        BY <1>1, <3>2
      <4> QED BY <2>2, <2>3, <3>2, <4>1
    <3> QED BY <3>1, <3>2
  <2>5. DOMAIN put = 0..n /\ put = [i \in 0..n |-> put[i]]
    OBVIOUS
  <2> HIDE DEF put
  <2>6. \A i \in 0..n : put[i] \in Seq(Byte)
    <3> DEFINE T == {i \in 0..n : put[i] \notin Seq(Byte)}
    <3>1. SUFFICES ASSUME T # {} PROVE FALSE
      OBVIOUS
    <3>2. PICK k \in T : \A m \in T : k <= m
      <4>1. T \in SUBSET Nat
        OBVIOUS
      <4> HIDE DEF T
      <4> QED BY <3>1, <4>1, LeastNumber
    <3>3. k # 0 /\ k \in 0..n
      <4>1. k \in 0..n /\ put[k] \notin Seq(Byte) /\ <<>> \in Seq(Byte)
        OBVIOUS
      <4> QED BY <2>3, <4>1
    <3>4. k \in 1..n /\ k - 1 \in 0..n /\ ~ (k <= k - 1)
      BY <1>1, <3>3
    <3>5. put[k - 1] \in Seq(Byte)
      BY <3>2, <3>4
    <3>6. put[k] \in Seq(Byte)
      <4>1. seqs[k] \in Seq(Byte) /\ put[k] = put[k - 1] \o seqs[k]
        BY <1>2, <2>4, <3>4
      <4> QED BY <3>5, <4>1, Joined
    <3> QED BY <3>6
  <2>7. put \in [0..n -> Seq(Byte)]
    BY <2>5, <2>6
  <2>8. Piled(seqs, put)
    BY <2>3, <2>4, <2>7 DEF Piled, n
  <2> QED BY <2>1, <2>3, <2>8 DEF n
<1> QED BY <1>3, <1>4

LEMMA LaidExists ==
  ASSUME NEW fields \in Seq(LobbyField), NEW values,
         \A i \in 1..Len(fields) : Fits(fields[i], values[i])
  PROVE  \E put : Laid(fields, values, put) /\ WriteFields(fields, values) = put[Len(fields)]
<1>1. PICK n \in Nat : n = Len(fields) /\ DOMAIN fields = 1..n
  OBVIOUS
<1>2. PICK seqs : seqs = [i \in 1..n |-> WriteField(fields[i], values[i])]
  OBVIOUS
<1>3. \A i \in 1..n : seqs[i] = WriteField(fields[i], values[i]) /\ seqs[i] \in Seq(Byte)
  <2>1. \A i \in 1..n : fields[i] \in LobbyField
    BY <1>1
  <2> QED BY <1>1, <1>2, <2>1, FieldWritten
<1>4. seqs \in Seq(Seq(Byte)) /\ Len(seqs) = n
  <2>1. seqs \in [1..n -> Seq(Byte)]
    BY <1>2, <1>3
  <2> QED BY <2>1, FunctionIsSeq
<1>5. WriteFields(fields, values) = FlattenSeq(seqs)
  BY <1>1, <1>2 DEF WriteFields
<1>6. PICK put : Piled(seqs, put) /\ FlattenSeq(seqs) = put[Len(seqs)]
  BY <1>4, PiledExists
<1>7. Laid(fields, values, put)
  BY <1>1, <1>3, <1>4, <1>6 DEF Piled, Laid
<1> QED BY <1>1, <1>4, <1>5, <1>6, <1>7

\* Where sequences stand, each of them stands behind those before it.
LEMMA PiledThere ==
  ASSUME NEW seqs \in Seq(Seq(Byte)), NEW put, Piled(seqs, put),
         NEW bytes \in Seq(Byte), NEW at \in Nat, At(bytes, at, put[Len(seqs)])
  PROVE  /\ \A i \in 0..Len(seqs) : At(bytes, at, put[i])
         /\ \A i \in 1..Len(seqs) : At(bytes, at + Len(put[i - 1]), seqs[i])
<1> DEFINE n == Len(seqs)
<1>1. n \in Nat
  OBVIOUS
<1>2. ASSUME NEW i \in 1..n
      PROVE  At(bytes, at, put[i]) <=>
               At(bytes, at, put[i - 1]) /\ At(bytes, at + Len(put[i - 1]), seqs[i])
  <2>1. i - 1 \in 0..n
    BY <1>1
  <2>2. PICK before \in Seq(Byte) : before = put[i - 1]
    BY <2>1 DEF Piled
  <2>3. PICK this \in Seq(Byte) : this = seqs[i]
    OBVIOUS
  <2>4. put[i] = before \o this
    BY <2>2, <2>3 DEF Piled
  <2>5. At(bytes, at, before \o this) <=> At(bytes, at, before) /\ At(bytes, at + Len(before), this)
    BY AtConcat
  <2> QED BY <2>2, <2>3, <2>4, <2>5
<1> DEFINE T == {k \in Nat : k <= n /\ ~At(bytes, at, put[n - k])}
<1>3. T = {}
  <2>1. SUFFICES ASSUME T # {} PROVE FALSE
    OBVIOUS
  <2>2. PICK k \in T : \A m \in T : k <= m
    <3>1. T \in SUBSET Nat
      OBVIOUS
    <3> HIDE DEF T
    <3> QED BY <2>1, <3>1, LeastNumber
  <2>3. k \in Nat /\ k <= n /\ ~At(bytes, at, put[n - k]) /\ k # 0
    BY <1>1
  <2>4. k - 1 \in Nat /\ k - 1 <= n /\ ~(k <= k - 1)
    BY <1>1, <2>3
  <2>5. At(bytes, at, put[n - (k - 1)])
    BY <2>2, <2>4
  <2>6. n - (k - 1) \in 1..n /\ (n - (k - 1)) - 1 = n - k
    BY <1>1, <2>3
  <2>7. At(bytes, at, put[n - k])
    BY <1>2, <2>5, <2>6
  <2> QED BY <2>3, <2>7
<1>4. \A i \in 0..n : At(bytes, at, put[i])
  <2> SUFFICES ASSUME NEW i \in 0..n PROVE At(bytes, at, put[i])
    OBVIOUS
  <2>1. n - i \in Nat /\ n - i <= n /\ n - (n - i) = i
    BY <1>1
  <2>2. n - i \notin T
    BY <1>3
  <2> QED BY <2>1, <2>2
<1>5. \A i \in 1..n : At(bytes, at + Len(put[i - 1]), seqs[i])
  <2>1. \A i \in 1..n : i \in 0..n
    BY <1>1
  <2> QED BY <1>2, <1>4, <2>1
<1> QED BY <1>4, <1>5

\* So do fields.
LEMMA EachThere ==
  ASSUME NEW fields \in Seq(LobbyField), NEW values, NEW put, Laid(fields, values, put),
         \A i \in 1..Len(fields) : Fits(fields[i], values[i]),
         NEW bytes \in Seq(Byte), NEW at \in Nat, At(bytes, at, put[Len(fields)])
  PROVE  /\ \A i \in 0..Len(fields) : At(bytes, at, put[i])
         /\ \A i \in 1..Len(fields) : At(bytes, at + Len(put[i - 1]), WriteField(fields[i], values[i]))
<1>1. PICK n \in Nat : n = Len(fields) /\ DOMAIN fields = 1..n
  OBVIOUS
<1>2. PICK seqs : seqs = [i \in 1..n |-> WriteField(fields[i], values[i])]
  OBVIOUS
<1>3. \A i \in 1..n : seqs[i] = WriteField(fields[i], values[i]) /\ seqs[i] \in Seq(Byte)
  <2>1. \A i \in 1..n : fields[i] \in LobbyField
    BY <1>1
  <2> QED BY <1>1, <1>2, <2>1, FieldWritten
<1>4. seqs \in Seq(Seq(Byte)) /\ Len(seqs) = n
  <2>1. seqs \in [1..n -> Seq(Byte)]
    BY <1>2, <1>3
  <2> QED BY <2>1, FunctionIsSeq
<1>5. Piled(seqs, put)
  BY <1>1, <1>3, <1>4 DEF Piled, Laid
<1>6. At(bytes, at, put[Len(seqs)])
  BY <1>1, <1>4
<1>7. /\ \A i \in 0..Len(seqs) : At(bytes, at, put[i])
      /\ \A i \in 1..Len(seqs) : At(bytes, at + Len(put[i - 1]), seqs[i])
  BY <1>4, <1>5, <1>6, PiledThere
<1> QED BY <1>1, <1>3, <1>4, <1>7

-----------------------------------------------------------------------------
(* Reading them                                                            *)

NextRead(bytes, field, soFar) ==
  LET this == ReadField(bytes, soFar.next, field)
  IN  IF ~soFar.ok THEN soFar
      ELSE [ok |-> this.ok, value |-> Append(soFar.value, this.value), next |-> this.next]

\* read[i] is what reading the first i fields gives
ReadsOf(bytes, at, fields, k, read) ==
  read = [i \in 0..k |-> IF i = 0 THEN Got(<<>>, at)
                         ELSE NextRead(bytes, fields[i], read[i - 1])]

LEMMA ReadsExist ==
  ASSUME NEW bytes, NEW at, NEW fields, NEW n \in Nat
  PROVE  \E read : ReadsOf(bytes, at, fields, n, read)
<1> DEFINE T == {k \in Nat : ~ \E read : ReadsOf(bytes, at, fields, k, read)}
<1>1. SUFFICES ASSUME T # {} PROVE FALSE
  OBVIOUS
<1>2. PICK k \in T : \A m \in T : k <= m
  <2>1. T \in SUBSET Nat
    OBVIOUS
  <2> HIDE DEF T
  <2> QED BY <1>1, <2>1, LeastNumber
<1>3. k \in Nat /\ ~ \E read : ReadsOf(bytes, at, fields, k, read)
  OBVIOUS
<1>4. CASE k = 0
  <2> DEFINE read == [i \in 0..0 |-> Got(<<>>, at)]
  <2>1. \A i \in 0..0 : i = 0
    OBVIOUS
  <2>2. read = [i \in 0..0 |-> IF i = 0 THEN Got(<<>>, at) ELSE NextRead(bytes, fields[i], read[i - 1])]
    BY <2>1, Zenon
  <2> QED BY <1>3, <1>4, <2>2 DEF ReadsOf
<1>5. CASE k # 0
  <2>1. k - 1 \in Nat /\ ~ (k <= k - 1)
    BY <1>3, <1>5
  <2>2. PICK less : ReadsOf(bytes, at, fields, k - 1, less)
    BY <1>2, <1>3, <2>1
  <2> DEFINE read == [i \in 0..k |-> IF i = k THEN NextRead(bytes, fields[k], less[k - 1]) ELSE less[i]]
  <2>3. ASSUME NEW i \in 0..k
        PROVE  (IF i = k THEN NextRead(bytes, fields[k], less[k - 1]) ELSE less[i])
                 = IF i = 0 THEN Got(<<>>, at) ELSE NextRead(bytes, fields[i], read[i - 1])
    <3>1. CASE i = 0
      <4>1. i # k /\ i \in 0..k - 1
        BY <1>3, <1>5, <3>1
      <4> QED BY <2>2, <3>1, <4>1 DEF ReadsOf
    <3>2. CASE i # 0
      <4>1. i - 1 \in 0..k /\ i - 1 # k
        BY <1>3, <3>2
      <4>2. read[i - 1] = less[i - 1]
        BY <4>1
      <4>3. i # k => i \in 0..k - 1
        BY <1>3
      <4>4. i # k => less[i] = NextRead(bytes, fields[i], less[i - 1])
        BY <2>2, <3>2, <4>3 DEF ReadsOf
      <4> QED BY <3>2, <4>2, <4>4
    <3> QED BY <3>1, <3>2
  <2>4. read = [i \in 0..k |-> IF i = 0 THEN Got(<<>>, at) ELSE NextRead(bytes, fields[i], read[i - 1])]
    BY <2>3, Zenon
  <2> QED BY <1>3, <2>4 DEF ReadsOf
<1> QED BY <1>4, <1>5

Steps(bytes, at, fields, read) ==
  /\ ReadFields(bytes, at, fields) = read[Len(fields)] /\ read[0] = Got(<<>>, at)
  /\ \A i \in 1..Len(fields) : read[i] = NextRead(bytes, fields[i], read[i - 1])

LEMMA ReadFieldsIs ==
  ASSUME NEW bytes, NEW at, NEW fields \in Seq(LobbyField)
  PROVE  \E read : Steps(bytes, at, fields, read)
<1> DEFINE n    == Len(fields)
           read == CHOOSE r : ReadsOf(bytes, at, fields, n, r)
<1>1. n \in Nat
  OBVIOUS
<1>2. ReadsOf(bytes, at, fields, n, read)
  BY <1>1, ReadsExist
<1>3. ReadFields(bytes, at, fields) = read[n]
  BY DEF ReadFields, ReadsOf, NextRead, Got
<1> HIDE DEF read
<1>4. /\ 0 \in 0..n /\ \A i \in 1..n : i \in 0..n /\ i # 0
  BY <1>1
<1>5. read[0] = Got(<<>>, at)
  BY <1>2, <1>4 DEF ReadsOf
<1>6. \A i \in 1..n : read[i] = NextRead(bytes, fields[i], read[i - 1])
  BY <1>2, <1>4 DEF ReadsOf
<1> QED BY <1>3, <1>5, <1>6 DEF Steps

LEMMA NextReadGot ==
  ASSUME NEW bytes, NEW field, NEW values, NEW from, NEW v, NEW end,
         ReadField(bytes, from, field) = Got(v, end)
  PROVE  NextRead(bytes, field, Got(values, from)) = Got(Append(values, v), end)
<1>1. PICK soFar, this : soFar = Got(values, from) /\ this = Got(v, end)
  OBVIOUS
<1>2. /\ soFar.ok /\ soFar.value = values /\ soFar.next = from
      /\ this.ok = TRUE /\ this.value = v /\ this.next = end
  BY <1>1 DEF Got
<1>3. NextRead(bytes, field, soFar)
        = [ok |-> this.ok, value |-> Append(soFar.value, this.value), next |-> this.next]
  BY <1>1, <1>2 DEF NextRead
<1>4. NextRead(bytes, field, soFar) = [ok |-> TRUE, value |-> Append(values, v), next |-> end]
  BY <1>2, <1>3
<1> QED BY <1>1, <1>4 DEF Got

LEMMA NextReadOk ==
  ASSUME NEW bytes, NEW field, NEW soFar, NextRead(bytes, field, soFar).ok
  PROVE  soFar.ok /\ ReadField(bytes, soFar.next, field).ok
BY DEF NextRead

LEMMA FieldsThere ==
  ASSUME NEW fields \in Seq(LobbyField), NEW values \in Seq(Seq(Byte)), NEW put,
         Len(values) = Len(fields), Laid(fields, values, put),
         \A i \in 1..Len(fields) : Fits(fields[i], values[i]),
         NEW bytes \in Seq(Byte), NEW at \in Nat, At(bytes, at, put[Len(fields)])
  PROVE  ReadFields(bytes, at, fields) = Got(values, at + Len(put[Len(fields)]))
<1> DEFINE n == Len(fields)
<1>1. n \in Nat
  OBVIOUS
<1>0. PICK read : Steps(bytes, at, fields, read)
  BY ReadFieldsIs
<1>2. /\ ReadFields(bytes, at, fields) = read[n] /\ read[0] = Got(<<>>, at)
      /\ \A i \in 1..n : read[i] = NextRead(bytes, fields[i], read[i - 1])
  BY <1>0 DEF Steps
<1> DEFINE Right(i) == read[i] = Got(SubSeq(values, 1, i), at + Len(put[i]))
           T == {k \in 0..n : ~Right(k)}
<1>3. Right(0)
  <2>1. SubSeq(values, 1, 0) = <<>> /\ put[0] = <<>> /\ at + Len(<<>>) = at
    BY DEF Laid
  <2> QED BY <1>2, <2>1
<1>4. ASSUME NEW i \in 1..n, Right(i - 1) PROVE Right(i)
  <2>1. i - 1 \in 0..n
    BY <1>1
  <2>2. PICK before \in Seq(Byte) : before = put[i - 1]
    BY <2>1 DEF Laid
  <2>3. PICK field \in LobbyField : field = fields[i]
    OBVIOUS
  <2>4. PICK v \in Seq(Byte) : v = values[i] /\ Fits(field, v)
    BY <2>3
  <2>5. PICK this \in Seq(Byte) : this = WriteField(field, v)
    BY <2>4, FieldWritten
  <2>6. At(bytes, at + Len(before), this) /\ put[i] = before \o this
    BY <2>2, <2>3, <2>4, <2>5, EachThere DEF Laid
  <2>7. PICK start \in Nat : start = at + Len(before)
    OBVIOUS
  <2>8. ReadField(bytes, start, field) = Got(v, start + Len(this))
    BY <2>4, <2>5, <2>6, <2>7, FieldThere
  <2>9. start + Len(this) = at + Len(put[i])
    <3>1. Len(before \o this) = Len(before) + Len(this) /\ Len(before) \in Nat /\ Len(this) \in Nat
      BY Joined
    <3> QED BY <2>6, <2>7, <3>1
  <2>10. Append(SubSeq(values, 1, i - 1), v) = SubSeq(values, 1, i)
    BY <1>1, <2>4
  <2>11. read[i] = NextRead(bytes, field, Got(SubSeq(values, 1, i - 1), start))
    BY <1>2, <1>4, <2>2, <2>3, <2>7
  <2>12. ReadField(bytes, start, field) = Got(v, at + Len(put[i]))
    BY <2>3, <2>8, <2>9
  <2>13. PICK end : end = at + Len(put[i])
    OBVIOUS
  <2>14. PICK values1 : values1 = SubSeq(values, 1, i - 1)
    OBVIOUS
  <2>15. NextRead(bytes, field, Got(values1, start)) = Got(Append(values1, v), end)
    <3>1. ReadField(bytes, start, field) = Got(v, end)
      BY <2>12, <2>13
    <3> QED BY <3>1, NextReadGot
  <2> QED BY <2>10, <2>11, <2>13, <2>14, <2>15
<1> HIDE DEF Right
<1>5. T = {}
  <2>1. SUFFICES ASSUME T # {} PROVE FALSE
    OBVIOUS
  <2>2. PICK k \in T : \A m \in T : k <= m
    <3>1. T \in SUBSET Nat
      OBVIOUS
    <3> HIDE DEF T
    <3> QED BY <2>1, <3>1, LeastNumber
  <2>3. k \in 1..n /\ ~Right(k)
    BY <1>1, <1>3
  <2>4. k - 1 \in 0..n /\ ~ (k <= k - 1)
    BY <1>1, <2>3
  <2>5. Right(k - 1)
    BY <2>2, <2>4
  <2> QED BY <1>4, <2>3, <2>5
<1>6. Right(n)
  BY <1>1, <1>5
<1>7. SubSeq(values, 1, n) = values
  BY <1>1
<1> QED BY <1>2, <1>6, <1>7 DEF Right

-----------------------------------------------------------------------------
(* Reading as far as the fields go                                         *)

LEMMA LaidOnce ==
  ASSUME NEW fields \in Seq(LobbyField), NEW values, NEW one, NEW other,
         Laid(fields, values, one), Laid(fields, values, other)
  PROVE  one[Len(fields)] = other[Len(fields)]
<1> DEFINE n == Len(fields)
           T == {k \in 0..n : one[k] # other[k]}
<1>1. n \in Nat
  OBVIOUS
<1>2. T = {}
  <2>1. SUFFICES ASSUME T # {} PROVE FALSE
    OBVIOUS
  <2>2. PICK k \in T : \A m \in T : k <= m
    <3>1. T \in SUBSET Nat
      OBVIOUS
    <3> HIDE DEF T
    <3> QED BY <2>1, <3>1, LeastNumber
  <2>3. k \in 1..n /\ one[k] # other[k]
    BY <1>1 DEF Laid
  <2>4. k - 1 \in 0..n /\ ~ (k <= k - 1)
    BY <1>1, <2>3
  <2>5. one[k - 1] = other[k - 1]
    BY <2>2, <2>4
  <2> QED BY <2>3, <2>5 DEF Laid
<1> QED BY <1>1, <1>2

\* What the first i fields were read as, and that it stands there.
ReadUpTo(bytes, at, fields, i, soFar) ==
  \E values \in Seq(Seq(Byte)) : \E put :
    /\ Len(values) = i /\ put \in [0..i -> Seq(Byte)] /\ put[0] = <<>>
    /\ \A j \in 1..i : /\ Fits(fields[j], values[j])
                       /\ put[j] = put[j - 1] \o WriteField(fields[j], values[j])
    /\ At(bytes, at, put[i]) /\ soFar = Got(values, at + Len(put[i]))

LEMMA ReadUpToNone ==
  ASSUME NEW bytes \in Seq(Byte), NEW at \in Nat, NEW fields, at <= Len(bytes)
  PROVE  ReadUpTo(bytes, at, fields, 0, Got(<<>>, at))
<1> DEFINE put == [j \in 0..0 |-> <<>>]
<1>1. put \in [0..0 -> Seq(Byte)] /\ put[0] = <<>>
  OBVIOUS
<1> HIDE DEF put
<1>2. <<>> \in Seq(Seq(Byte)) /\ Len(<<>>) = 0 /\ at + Len(<<>>) = at /\ ~ \E j \in 1..0 : TRUE
  OBVIOUS
<1>3. At(bytes, at, <<>>)
  BY <1>2 DEF At
<1> QED BY <1>1, <1>2, <1>3 DEF ReadUpTo

LEMMA ReadUpToNext ==
  ASSUME NEW bytes \in Seq(Byte), NEW at \in Nat, NEW fields \in Seq(LobbyField),
         NEW i \in 1..Len(fields), NEW soFar, ReadUpTo(bytes, at, fields, i - 1, soFar),
         NextRead(bytes, fields[i], soFar).ok
  PROVE  ReadUpTo(bytes, at, fields, i, NextRead(bytes, fields[i], soFar))
<1>1. PICK values, put :
        /\ values \in Seq(Seq(Byte)) /\ Len(values) = i - 1 /\ put \in [0..(i - 1) -> Seq(Byte)] /\ put[0] = <<>>
        /\ \A j \in 1..(i - 1) : /\ Fits(fields[j], values[j])
                                 /\ put[j] = put[j - 1] \o WriteField(fields[j], values[j])
        /\ At(bytes, at, put[i - 1]) /\ soFar = Got(values, at + Len(put[i - 1]))
  BY DEF ReadUpTo
<1>2. PICK field \in LobbyField : field = fields[i]
  OBVIOUS
<1>3. PICK before \in Seq(Byte), start \in Nat :
        before = put[i - 1] /\ start = at + Len(before)
  <2>1. i - 1 \in 0..(i - 1)
    OBVIOUS
  <2>2. PICK before \in Seq(Byte) : before = put[i - 1]
    BY <1>1, <2>1
  <2> QED BY <2>2
<1>4. soFar.ok /\ ReadField(bytes, soFar.next, field).ok
  BY <1>2, NextReadOk
<1>5. soFar = Got(values, start) /\ soFar.next = start
  BY <1>1, <1>3, ReadIs
<1>6. PICK v \in Seq(Byte) :
        /\ Fits(field, v) /\ At(bytes, start, WriteField(field, v))
        /\ ReadField(bytes, start, field) = Got(v, start + Len(WriteField(field, v)))
  BY <1>4, <1>5, FieldGives
<1>7. PICK this \in Seq(Byte), end \in Nat : this = WriteField(field, v) /\ end = start + Len(this)
  <2>1. WriteField(field, v) \in Seq(Byte)
    BY <1>6, FieldWritten
  <2>2. PICK this \in Seq(Byte) : this = WriteField(field, v)
    BY <2>1
  <2> QED BY <2>2
<1>8. NextRead(bytes, field, Got(values, start)) = Got(Append(values, v), end)
  <2>1. ReadField(bytes, start, field) = Got(v, end)
    BY <1>6, <1>7
  <2> QED BY <2>1, NextReadGot
<1> DEFINE values2 == Append(values, v)
           put2    == [j \in 0..i |-> IF j = i THEN before \o this ELSE put[j]]
<1>9. /\ before \o this \in Seq(Byte) /\ Len(before \o this) = Len(before) + Len(this)
      /\ Len(before) \in Nat /\ Len(this) \in Nat
      /\ At(bytes, at, before \o this)
  <2>1. At(bytes, at, before) /\ At(bytes, start, this)
    BY <1>1, <1>3, <1>6, <1>7
  <2>2. At(bytes, at, before \o this)
    BY <1>3, <2>1, AtConcat
  <2> QED BY <2>2, Joined
<1>10. /\ put2 \in [0..i -> Seq(Byte)] /\ put2[i] = before \o this
       /\ \A j \in 0..(i - 1) : put2[j] = put[j]
  <2>1. \A j \in 0..i : j # i => j \in 0..(i - 1)
    OBVIOUS
  <2>2. \A j \in 0..(i - 1) : j \in 0..i /\ j # i
    OBVIOUS
  <2>3. i \in 0..i
    OBVIOUS
  <2> QED BY <1>1, <1>9, <2>1, <2>2, <2>3
<1>11. /\ values2 \in Seq(Seq(Byte)) /\ Len(values2) = i /\ values2[i] = v
       /\ \A j \in 1..(i - 1) : values2[j] = values[j]
  BY <1>1
<1> HIDE DEF put2, values2
<1>12. put2[0] = <<>>
  <2>1. 0 \in 0..(i - 1)
    OBVIOUS
  <2> QED BY <1>1, <1>10, <2>1
<1>13. ASSUME NEW j \in 1..i
       PROVE  /\ Fits(fields[j], values2[j])
              /\ put2[j] = put2[j - 1] \o WriteField(fields[j], values2[j])
  <2>1. j - 1 \in 0..(i - 1)
    OBVIOUS
  <2>2. CASE j = i
    BY <1>2, <1>3, <1>6, <1>7, <1>10, <1>11, <2>1, <2>2
  <2>3. CASE j # i
    <3>1. j \in 1..(i - 1) /\ j \in 0..(i - 1)
      BY <2>3
    <3>2. values2[j] = values[j] /\ put2[j] = put[j] /\ put2[j - 1] = put[j - 1]
      BY <1>10, <1>11, <2>1, <3>1
    <3> QED BY <1>1, <3>1, <3>2
  <2> QED BY <2>2, <2>3
<1>14. At(bytes, at, put2[i]) /\ end = at + Len(put2[i])
  BY <1>3, <1>7, <1>9, <1>10
<1>15. NextRead(bytes, fields[i], soFar) = Got(values2, at + Len(put2[i]))
  BY <1>2, <1>5, <1>8, <1>14 DEF values2
<1> QED BY <1>10, <1>11, <1>12, <1>13, <1>14, <1>15 DEF ReadUpTo

LEMMA FieldsGive ==
  ASSUME NEW bytes \in Seq(Byte), NEW at \in Nat, at <= Len(bytes),
         NEW fields \in Seq(LobbyField), ReadFields(bytes, at, fields).ok
  PROVE  \E values \in Seq(Seq(Byte)) : \E put :
           /\ Len(values) = Len(fields) /\ Laid(fields, values, put)
           /\ \A i \in 1..Len(fields) : Fits(fields[i], values[i])
           /\ At(bytes, at, put[Len(fields)])
           /\ ReadFields(bytes, at, fields) = Got(values, at + Len(put[Len(fields)]))
<1> DEFINE n == Len(fields)
<1>1. n \in Nat
  OBVIOUS
<1>2. PICK read : Steps(bytes, at, fields, read)
  BY ReadFieldsIs
<1>3. /\ ReadFields(bytes, at, fields) = read[n] /\ read[0] = Got(<<>>, at)
      /\ \A i \in 1..n : read[i] = NextRead(bytes, fields[i], read[i - 1])
  BY <1>2 DEF Steps
<1> DEFINE T == {k \in 0..n : read[k].ok /\ ~ReadUpTo(bytes, at, fields, k, read[k])}
<1>4. T = {}
  <2>1. SUFFICES ASSUME T # {} PROVE FALSE
    OBVIOUS
  <2>2. PICK k \in T : \A m \in T : k <= m
    <3>1. T \in SUBSET Nat
      OBVIOUS
    <3> HIDE DEF T
    <3> QED BY <2>1, <3>1, LeastNumber
  <2>3. k \in 1..n /\ read[k].ok /\ ~ReadUpTo(bytes, at, fields, k, read[k])
    <3>1. ReadUpTo(bytes, at, fields, 0, read[0])
      BY <1>3, ReadUpToNone
    <3> QED BY <1>1, <3>1
  <2>4. k - 1 \in 0..n /\ ~ (k <= k - 1)
    BY <1>1, <2>3
  <2>5. PICK soFar : soFar = read[k - 1]
    OBVIOUS
  <2>6. read[k] = NextRead(bytes, fields[k], soFar)
    BY <1>3, <2>3, <2>5
  <2>7. soFar.ok
    BY <2>3, <2>6, NextReadOk
  <2>8. ReadUpTo(bytes, at, fields, k - 1, soFar)
    BY <2>2, <2>4, <2>5, <2>7
  <2>9. ReadUpTo(bytes, at, fields, k, NextRead(bytes, fields[k], soFar))
    BY <2>3, <2>6, <2>8, ReadUpToNext
  <2> QED BY <2>3, <2>6, <2>9
<1>5. ReadUpTo(bytes, at, fields, n, read[n])
  <2>1. n \in 0..n /\ read[n].ok
    BY <1>1, <1>3
  <2> QED BY <1>4, <2>1
<1> QED BY <1>3, <1>5 DEF ReadUpTo, Laid

LEMMA FieldsWritten ==
  ASSUME NEW fields \in Seq(LobbyField), NEW values, NEW put, Laid(fields, values, put),
         \A i \in 1..Len(fields) : Fits(fields[i], values[i])
  PROVE  WriteFields(fields, values) = put[Len(fields)] /\ put[Len(fields)] \in Seq(Byte)
<1>1. PICK other : Laid(fields, values, other) /\ WriteFields(fields, values) = other[Len(fields)]
  BY LaidExists
<1>2. other[Len(fields)] = put[Len(fields)]
  BY <1>1, LaidOnce
<1>3. Len(fields) \in 0..Len(fields)
  OBVIOUS
<1> QED BY <1>1, <1>2, <1>3 DEF Laid

-----------------------------------------------------------------------------
(* What is written is read, and what is read was written                   *)

\* Fields are written as one sequence of bytes, and read back where it stands.
LEMMA FieldsBack ==
  ASSUME NEW fields \in Seq(LobbyField), NEW values \in Seq(Seq(Byte)),
         Len(values) = Len(fields), \A i \in 1..Len(fields) : Fits(fields[i], values[i])
  PROVE  /\ WriteFields(fields, values) \in Seq(Byte)
         /\ \A bytes \in Seq(Byte), at \in Nat : At(bytes, at, WriteFields(fields, values)) =>
              ReadFields(bytes, at, fields) = Got(values, at + Len(WriteFields(fields, values)))
<1>1. PICK put : Laid(fields, values, put) /\ WriteFields(fields, values) = put[Len(fields)]
  BY LaidExists
<1>2. put[Len(fields)] \in Seq(Byte)
  BY <1>1, FieldsWritten
<1>3. ASSUME NEW bytes \in Seq(Byte), NEW at \in Nat, At(bytes, at, put[Len(fields)])
      PROVE  ReadFields(bytes, at, fields) = Got(values, at + Len(put[Len(fields)]))
  BY <1>1, <1>2, <1>3, FieldsThere
<1> QED BY <1>1, <1>2, <1>3, Zenon

LEMMA FieldsRead ==
  ASSUME NEW bytes \in Seq(Byte), NEW at \in Nat, at <= Len(bytes),
         NEW fields \in Seq(LobbyField), ReadFields(bytes, at, fields).ok
  PROVE  \E values \in Seq(Seq(Byte)) :
           /\ Len(values) = Len(fields)
           /\ \A i \in 1..Len(fields) : Fits(fields[i], values[i])
           /\ WriteFields(fields, values) \in Seq(Byte)
           /\ At(bytes, at, WriteFields(fields, values))
           /\ ReadFields(bytes, at, fields) = Got(values, at + Len(WriteFields(fields, values)))
<1>1. PICK values, put :
        /\ values \in Seq(Seq(Byte)) /\ Len(values) = Len(fields) /\ Laid(fields, values, put)
        /\ \A i \in 1..Len(fields) : Fits(fields[i], values[i])
        /\ At(bytes, at, put[Len(fields)])
        /\ ReadFields(bytes, at, fields) = Got(values, at + Len(put[Len(fields)]))
  BY FieldsGive
<1>2. WriteFields(fields, values) = put[Len(fields)] /\ put[Len(fields)] \in Seq(Byte)
  BY <1>1, FieldsWritten
<1> QED BY <1>1, <1>2

LEMMA TaskWritten ==
  ASSUME NEW b \in Byte
  PROVE  /\ WriteFixed("uint8", <<b>>) \in Seq(Byte) /\ Len(WriteFixed("uint8", <<b>>)) = 2
         /\ \A bytes \in Seq(Byte), at \in Nat : At(bytes, at, WriteFixed("uint8", <<b>>)) =>
              ReadFixed(bytes, at, "uint8") = Got(<<b>>, at + 2)
<1>1. PICK type \in FixedTypes : type = "uint8" /\ Size[type] = 1
  BY DEF FixedTypes, Size
<1>2. PICK w \in Seq(Byte) : w = <<b>> /\ Len(w) = Size[type]
  BY <1>1, Single
<1>3. WriteFixed(type, w) \in Seq(Byte) /\ Len(WriteFixed(type, w)) = 2
  <2>1. 1 + Size[type] = 2
    BY <1>1
  <2> QED BY <1>2, <2>1, FixedWritten
<1>4. ASSUME NEW bytes \in Seq(Byte), NEW at \in Nat, At(bytes, at, WriteFixed(type, w))
      PROVE  ReadFixed(bytes, at, type) = Got(w, at + 2)
  <2>1. at + 1 + Size[type] = at + 2
    BY <1>1
  <2>2. ReadFixed(bytes, at, type) = Got(w, at + 1 + Size[type])
    BY <1>2, <1>4, FixedThere
  <2> QED BY <2>1, <2>2
<1> QED BY <1>1, <1>2, <1>3, <1>4

LEMMA TaskGives ==
  ASSUME NEW bytes \in Seq(Byte), NEW at \in Nat, ReadFixed(bytes, at, "uint8").ok
  PROVE  \E w \in Seq(Byte) : /\ At(bytes, at, WriteFixed("uint8", w))
                              /\ ReadFixed(bytes, at, "uint8") = Got(w, at + 2)
<1>1. PICK type \in FixedTypes : type = "uint8" /\ Size[type] = 1
  BY DEF FixedTypes, Size
<1>2. PICK w \in Seq(Byte) : /\ Len(w) = Size[type] /\ At(bytes, at, WriteFixed(type, w))
                             /\ ReadFixed(bytes, at, type) = Got(w, at + 1 + Size[type])
  BY <1>1, FixedGives
<1>3. at + 1 + Size[type] = at + 2
  BY <1>1
<1> QED BY <1>1, <1>2, <1>3

-----------------------------------------------------------------------------
(* The requests                                                            *)

LEMMA FieldsTyped ==
  /\ \A type \in FieldTypes : Field(type) \in LobbyField
  /\ \A type \in FieldTypes, max \in Limits : Limited(type, max) \in LobbyField
BY SMT DEF Field, Limited, LobbyField, Limits, MaxInt32

LEMMA KindTypes ==
  /\ LobbyKinds = {"log", "create", "update", "delete", "find", "message"}
  /\ \A k \in LobbyKinds : Task[k] \in Byte /\ Service[k] \in Byte
  /\ \A k, l \in LobbyKinds : Task[k] = Task[l] /\ Service[k] = Service[l] => k = l
<1>1. LobbyKinds = {"log", "create", "update", "delete", "find", "message"}
  BY DEF LobbyKinds, Task
<1> QED BY <1>1 DEF Task, Service, Byte

LEMMA AttributesTyped == AttributeFields \in Seq(LobbyField)
<1>1. {"uint32", "uint64", "int32", "string"} \subseteq FieldTypes /\ MaxText \in Limits
  BY LobbyLimits DEF FieldTypes, Limits
<1>2. PICK a, b, c, d :
        /\ a = Field("uint32") /\ b = Field("uint64") /\ c = Field("int32")
        /\ d = Limited("string", MaxText)
  OBVIOUS
<1>3. a \in LobbyField /\ b \in LobbyField /\ c \in LobbyField /\ d \in LobbyField
  BY <1>1, <1>2, FieldsTyped
<1>4. AttributeFields = <<a, a, b, d, a, a, c>>
  BY <1>2 DEF AttributeFields
<1> QED BY <1>3, <1>4

LEMMA InfoTyped == InfoFields \in Seq(LobbyField)
<1>1. {"uint32", "blob"} \subseteq FieldTypes /\ MaxHost \in Limits
  BY LobbyLimits DEF FieldTypes, Limits
<1>2. PICK a, d : a = Field("uint32") /\ d = Limited("blob", MaxHost)
  OBVIOUS
<1>3. a \in LobbyField /\ d \in LobbyField
  BY <1>1, <1>2, FieldsTyped
<1>4. InfoFields = <<d, a, a>> \o AttributeFields
  BY <1>2 DEF InfoFields
<1>5. <<d, a, a>> \in Seq(LobbyField)
  BY <1>3
<1> QED BY <1>4, <1>5, AttributesTyped

LEMMA KindFields == \A k \in LobbyKinds : Fields[k] \in Seq(LobbyField)
<1>1. {"uint32", "uint64", "int32", "blob"} \subseteq FieldTypes
  BY DEF FieldTypes
<1>2. PICK a, b, c : a = Field("uint32") /\ b = Field("uint64") /\ c = Field("int32")
  OBVIOUS
<1>3. a \in LobbyField /\ b \in LobbyField /\ c \in LobbyField
  BY <1>1, <1>2, FieldsTyped
<1>4. PICK d, e, f : /\ d = SessionIDField /\ e = Limited("blob", MaxEventBlob)
                     /\ f = Limited("blob", MaxMessage)
  OBVIOUS
<1>5. d \in LobbyField /\ e \in LobbyField /\ f \in LobbyField
  <2>1. SessionIDSize \in Limits
    BY SMT DEF SessionIDSize, Limits, MaxInt32
  <2>2. MaxEventBlob \in Limits /\ MaxMessage \in Limits
    BY LobbyLimits DEF Limits
  <2> QED BY <1>1, <1>4, <2>1, <2>2, FieldsTyped DEF SessionIDField
<1>6. /\ <<e, a>> \in Seq(LobbyField) /\ <<d>> \in Seq(LobbyField)
      /\ <<a, a, a, a, c>> \in Seq(LobbyField) /\ <<b, f>> \in Seq(LobbyField)
  BY <1>3, <1>5
<1>7. <<d>> \o InfoFields \in Seq(LobbyField)
  BY <1>6, InfoTyped
<1>8. Fields = [log |-> <<e, a>>, create |-> InfoFields, update |-> <<d>> \o InfoFields,
                delete |-> <<d>>, find |-> <<a, a, a, a, c>>, message |-> <<b, f>>]
  BY <1>2, <1>4, Zenon DEF Fields, FindFields
<1>9. LobbyKinds = {"log", "create", "update", "delete", "find", "message"}
  BY KindTypes
<1>10. PICK p \in Seq(LobbyField), q \in Seq(LobbyField), r \in Seq(LobbyField),
            s \in Seq(LobbyField), t \in Seq(LobbyField), u \in Seq(LobbyField) :
         Fields = [log |-> p, create |-> q, update |-> r, delete |-> s, find |-> t, message |-> u]
  BY <1>6, <1>7, <1>8, InfoTyped
<1> QED BY <1>9, <1>10

-----------------------------------------------------------------------------
(* What a payload is parsed to                                             *)

\* r is what a service makes of a payload, as a request of kind k
RequestAt(service, payload, seed, k, r) ==
  LET task   == ReadFixed(payload, 0, "uint8")
      fields == ReadFields(payload, task.next, Fields[k])
  IN  /\ k \in LobbyKinds /\ Service[k] = service /\ task.ok /\ task.value = <<Task[k]>>
      /\ k = "message" => WholeBlocks(payload)
      /\ fields.ok /\ Supported(k, fields.value)
      /\ ValidPadding(SubSeq(payload, fields.next + 1, Len(payload)), seed)
      /\ r = [kind |-> k, seed |-> seed, values |-> fields.value]

LEMMA RequestParsed ==
  ASSUME NEW service, NEW payload, NEW seed
  PROVE  /\ ParseRequest(service, payload, seed) # Refused =>
              \E k : RequestAt(service, payload, seed, k, ParseRequest(service, payload, seed))
         /\ \A k, r : RequestAt(service, payload, seed, k, r) =>
              ParseRequest(service, payload, seed) = r
<1> DEFINE task   == ReadFixed(payload, 0, "uint8")
           kinds  == {k \in LobbyKinds : Service[k] = service /\ task.value = <<Task[k]>>}
           kind   == CHOOSE k \in kinds : TRUE
           fields == ReadFields(payload, task.next, Fields[kind])
           rest   == SubSeq(payload, fields.next + 1, Len(payload))
           parsed == [kind |-> kind, seed |-> seed, values |-> fields.value]
<1>1. ParseRequest(service, payload, seed) =
        IF /\ task.ok /\ kinds # {}
           /\ kind = "message" => WholeBlocks(payload)
           /\ fields.ok /\ Supported(kind, fields.value)
           /\ ValidPadding(rest, seed)
        THEN parsed ELSE Refused
  BY DEF ParseRequest
<1>2. kinds # {} => kind \in LobbyKinds /\ Service[kind] = service /\ task.value = <<Task[kind]>>
  BY Zenon
<1>3. ASSUME NEW k \in LobbyKinds, Service[k] = service, task.value = <<Task[k]>>
      PROVE  kinds # {} /\ kind = k
  <2>1. kinds # {}
    BY <1>3
  <2>2. Task[kind] = Task[k] /\ Service[kind] = Service[k]
    <3> HIDE DEF kind, kinds, task
    <3>1. PICK a, b : a = Task[kind] /\ b = Task[k]
      OBVIOUS
    <3>2. <<a>> = <<b>>
      BY <1>2, <1>3, <2>1, <3>1
    <3>3. a = b
      BY <3>2
    <3> QED BY <1>2, <1>3, <2>1, <3>1, <3>3
  <2> HIDE DEF kind
  <2> QED BY <1>2, <2>1, <2>2, KindTypes
<1>4. ASSUME ParseRequest(service, payload, seed) # Refused
      PROVE  RequestAt(service, payload, seed, kind, parsed)
  <2> HIDE DEF kind, kinds
  <2> QED BY <1>1, <1>2, <1>4 DEF RequestAt
<1>5. ASSUME NEW k, NEW r, RequestAt(service, payload, seed, k, r)
      PROVE  ParseRequest(service, payload, seed) = r
  <2>1. k \in LobbyKinds /\ Service[k] = service /\ task.ok /\ task.value = <<Task[k]>>
    BY <1>5 DEF RequestAt
  <2>2. kinds # {} /\ kind = k
    BY <1>3, <2>1
  <2> HIDE DEF kind, kinds
  <2> QED BY <1>1, <1>5, <2>1, <2>2 DEF RequestAt
<1> HIDE DEF kind, parsed
<1>6. ParseRequest(service, payload, seed) # Refused => ParseRequest(service, payload, seed) = parsed
  BY <1>1
<1> QED BY <1>4, <1>5, <1>6

-----------------------------------------------------------------------------
(* Padding                                                                 *)

Fill(n, b) == <<0>> \o [i \in 1..n |-> b]

LEMMA FillIs ==
  ASSUME NEW n \in Nat, NEW b \in Byte
  PROVE  /\ Fill(n, b) \in Seq(Byte) /\ Len(Fill(n, b)) = n + 1 /\ Fill(n, b)[1] = 0
         /\ \A i \in 2..(n + 1) : Fill(n, b)[i] = b
<1>1. [i \in 1..n |-> b] \in [1..n -> Byte]
  OBVIOUS
<1>2. PICK run \in Seq(Byte) : run = [i \in 1..n |-> b] /\ Len(run) = n
  BY <1>1, FunctionIsSeq
<1>3. PICK zero \in Seq(Byte) : zero = <<0>> /\ Len(zero) = 1 /\ zero[1] = 0
  <2>1. 0 \in Byte
    BY DEF Byte
  <2> QED BY <2>1, Single
<1>4. /\ zero \o run \in Seq(Byte) /\ Len(zero \o run) = 1 + n
      /\ (zero \o run)[1] = zero[1] /\ \A i \in 1..n : (zero \o run)[1 + i] = run[i]
  BY <1>2, <1>3, Joined
<1>5. \A i \in 2..(n + 1) : i - 1 \in 1..n /\ 1 + (i - 1) = i
  OBVIOUS
<1>6. \A i \in 1..n : run[i] = b
  BY <1>2
<1> QED BY <1>2, <1>3, <1>4, <1>5, <1>6 DEF Fill

LEMMA OnlyFill ==
  ASSUME NEW padding \in Seq(Byte), NEW seed \in Seq(Byte), Len(seed) = 4
  PROVE  ValidPadding(padding, seed) <=>
           \E n \in 0..(BlockSize - 1) : padding = Fill(n, seed[1])
<1>1. seed[1] \in Byte
  <2>1. 1 \in 1..Len(seed)
    OBVIOUS
  <2> QED BY <2>1, ElementOfSeq
<1>2. ASSUME ValidPadding(padding, seed)
      PROVE  \E n \in 0..(BlockSize - 1) : padding = Fill(n, seed[1])
  <2>1. PICK n \in 0..(BlockSize - 1) : Len(padding) = n + 1
    <3>1. Len(padding) - 1 \in 0..(BlockSize - 1) /\ Len(padding) = (Len(padding) - 1) + 1
      BY <1>2 DEF ValidPadding, BlockSize
    <3> QED BY <3>1
  <2>2. n \in Nat
    BY DEF BlockSize
  <2>3. padding[1] = 0 /\ \A i \in 2..(n + 1) : padding[i] = seed[1]
    BY <1>2, <2>1 DEF ValidPadding
  <2>4. PICK fill \in Seq(Byte) : /\ fill = Fill(n, seed[1]) /\ Len(fill) = n + 1 /\ fill[1] = 0
                                  /\ \A i \in 2..(n + 1) : fill[i] = seed[1]
    BY <1>1, <2>2, FillIs
  <2>5. \A i \in 1..(n + 1) : i = 1 \/ i \in 2..(n + 1)
    BY <2>2
  <2>6. padding = fill
    BY <2>1, <2>3, <2>4, <2>5
  <2> QED BY <2>4, <2>6
<1>3. ASSUME NEW n \in 0..(BlockSize - 1), padding = Fill(n, seed[1])
      PROVE  ValidPadding(padding, seed)
  <2>1. n \in Nat /\ n + 1 \in 1..BlockSize
    BY DEF BlockSize
  <2> QED BY <1>1, <1>3, <2>1, FillIs DEF ValidPadding
<1> QED BY <1>2, <1>3

-----------------------------------------------------------------------------
(* The payload of a request                                                *)

LEMMA AtStart ==
  ASSUME NEW bytes \in Seq(Byte), NEW s \in Seq(Byte), NEW t \in Seq(Byte)
  PROVE  At(bytes, 0, s \o t) <=> At(bytes, 0, s) /\ At(bytes, Len(s), t)
<1>1. PICK zero \in Nat : zero = 0 /\ zero + Len(s) = Len(s)
  OBVIOUS
<1>2. At(bytes, zero, s \o t) <=> At(bytes, zero, s) /\ At(bytes, zero + Len(s), t)
  BY AtConcat
<1> QED BY <1>1, <1>2

LEMMA Split ==
  ASSUME NEW bytes \in Seq(Byte), NEW s \in Seq(Byte), At(bytes, 0, s)
  PROVE  /\ SubSeq(bytes, Len(s) + 1, Len(bytes)) \in Seq(Byte)
         /\ bytes = s \o SubSeq(bytes, Len(s) + 1, Len(bytes))
<1>1. Len(s) \in Nat /\ Len(bytes) \in Nat /\ Len(s) <= Len(bytes)
  BY DEF At
<1>2. PICK at \in Nat, n \in Nat : at = Len(s) /\ n = Len(bytes) - Len(s)
  BY <1>1
<1>3. at + n = Len(bytes) /\ at + n <= Len(bytes)
  BY <1>1, <1>2
<1>4. PICK rest : rest = SubSeq(bytes, at + 1, at + n)
  OBVIOUS
<1>5. rest \in Seq(Byte) /\ Len(rest) = n /\ At(bytes, at, rest)
  BY <1>3, <1>4, Part
<1>6. At(bytes, 0, s \o rest)
  <2>1. At(bytes, 0 + Len(s), rest)
    BY <1>1, <1>2, <1>5
  <2> QED BY <1>5, <2>1, AtConcat
<1>7. s \o rest \in Seq(Byte) /\ Len(s \o rest) = Len(bytes)
  BY <1>1, <1>2, <1>5, Joined
<1>8. bytes = s \o rest
  BY <1>6, <1>7, AtWhole
<1> QED BY <1>2, <1>3, <1>4, <1>5, <1>8

Clear(k, values) == WriteFixed("uint8", <<Task[k]>>) \o WriteFields(Fields[k], values)

\* the length of the padding's fill behind n bytes
Short(n) == BlockSize - ((n + HMACSize + 1) % BlockSize) - 1

LEMMA ShortIs ==
  ASSUME NEW n \in Nat
  PROVE  /\ Short(n) \in 0..(BlockSize - 1)
         /\ \A m \in 0..(BlockSize - 1) :
              (n + (m + 1) + HMACSize + 1) % BlockSize = 0 <=> m = Short(n)
BY SMT DEF Short, BlockSize, HMACSize

LEMMA Regrouped ==
  ASSUME NEW s \in Seq(Byte), NEW t \in Seq(Byte), NEW u \in Seq(Byte)
  PROVE  (s \o t) \o u = s \o (t \o u)
<1>1. \A S : \A a, b, c \in Seq(S) : (a \o b) \o c = a \o (b \o c)
  BY ConcatAssociative
<1> QED BY <1>1

LEMMA PayloadIs ==
  ASSUME NEW k \in LobbyKinds, NEW values, Clear(k, values) \in Seq(Byte),
         NEW seed \in Seq(Byte), Len(seed) = 4, NEW r,
         r = [kind |-> k, seed |-> seed, values |-> values]
  PROVE  Payload(r) = Clear(k, values) \o Fill(Short(Len(Clear(k, values))), seed[1])
<1>1. PICK clear \in Seq(Byte) : clear = Clear(k, values)
  OBVIOUS
<1>2. r.kind = k /\ r.seed = seed /\ r.values = values
  OBVIOUS
<1>3. PICK b \in Byte : b = seed[1]
  <2>1. 1 \in 1..Len(seed)
    OBVIOUS
  <2> QED BY <2>1, ElementOfSeq
<1>4. PICK n \in Nat : n = Short(Len(clear))
  <2>1. Len(clear) \in Nat
    OBVIOUS
  <2>2. Short(Len(clear)) \in 0..(BlockSize - 1)
    BY <2>1, ShortIs
  <2> QED BY <2>2 DEF BlockSize
<1>5. PICK run \in Seq(Byte) : run = [i \in 1..n |-> b]
  <2>1. [i \in 1..n |-> b] \in [1..n -> Byte]
    OBVIOUS
  <2> QED BY <2>1, FunctionIsSeq
<1>6. Payload(r) = (clear \o <<0>>) \o [i \in 1..n |-> b]
  <2>1. n = BlockSize - ((Len(Clear(k, values)) + HMACSize + 1) % BlockSize) - 1
    BY <1>1, <1>4 DEF Short
  <2> DEFINE Run(m, x) == [i \in 1..m |-> x]
  <2>2. Payload(r) = (Clear(k, values) \o <<0>>)
          \o Run(BlockSize - ((Len(Clear(k, values)) + HMACSize + 1) % BlockSize) - 1, seed[1])
    BY <1>2, Zenon DEF Payload, Clear
  <2> HIDE DEF Run
  <2>3. Payload(r) = (clear \o <<0>>) \o Run(n, b)
    BY <1>1, <1>3, <2>1, <2>2, Zenon
  <2> QED BY <2>3 DEF Run
<1>7. PICK zero \in Seq(Byte) : zero = <<0>>
  <2>1. 0 \in Byte
    BY DEF Byte
  <2> QED BY <2>1, Single
<1>8. (clear \o zero) \o run = clear \o (zero \o run)
  BY Regrouped
<1>9. Payload(r) = clear \o (<<0>> \o [i \in 1..n |-> b])
  BY <1>5, <1>6, <1>7, <1>8
<1> QED BY <1>1, <1>3, <1>4, <1>9 DEF Fill

LEMMA ClearIs ==
  ASSUME NEW k \in LobbyKinds, NEW fs \in Seq(Byte), NEW values, fs = WriteFields(Fields[k], values)
  PROVE  /\ Clear(k, values) \in Seq(Byte) /\ Len(Clear(k, values)) = 2 + Len(fs)
         /\ \A bytes \in Seq(Byte) : At(bytes, 0, Clear(k, values)) <=>
              At(bytes, 0, WriteFixed("uint8", <<Task[k]>>)) /\ At(bytes, 2, fs)
<1>1. PICK head \in Seq(Byte) : head = WriteFixed("uint8", <<Task[k]>>) /\ Len(head) = 2
  <2>1. PICK b \in Byte : b = Task[k]
    BY KindTypes
  <2> QED BY <2>1, TaskWritten
<1>2. Clear(k, values) = head \o fs
  BY <1>1 DEF Clear
<1>3. head \o fs \in Seq(Byte) /\ Len(head \o fs) = Len(head) + Len(fs)
  BY Joined
<1>4. ASSUME NEW bytes \in Seq(Byte)
      PROVE  At(bytes, 0, head \o fs) <=> At(bytes, 0, head) /\ At(bytes, 2, fs)
  <2>1. At(bytes, 0, head \o fs) <=> At(bytes, 0, head) /\ At(bytes, Len(head), fs)
    BY AtStart
  <2> QED BY <1>1, <2>1
<1> QED BY <1>1, <1>2, <1>3, <1>4

FitsAll(fields, values) ==
  /\ values \in Seq(Seq(Byte)) /\ Len(values) = Len(fields)
  /\ \A i \in 1..Len(fields) : Fits(fields[i], values[i])

\* A payload as clients write it is understood.
LEMMA PayloadThere ==
  ASSUME NEW k \in LobbyKinds, NEW values, FitsAll(Fields[k], values), Supported(k, values),
         NEW seed \in Seq(Byte), Len(seed) = 4, NEW r,
         r = [kind |-> k, seed |-> seed, values |-> values]
  PROVE  /\ Payload(r) \in Seq(Byte) /\ WholeBlocks(Payload(r))
         /\ ParseRequest(Service[k], Payload(r), seed) = r
<1>1. PICK fields \in Seq(LobbyField) : fields = Fields[k]
  BY KindFields
<1>2. PICK fs \in Seq(Byte) : fs = WriteFields(fields, values)
  BY <1>1, FieldsBack DEF FitsAll
<1>3. PICK clear \in Seq(Byte) : clear = Clear(k, values) /\ Len(clear) = 2 + Len(fs)
  BY <1>1, <1>2, ClearIs
<1>4. PICK b \in Byte : b = seed[1]
  <2>1. 1 \in 1..Len(seed)
    OBVIOUS
  <2> QED BY <2>1, ElementOfSeq
<1>5. PICK n \in Nat : n = Short(Len(clear)) /\ n \in 0..(BlockSize - 1)
  <2>1. Len(clear) \in Nat
    OBVIOUS
  <2> QED BY <2>1, ShortIs DEF BlockSize
<1>6. PICK fill \in Seq(Byte) : fill = Fill(n, b) /\ Len(fill) = n + 1
  BY FillIs
<1>7. PICK payload \in Seq(Byte) :
        /\ payload = Payload(r) /\ payload = clear \o fill /\ Len(payload) = Len(clear) + Len(fill)
  <2>1. Payload(r) = clear \o fill
    BY <1>3, <1>4, <1>5, <1>6, PayloadIs
  <2>2. clear \o fill \in Seq(Byte) /\ Len(clear \o fill) = Len(clear) + Len(fill)
    BY Joined
  <2> QED BY <2>1, <2>2
<1>8. Len(clear) \in Nat /\ Len(payload) = Len(clear) + (n + 1)
  BY <1>6, <1>7
<1>9. WholeBlocks(payload)
  BY <1>5, <1>8, ShortIs DEF WholeBlocks
<1>10. At(payload, 0, clear) /\ At(payload, Len(clear), fill)
  <2>1. At(payload, 0, payload)
    BY AtWhole
  <2> QED BY <1>7, <2>1, AtStart
<1>11. At(payload, 0, WriteFixed("uint8", <<Task[k]>>)) /\ At(payload, 2, fs)
  BY <1>1, <1>2, <1>3, <1>10, ClearIs
<1>12. ReadFixed(payload, 0, "uint8") = Got(<<Task[k]>>, 2)
  <2>1. PICK task \in Byte : task = Task[k]
    BY KindTypes
  <2>2. ReadFixed(payload, 0, "uint8") = Got(<<task>>, 0 + 2)
    BY <1>11, <2>1, TaskWritten
  <2>3. 0 + 2 = 2
    OBVIOUS
  <2> QED BY <2>1, <2>2, <2>3, Zenon
<1>13. ReadFields(payload, 2, fields) = Got(values, Len(clear))
  <2>1. ReadFields(payload, 2, fields) = Got(values, 2 + Len(fs))
    <3>1. PICK two \in Nat : two = 2 /\ At(payload, two, WriteFields(fields, values))
      BY <1>2, <1>11
    <3>2. /\ values \in Seq(Seq(Byte)) /\ Len(values) = Len(fields)
          /\ \A i \in 1..Len(fields) : Fits(fields[i], values[i])
      BY <1>1 DEF FitsAll
    <3>3. ReadFields(payload, two, fields) = Got(values, two + Len(WriteFields(fields, values)))
      BY <3>1, <3>2, FieldsBack
    <3> QED BY <1>2, <3>1, <3>3, Zenon
  <2> QED BY <1>3, <2>1
<1>14. SubSeq(payload, Len(clear) + 1, Len(payload)) = fill
  BY <1>7, <1>8, <1>10, PartThere
<1>15. ValidPadding(fill, seed)
  BY <1>4, <1>5, <1>6, OnlyFill
<1>16. RequestAt(Service[k], payload, seed, k, r)
  <2>1. PICK task, read : task = Got(<<Task[k]>>, 2) /\ read = Got(values, Len(clear))
    OBVIOUS
  <2>2. /\ task.ok /\ task.value = <<Task[k]>> /\ task.next = 2
        /\ read.ok /\ read.value = values /\ read.next = Len(clear)
    BY <2>1, ReadIs
  <2> QED BY <1>1, <1>9, <1>12, <1>13, <1>14, <1>15, <2>1, <2>2 DEF RequestAt
<1> QED BY <1>7, <1>9, <1>16, RequestParsed

\* A payload that is understood is written as clients write it.
LEMMA PayloadGives ==
  ASSUME NEW payload \in Seq(Byte), WholeBlocks(payload),
         NEW seed \in Seq(Byte), Len(seed) = 4, NEW service,
         ParseRequest(service, payload, seed) # Refused
  PROVE  \E k \in LobbyKinds : \E values, r :
           /\ r = [kind |-> k, seed |-> seed, values |-> values]
           /\ Service[k] = service /\ FitsAll(Fields[k], values) /\ Supported(k, values)
           /\ ParseRequest(service, payload, seed) = r /\ payload = Payload(r)
<1>1. PICK k, r : RequestAt(service, payload, seed, k, r) /\ ParseRequest(service, payload, seed) = r
  BY RequestParsed
<1>0. PICK fields \in Seq(LobbyField) : k \in LobbyKinds /\ fields = Fields[k]
  <2>1. k \in LobbyKinds
    BY <1>1 DEF RequestAt
  <2> QED BY <2>1, KindFields
<1>2. PICK task, read : /\ k \in LobbyKinds /\ fields = Fields[k]
                        /\ task = ReadFixed(payload, 0, "uint8")
                        /\ read = ReadFields(payload, task.next, fields)
  BY <1>0
<1>3. /\ Service[k] = service /\ task.ok /\ task.value = <<Task[k]>>
      /\ read.ok /\ Supported(k, read.value)
      /\ ValidPadding(SubSeq(payload, read.next + 1, Len(payload)), seed)
      /\ r = [kind |-> k, seed |-> seed, values |-> read.value]
  BY <1>1, <1>2 DEF RequestAt
<1>4. At(payload, 0, WriteFixed("uint8", <<Task[k]>>)) /\ task.next = 2 /\ 2 <= Len(payload)
  <2>1. PICK w \in Seq(Byte) : At(payload, 0, WriteFixed("uint8", w)) /\ task = Got(w, 0 + 2)
    BY <1>2, <1>3, TaskGives
  <2>2. task.value = w /\ task.next = 0 + 2
    BY <2>1, ReadIs
  <2>3. PICK b \in Byte : b = Task[k]
    BY <1>2, KindTypes
  <2>4. WriteFixed("uint8", <<b>>) \in Seq(Byte) /\ Len(WriteFixed("uint8", <<b>>)) = 2
    BY <2>3, TaskWritten
  <2>5. PICK head \in Seq(Byte) : head = WriteFixed("uint8", <<b>>) /\ Len(head) = 2
    BY <2>4
  <2>6. At(payload, 0, head)
    BY <1>3, <2>1, <2>2, <2>3, <2>5
  <2>7. 2 <= Len(payload)
    <3>1. 0 + Len(head) <= Len(payload)
      BY <2>6 DEF At
    <3>2. 0 + 2 = 2
      OBVIOUS
    <3> QED BY <2>5, <3>1, <3>2, Zenon
  <2>8. task.next = 2
    BY <2>2
  <2>9. head = WriteFixed("uint8", <<Task[k]>>)
    BY <2>3, <2>5
  <2> QED BY <2>6, <2>7, <2>8, <2>9
<1>5. PICK values \in Seq(Seq(Byte)), fs \in Seq(Byte) :
        /\ FitsAll(fields, values) /\ fs = WriteFields(fields, values)
        /\ At(payload, 2, fs) /\ read = Got(values, 2 + Len(fs))
  <2>1. ReadFields(payload, 2, fields).ok /\ read = ReadFields(payload, 2, fields)
    BY <1>2, <1>3, <1>4
  <2>2. PICK values \in Seq(Seq(Byte)) :
          /\ Len(values) = Len(fields)
          /\ \A i \in 1..Len(fields) : Fits(fields[i], values[i])
          /\ WriteFields(fields, values) \in Seq(Byte)
          /\ At(payload, 2, WriteFields(fields, values))
          /\ ReadFields(payload, 2, fields) = Got(values, 2 + Len(WriteFields(fields, values)))
    BY <1>4, <2>1, FieldsRead
  <2> QED BY <2>1, <2>2 DEF FitsAll
<1>6. read.value = values /\ read.next = 2 + Len(fs)
  BY <1>5, ReadIs
<1>7. PICK clear \in Seq(Byte) :
        clear = Clear(k, values) /\ Len(clear) = 2 + Len(fs) /\ At(payload, 0, clear)
  BY <1>2, <1>4, <1>5, ClearIs
<1>8. PICK rest \in Seq(Byte) : /\ rest = SubSeq(payload, Len(clear) + 1, Len(payload))
                                /\ payload = clear \o rest
  <2>1. /\ SubSeq(payload, Len(clear) + 1, Len(payload)) \in Seq(Byte)
        /\ payload = clear \o SubSeq(payload, Len(clear) + 1, Len(payload))
    BY <1>7, Split
  <2> QED BY <2>1
<1>9. PICK n \in 0..(BlockSize - 1) : rest = Fill(n, seed[1])
  <2>1. ValidPadding(rest, seed)
    BY <1>3, <1>6, <1>7, <1>8
  <2> QED BY <2>1, OnlyFill
<1>10. n = Short(Len(clear))
  <2>1. PICK b \in Byte : b = seed[1]
    <3>1. 1 \in 1..Len(seed)
      OBVIOUS
    <3> QED BY <3>1, ElementOfSeq
  <2>2. n \in Nat
    BY DEF BlockSize
  <2>3. Len(rest) = n + 1
    BY <1>9, <2>1, <2>2, FillIs
  <2>4. Len(payload) = Len(clear) + (n + 1) /\ Len(clear) \in Nat
    <3>1. Len(clear \o rest) = Len(clear) + Len(rest) /\ Len(clear) \in Nat
      BY Joined
    <3> QED BY <1>8, <2>3, <3>1
  <2>5. (Len(clear) + (n + 1) + HMACSize + 1) % BlockSize = 0
    BY <2>4 DEF WholeBlocks
  <2> QED BY <2>4, <2>5, ShortIs
<1>11. r = [kind |-> k, seed |-> seed, values |-> values]
  BY <1>3, <1>6
<1>12. Payload(r) = clear \o Fill(Short(Len(clear)), seed[1])
  BY <1>2, <1>7, <1>11, PayloadIs
<1>13. payload = Payload(r)
  BY <1>8, <1>9, <1>10, <1>12
<1>14. FitsAll(Fields[k], values) /\ Supported(k, values)
  BY <1>2, <1>3, <1>5, <1>6
<1> QED BY <1>1, <1>2, <1>3, <1>11, <1>13, <1>14

-----------------------------------------------------------------------------
(* The envelope                                                            *)

LEMMA Shifted ==
  ASSUME NEW x \in Byte, NEW m \in Nat
  PROVE  /\ (x + m) % 256 \in Byte /\ (((x + m) % 256) - m) % 256 = x
         /\ (x - m) % 256 \in Byte /\ (((x - m) % 256) + m) % 256 = x
BY DEF Byte

Seed4(seed) == seed \in Seq(Byte) /\ Len(seed) = 4

LEMMA MaskIs ==
  ASSUME NEW seed, Seed4(seed), NEW i \in Nat
  PROVE  Mask(seed, i) \in Nat
<1>1. 1 \in 1..Len(seed) /\ 2 \in 1..Len(seed) /\ 3 \in 1..Len(seed) /\ 4 \in 1..Len(seed)
  BY DEF Seed4
<1>2. seed[1] \in Byte /\ seed[2] \in Byte /\ seed[3] \in Byte /\ seed[4] \in Byte
  <2>1. seed \in Seq(Byte)
    BY DEF Seed4
  <2> QED BY <1>1, <2>1, ElementOfSeq, Zenon
<1>3. PICK a \in 0..255, b \in 0..255, c \in 0..255, d \in 0..255 :
        a = seed[1] /\ b = seed[2] /\ c = seed[3] /\ d = seed[4]
  BY <1>2, Zenon DEF Byte
<1>4. Mask(seed, i) = a + 3 * b + 5 * c + 7 * d + i
  BY <1>3 DEF Mask
<1>5. a + 3 * b + 5 * c + 7 * d + i \in Nat
  OBVIOUS
<1> QED BY <1>4, <1>5

LEMMA CipherIs ==
  ASSUME NEW seed, Seed4(seed), NEW s \in Seq(Byte)
  PROVE  /\ Encrypt(seed, s) \in Seq(Byte) /\ Len(Encrypt(seed, s)) = Len(s)
         /\ Decrypt(seed, s) \in Seq(Byte) /\ Len(Decrypt(seed, s)) = Len(s)
         /\ Decrypt(seed, Encrypt(seed, s)) = s /\ Encrypt(seed, Decrypt(seed, s)) = s
<1>1. Len(s) \in Nat /\ DOMAIN s = 1..Len(s) /\ \A i \in 1..Len(s) : s[i] \in Byte /\ i \in Nat
  OBVIOUS
<1>2. ASSUME NEW i \in 1..Len(s)
      PROVE  /\ (s[i] + Mask(seed, i)) % 256 \in Byte
             /\ (((s[i] + Mask(seed, i)) % 256) - Mask(seed, i)) % 256 = s[i]
             /\ (s[i] - Mask(seed, i)) % 256 \in Byte
             /\ (((s[i] - Mask(seed, i)) % 256) + Mask(seed, i)) % 256 = s[i]
  <2>1. PICK x \in Byte : x = s[i]
    BY <1>1
  <2>2. PICK m \in Nat : m = Mask(seed, i)
    BY <1>1, MaskIs
  <2>3. /\ (x + m) % 256 \in Byte /\ (((x + m) % 256) - m) % 256 = x
        /\ (x - m) % 256 \in Byte /\ (((x - m) % 256) + m) % 256 = x
    BY Shifted
  <2> QED BY <2>1, <2>2, <2>3, Zenon
<1>3. Encrypt(seed, s) \in [1..Len(s) -> Byte]
  BY <1>1, <1>2 DEF Encrypt
<1>4. PICK e \in Seq(Byte) : e = Encrypt(seed, s) /\ Len(e) = Len(s)
  BY <1>1, <1>3, FunctionIsSeq
<1>5. Decrypt(seed, s) \in [1..Len(s) -> Byte]
  BY <1>1, <1>2 DEF Decrypt
<1>6. PICK d \in Seq(Byte) : d = Decrypt(seed, s) /\ Len(d) = Len(s)
  BY <1>1, <1>5, FunctionIsSeq
<1>7. /\ \A i \in 1..Len(s) : e[i] = (s[i] + Mask(seed, i)) % 256
      /\ \A i \in 1..Len(s) : d[i] = (s[i] - Mask(seed, i)) % 256
      /\ DOMAIN e = 1..Len(s) /\ DOMAIN d = 1..Len(s)
  BY <1>1, <1>4, <1>6 DEF Encrypt, Decrypt
<1>8. Decrypt(seed, e) = s
  <2>1. Decrypt(seed, e) = [i \in 1..Len(s) |-> (e[i] - Mask(seed, i)) % 256]
    BY <1>7, Zenon DEF Decrypt
  <2>2. \A i \in 1..Len(s) : (e[i] - Mask(seed, i)) % 256 = s[i]
    BY <1>2, <1>7
  <2>3. s = [i \in 1..Len(s) |-> s[i]]
    OBVIOUS
  <2> QED BY <2>1, <2>2, <2>3
<1>9. Encrypt(seed, d) = s
  <2>1. Encrypt(seed, d) = [i \in 1..Len(s) |-> (d[i] + Mask(seed, i)) % 256]
    BY <1>7, Zenon DEF Encrypt
  <2>2. \A i \in 1..Len(s) : (d[i] + Mask(seed, i)) % 256 = s[i]
    BY <1>2, <1>7
  <2>3. s = [i \in 1..Len(s) |-> s[i]]
    OBVIOUS
  <2> QED BY <2>1, <2>2, <2>3
<1> QED BY <1>4, <1>6, <1>8, <1>9

LEMMA MacIs ==
  ASSUME NEW payload \in Seq(Byte)
  PROVE  HMAC(payload) \in Seq(Byte) /\ Len(HMAC(payload)) = 4
<1>1. CASE payload = <<>>
  <2>1. [i \in 1..4 |-> 0] \in [1..4 -> Byte]
    BY DEF Byte
  <2>2. HMAC(payload) = [i \in 1..4 |-> 0]
    BY <1>1 DEF HMAC, Zeros, HMACSize
  <2> QED BY <2>1, <2>2, FunctionIsSeq
<1>2. CASE payload # <<>>
  <2>1. Len(payload) \in Nat /\ 1 \in 1..Len(payload) /\ Len(payload) \in 1..Len(payload)
    BY <1>2
  <2>2. PICK a \in Byte, b \in Byte, c \in Byte, d \in Byte :
          a = payload[1] /\ b = payload[Len(payload)] /\ c = Len(payload) % 256 /\ d = 0
    <3>1. payload[1] \in Byte /\ payload[Len(payload)] \in Byte
      BY <2>1, ElementOfSeq
    <3>2. Len(payload) % 256 \in Byte /\ 0 \in Byte
      <4>1. PICK n \in Nat : n = Len(payload)
        BY <2>1
      <4>2. n % 256 \in 0..255
        OBVIOUS
      <4> QED BY <4>1, <4>2 DEF Byte
    <3> QED BY <3>1, <3>2
  <2>3. HMAC(payload) = <<a, b, c, d>>
    BY <1>2, <2>2 DEF HMAC
  <2> QED BY <2>3
<1> QED BY <1>1, <1>2

Envelope(seed, service, payload) ==
  <<1>> \o seed \o Encrypt(seed, HMAC(payload) \o <<service>> \o payload)

\* what is under the mask, and where its parts stand
LEMMA MaskedIs ==
  ASSUME NEW service \in Byte, NEW payload \in Seq(Byte), NEW s \in Seq(Byte)
  PROVE  /\ HMAC(payload) \o <<service>> \o payload \in Seq(Byte)
         /\ Len(HMAC(payload) \o <<service>> \o payload) = 5 + Len(payload)
         /\ At(s, 0, HMAC(payload) \o <<service>> \o payload) <=>
              At(s, 0, HMAC(payload)) /\ At(s, 4, <<service>>) /\ At(s, 5, payload)
<1>1. PICK mac \in Seq(Byte) : mac = HMAC(payload) /\ Len(mac) = 4
  BY MacIs
<1>2. PICK one \in Seq(Byte) : one = <<service>> /\ Len(one) = 1
  BY Single
<1>3. PICK front \in Seq(Byte) : front = mac \o one /\ Len(front) = 5
  <2>1. PICK front : front = mac \o one
    OBVIOUS
  <2>2. front \in Seq(Byte) /\ Len(front) = Len(mac) + Len(one)
    BY <2>1, Joined
  <2>3. Len(front) = 5
    BY <1>1, <1>2, <2>2
  <2> QED BY <2>1, <2>2, <2>3
<1>4. front \o payload \in Seq(Byte) /\ Len(front \o payload) = Len(front) + Len(payload)
  BY Joined
<1>5. At(s, 0, front \o payload) <=> At(s, 0, front) /\ At(s, Len(front), payload)
  BY AtStart
<1>6. At(s, 0, mac \o one) <=> At(s, 0, mac) /\ At(s, Len(mac), one)
  BY AtStart
<1> QED BY <1>1, <1>2, <1>3, <1>4, <1>5, <1>6

LEMMA EnvelopeIs ==
  ASSUME NEW seed, Seed4(seed), NEW service \in Byte, NEW payload \in Seq(Byte),
         NEW s \in Seq(Byte)
  PROVE  LET cipher == Encrypt(seed, HMAC(payload) \o <<service>> \o payload)
         IN  /\ Envelope(seed, service, payload) \in Seq(Byte)
             /\ Len(Envelope(seed, service, payload)) = 10 + Len(payload)
             /\ cipher \in Seq(Byte) /\ Len(cipher) = 5 + Len(payload)
             /\ At(s, 0, Envelope(seed, service, payload)) <=>
                  At(s, 0, <<1>>) /\ At(s, 1, seed) /\ At(s, 5, cipher)
<1>1. PICK inner \in Seq(Byte) :
        /\ inner = HMAC(payload) \o <<service>> \o payload /\ Len(inner) = 5 + Len(payload)
  BY MaskedIs
<1>2. PICK cipher \in Seq(Byte) : cipher = Encrypt(seed, inner) /\ Len(cipher) = 5 + Len(payload)
  <2>1. Encrypt(seed, inner) \in Seq(Byte) /\ Len(Encrypt(seed, inner)) = Len(inner)
    BY CipherIs
  <2> QED BY <1>1, <2>1
<1>3. PICK one \in Seq(Byte) : one = <<1>> /\ Len(one) = 1
  <2>1. 1 \in Byte
    BY DEF Byte
  <2> QED BY <2>1, Single
<1>4. seed \in Seq(Byte) /\ Len(seed) = 4
  BY DEF Seed4
<1>5. PICK front \in Seq(Byte) : front = one \o seed /\ Len(front) = 5
  <2>1. PICK front : front = one \o seed
    OBVIOUS
  <2>2. front \in Seq(Byte) /\ Len(front) = Len(one) + Len(seed)
    BY <1>4, <2>1, Joined
  <2>3. Len(front) = 5
    BY <1>3, <1>4, <2>2
  <2> QED BY <2>1, <2>2, <2>3
<1>6. front \o cipher \in Seq(Byte) /\ Len(front \o cipher) = Len(front) + Len(cipher)
  BY Joined
<1>7. At(s, 0, front \o cipher) <=> At(s, 0, front) /\ At(s, Len(front), cipher)
  BY AtStart
<1>8. At(s, 0, one \o seed) <=> At(s, 0, one) /\ At(s, Len(one), seed)
  BY <1>4, AtStart
<1>9. Envelope(seed, service, payload) = front \o cipher
  BY <1>1, <1>2, <1>3, <1>5 DEF Envelope
<1>10. Len(front \o cipher) = 10 + Len(payload)
  BY <1>2, <1>5, <1>6
<1> QED BY <1>1, <1>2, <1>3, <1>5, <1>6, <1>7, <1>8, <1>9, <1>10

\* what decryptRequestBody takes out of a body
Opened(packet, seed, plaintext, payload) ==
  /\ seed = SubSeq(packet, 2, 5)
  /\ plaintext = Decrypt(seed, SubSeq(packet, 6, Len(packet)))
  /\ payload = SubSeq(plaintext, 6, Len(plaintext))

LEMMA BodyParsed ==
  ASSUME NEW packet, NEW seed, NEW plaintext, NEW payload, Opened(packet, seed, plaintext, payload)
  PROVE  ParseLobbyBody(packet) =
           IF /\ Len(packet) >= 13 /\ packet[1] = 1 /\ (Len(packet) - 5) % 8 = 0
              /\ SubSeq(plaintext, 1, 4) = HMAC(payload)
           THEN ParseRequest(plaintext[5], payload, seed) ELSE Refused
<1>1. 5 + 1 = 6 /\ 5 + 8 = 13 /\ 4 + 2 = 6 /\ 4 + 1 = 5
  OBVIOUS
<1> QED BY <1>1, Zenon DEF ParseLobbyBody, HeaderSize, BlockSize, HMACSize, Opened

LEMMA EnvelopeThere ==
  ASSUME NEW seed, Seed4(seed), NEW service \in Byte, NEW payload \in Seq(Byte),
         WholeBlocks(payload)
  PROVE  /\ Envelope(seed, service, payload) \in Seq(Byte)
         /\ ParseLobbyBody(Envelope(seed, service, payload)) = ParseRequest(service, payload, seed)
<1>1. PICK inner \in Seq(Byte) :
        /\ inner = HMAC(payload) \o <<service>> \o payload /\ Len(inner) = 5 + Len(payload)
  BY MaskedIs
<1>2. PICK mac \in Seq(Byte) : mac = HMAC(payload) /\ Len(mac) = 4
  BY MacIs
<1>3. At(inner, 0, mac) /\ At(inner, 4, <<service>>) /\ At(inner, 5, payload)
  <2>1. At(inner, 0, inner)
    BY AtWhole
  <2>2. At(inner, 0, HMAC(payload) \o <<service>> \o payload) <=>
          At(inner, 0, HMAC(payload)) /\ At(inner, 4, <<service>>) /\ At(inner, 5, payload)
    BY MaskedIs
  <2> QED BY <1>1, <1>2, <2>1, <2>2
<1>4. PICK cipher \in Seq(Byte) : /\ cipher = Encrypt(seed, inner) /\ Len(cipher) = 5 + Len(payload)
                                  /\ Decrypt(seed, cipher) = inner
  <2>1. /\ Encrypt(seed, inner) \in Seq(Byte) /\ Len(Encrypt(seed, inner)) = Len(inner)
        /\ Decrypt(seed, Encrypt(seed, inner)) = inner
    BY CipherIs
  <2> QED BY <1>1, <2>1
<1>5. PICK packet \in Seq(Byte) : /\ packet = Envelope(seed, service, payload)
                                /\ Len(packet) = 10 + Len(payload)
  BY EnvelopeIs
<1>6. At(packet, 0, <<1>>) /\ At(packet, 1, seed) /\ At(packet, 5, cipher)
  <2>1. At(packet, 0, packet)
    BY AtWhole
  <2>2. At(packet, 0, Envelope(seed, service, payload)) <=>
          At(packet, 0, <<1>>) /\ At(packet, 1, seed) /\ At(packet, 5, Encrypt(seed, inner))
    BY <1>1, EnvelopeIs
  <2> QED BY <1>4, <1>5, <2>1, <2>2
<1>7. packet[1] = 1 /\ inner[5] = service
  <2>1. 1 \in Byte
    BY DEF Byte
  <2>2. packet[0 + 1] = 1
    BY <1>6, <2>1, AtOne
  <2>3. inner[4 + 1] = service
    BY <1>3, AtOne
  <2> QED BY <2>2, <2>3
<1>8. SubSeq(packet, 2, 5) = seed
  <2>1. SubSeq(packet, 1 + 1, 1 + Len(seed)) = seed
    BY <1>6, PartThere DEF Seed4
  <2> QED BY <2>1 DEF Seed4
<1>9. SubSeq(packet, 6, Len(packet)) = cipher
  <2>1. SubSeq(packet, 5 + 1, 5 + Len(cipher)) = cipher
    BY <1>6, PartThere
  <2>2. 5 + Len(cipher) = Len(packet) /\ 5 + 1 = 6
    BY <1>4, <1>5
  <2> QED BY <2>1, <2>2
<1>10. SubSeq(inner, 6, Len(inner)) = payload
  <2>1. SubSeq(inner, 5 + 1, 5 + Len(payload)) = payload
    BY <1>3, PartThere
  <2>2. 5 + Len(payload) = Len(inner) /\ 5 + 1 = 6
    BY <1>1
  <2> QED BY <2>1, <2>2
<1>11. SubSeq(inner, 1, 4) = mac
  <2>1. SubSeq(inner, 0 + 1, 0 + Len(mac)) = mac
    BY <1>3, PartThere
  <2> QED BY <1>2, <2>1
<1>12. Opened(packet, seed, inner, payload)
  BY <1>4, <1>8, <1>9, <1>10 DEF Opened
<1>13. Len(packet) >= 13 /\ (Len(packet) - 5) % 8 = 0
  <2>1. PICK n \in Nat : n = Len(payload)
    OBVIOUS
  <2>2. (n + 4 + 1) % 8 = 0
    BY <2>1 DEF WholeBlocks, HMACSize, BlockSize
  <2>3. n # 0 /\ n # 1 /\ n # 2
    <3>1. (0 + 4 + 1) % 8 # 0 /\ (1 + 4 + 1) % 8 # 0 /\ (2 + 4 + 1) % 8 # 0
      BY SMT
    <3> QED BY <2>2, <3>1, Zenon
  <2>4. 10 + n >= 13 /\ (10 + n) - 5 = n + 4 + 1
    BY <2>3
  <2> QED BY <1>5, <2>1, <2>2, <2>4
<1> QED BY <1>2, <1>5, <1>7, <1>11, <1>12, <1>13, BodyParsed

LEMMA EnvelopeGives ==
  ASSUME NEW packet \in Seq(Byte), ParseLobbyBody(packet) # Refused
  PROVE  \E seed \in Seq(Byte), service \in Byte, payload \in Seq(Byte) :
           /\ Seed4(seed) /\ WholeBlocks(payload) /\ packet = Envelope(seed, service, payload)
           /\ ParseLobbyBody(packet) = ParseRequest(service, payload, seed)
<1>1. PICK seed, plaintext, payload, cipher :
        /\ Opened(packet, seed, plaintext, payload)
        /\ seed = SubSeq(packet, 2, 5) /\ cipher = SubSeq(packet, 6, Len(packet))
        /\ plaintext = Decrypt(seed, cipher) /\ payload = SubSeq(plaintext, 6, Len(plaintext))
  BY Zenon DEF Opened
<1>2. /\ Len(packet) >= 13 /\ packet[1] = 1 /\ (Len(packet) - 5) % 8 = 0
      /\ SubSeq(plaintext, 1, 4) = HMAC(payload)
      /\ ParseLobbyBody(packet) = ParseRequest(plaintext[5], payload, seed)
  BY <1>1, BodyParsed
<1>3. PICK n \in Nat : Len(packet) = n + 5 /\ n >= 8 /\ n % 8 = 0
  <2>1. PICK n : n = Len(packet) - 5
    OBVIOUS
  <2>2. n \in Nat /\ Len(packet) = n + 5 /\ n >= 8 /\ n % 8 = 0
    BY <1>2, <2>1
  <2> QED BY <2>2
<1>4. Seed4(seed) /\ At(packet, 1, seed)
  <2>0. PICK at \in Nat, n4 \in Nat : at = 1 /\ n4 = 4
    OBVIOUS
  <2>1. PICK s : s = SubSeq(packet, at + 1, at + n4)
    OBVIOUS
  <2>2. s \in Seq(Byte) /\ Len(s) = n4 /\ At(packet, at, s)
    <3>1. at + n4 <= Len(packet)
      BY <1>3, <2>0
    <3> QED BY <2>1, <3>1, Part
  <2>3. s = seed
    BY <1>1, <2>0, <2>1
  <2> QED BY <2>0, <2>2, <2>3 DEF Seed4
<1>5. cipher \in Seq(Byte) /\ Len(cipher) = n /\ At(packet, 5, cipher)
  <2>1. PICK s : s = SubSeq(packet, 5 + 1, 5 + n)
    OBVIOUS
  <2>2. s \in Seq(Byte) /\ Len(s) = n /\ At(packet, 5, s)
    BY <1>3, <2>1, Part
  <2>3. s = cipher
    BY <1>1, <1>3, <2>1
  <2> QED BY <2>2, <2>3
<1>6. /\ plaintext \in Seq(Byte) /\ Len(plaintext) = n /\ Encrypt(seed, plaintext) = cipher
  BY <1>1, <1>4, <1>5, CipherIs
<1>7. payload \in Seq(Byte) /\ Len(payload) = n - 5 /\ At(plaintext, 5, payload)
  <2>1. PICK m \in Nat : n = 5 + m
    <3>1. n - 5 \in Nat /\ n = 5 + (n - 5)
      BY <1>3
    <3> QED BY <3>1
  <2>2. PICK s : s = SubSeq(plaintext, 5 + 1, 5 + m)
    OBVIOUS
  <2>3. s \in Seq(Byte) /\ Len(s) = m /\ At(plaintext, 5, s)
    BY <1>6, <2>1, <2>2, Part
  <2>4. s = payload
    BY <1>1, <1>6, <2>1, <2>2
  <2> QED BY <2>1, <2>3, <2>4
<1>8. PICK service \in Byte : service = plaintext[5] /\ At(plaintext, 4, <<service>>)
  <2>1. 5 \in 1..Len(plaintext)
    BY <1>3, <1>6
  <2>2. PICK service \in Byte : service = plaintext[5]
    BY <1>6, <2>1, ElementOfSeq
  <2>3. 4 < Len(plaintext) /\ plaintext[4 + 1] = service
    BY <1>3, <1>6, <2>2
  <2> QED BY <1>6, <2>2, <2>3, AtOne
<1>9. PICK mac \in Seq(Byte) : mac = HMAC(payload) /\ At(plaintext, 0, mac)
  <2>1. PICK s : s = SubSeq(plaintext, 0 + 1, 0 + 4)
    OBVIOUS
  <2>2. s \in Seq(Byte) /\ At(plaintext, 0, s)
    <3>1. 0 + 4 <= Len(plaintext)
      BY <1>3, <1>6
    <3> QED BY <1>6, <2>1, <3>1, Part
  <2>3. s = HMAC(payload)
    BY <1>2, <2>1
  <2> QED BY <2>2, <2>3
<1>10. plaintext = HMAC(payload) \o <<service>> \o payload
  <2>1. PICK inner \in Seq(Byte) :
          /\ inner = HMAC(payload) \o <<service>> \o payload /\ Len(inner) = 5 + Len(payload)
    BY <1>7, MaskedIs
  <2>2. At(plaintext, 0, inner)
    BY <1>6, <1>7, <1>8, <1>9, <2>1, MaskedIs
  <2>3. Len(inner) = Len(plaintext)
    BY <1>6, <1>7, <2>1
  <2> QED BY <1>6, <2>1, <2>2, <2>3, AtWhole
<1>11. packet = Envelope(seed, service, payload)
  <2>1. PICK whole \in Seq(Byte) : /\ whole = Envelope(seed, service, payload)
                                   /\ Len(whole) = 10 + Len(payload)
    BY <1>4, <1>7, EnvelopeIs
  <2>2. At(packet, 0, <<1>>)
    <3>1. 1 \in Byte /\ 0 < Len(packet) /\ packet[0 + 1] = 1
      BY <1>2, <1>3 DEF Byte
    <3> QED BY <3>1, AtOne
  <2>3. At(packet, 0, whole)
    <3>1. At(packet, 0, Envelope(seed, service, payload)) <=>
            At(packet, 0, <<1>>) /\ At(packet, 1, seed) /\ At(packet, 5, Encrypt(seed, plaintext))
      BY <1>4, <1>7, <1>10, EnvelopeIs
    <3> QED BY <1>4, <1>5, <1>6, <2>1, <2>2, <3>1
  <2>4. Len(whole) = Len(packet)
    BY <1>3, <1>7, <2>1
  <2> QED BY <2>1, <2>3, <2>4, AtWhole
<1>12. WholeBlocks(payload)
  <2>1. Len(payload) + 4 + 1 = n
    BY <1>7
  <2> QED BY <1>3, <2>1 DEF WholeBlocks, HMACSize, BlockSize
<1>13. ParseLobbyBody(packet) = ParseRequest(service, payload, seed)
  BY <1>2, <1>8
<1>14. seed \in Seq(Byte)
  BY <1>4 DEF Seed4
<1> QED BY <1>4, <1>7, <1>11, <1>12, <1>13, <1>14

-----------------------------------------------------------------------------
\* A request that fits its fields and that the service supports is understood.
LEMMA LobbyThere ==
  ASSUME NEW k \in LobbyKinds, NEW values, FitsAll(Fields[k], values), Supported(k, values),
         NEW seed, Seed4(seed), NEW r, r = [kind |-> k, seed |-> seed, values |-> values]
  PROVE  /\ Sealed(r, Payload(r)) \in Seq(Byte)
         /\ ParseLobbyBody(Sealed(r, Payload(r))) = r
<1>1. /\ Payload(r) \in Seq(Byte) /\ WholeBlocks(Payload(r))
      /\ ParseRequest(Service[k], Payload(r), seed) = r
  BY PayloadThere DEF Seed4
<1>2. Sealed(r, Payload(r)) = Envelope(seed, Service[k], Payload(r))
  BY DEF Sealed, Envelope
<1>3. PICK service \in Byte : service = Service[k]
  BY KindTypes
<1> QED BY <1>1, <1>2, <1>3, EnvelopeThere

\* And only what clients write is understood.
LEMMA LobbyGives ==
  ASSUME NEW packet \in Seq(Byte), ParseLobbyBody(packet) # Refused
  PROVE  \E k \in LobbyKinds : \E values, seed, r :
           /\ r = [kind |-> k, seed |-> seed, values |-> values]
           /\ FitsAll(Fields[k], values) /\ Supported(k, values) /\ Seed4(seed)
           /\ ParseLobbyBody(packet) = r /\ packet = Sealed(r, Payload(r))
<1>1. PICK seed \in Seq(Byte), service \in Byte, payload \in Seq(Byte) :
        /\ Seed4(seed) /\ WholeBlocks(payload) /\ packet = Envelope(seed, service, payload)
        /\ ParseLobbyBody(packet) = ParseRequest(service, payload, seed)
  BY EnvelopeGives
<1>2. PICK k, values, r :
        /\ k \in LobbyKinds /\ r = [kind |-> k, seed |-> seed, values |-> values]
        /\ Service[k] = service /\ FitsAll(Fields[k], values) /\ Supported(k, values)
        /\ ParseRequest(service, payload, seed) = r /\ payload = Payload(r)
  BY <1>1, PayloadGives DEF Seed4
<1>3. Sealed(r, Payload(r)) = Envelope(seed, service, payload)
  <2>1. r.kind = k /\ r.seed = seed
    BY <1>2
  <2> QED BY <1>2, <2>1, Zenon DEF Sealed, Envelope
<1> QED BY <1>1, <1>2, <1>3

-----------------------------------------------------------------------------
(* Binding requests                                                        *)

\* A part is where it is cut out, and cut out where it is.
LEMMA CutThere ==
  ASSUME NEW bytes \in Seq(Byte), NEW from, NEW to, NEW at \in Nat, NEW n \in Nat,
         from = at + 1, to = at + n, at + n <= Len(bytes)
  PROVE  /\ SubSeq(bytes, from, to) \in Seq(Byte) /\ Len(SubSeq(bytes, from, to)) = n
         /\ At(bytes, at, SubSeq(bytes, from, to))
<1>1. PICK s : s = SubSeq(bytes, at + 1, at + n)
  OBVIOUS
<1>2. s \in Seq(Byte) /\ Len(s) = n /\ At(bytes, at, s)
  BY <1>1, Part
<1> QED BY <1>1, <1>2

LEMMA CutOut ==
  ASSUME NEW bytes \in Seq(Byte), NEW from, NEW to, NEW at \in Nat, NEW s \in Seq(Byte),
         At(bytes, at, s), from = at + 1, to = at + Len(s)
  PROVE  SubSeq(bytes, from, to) = s
BY PartThere

LEMMA Then ==
  ASSUME NEW a \in Seq(Byte), NEW b \in Seq(Byte), NEW s \in Seq(Byte)
  PROVE  \E w \in Seq(Byte) :
           /\ w = a \o b /\ Len(w) = Len(a) + Len(b)
           /\ At(s, 0, w) <=> At(s, 0, a) /\ At(s, Len(a), b)
BY Joined, AtStart

LEMMA Pairs ==
  /\ \A x \in {0, 1, 3, 4, 8} :
       <<0, x>> \in Seq(Byte) /\ Len(<<0, x>>) = 2 /\ <<0, x>>[1] = 0 /\ <<0, x>>[2] = x
  /\ <<0, 0, 0>> \in Seq(Byte) /\ Len(<<0, 0, 0>>) = 3
<1>1. 0 \in Byte /\ 1 \in Byte /\ 8 \in Byte /\ 3 \in Byte /\ 4 \in Byte
  BY DEF Byte
<1>2. \A x, y \in Byte : <<x, y>> \in Seq(Byte) /\ Len(<<x, y>>) = 2 /\ <<x, y>>[1] = x /\ <<x, y>>[2] = y
  OBVIOUS
<1>3. \A x \in Byte : <<x, x, x>> \in Seq(Byte) /\ Len(<<x, x, x>>) = 3
  OBVIOUS
<1> QED BY <1>1, <1>2, <1>3

LEMMA Flags ==
  /\ \A c \in DOMAIN FlagBytes : FlagBytes[c] \in Byte
  /\ \A c, d \in DOMAIN FlagBytes : FlagBytes[c] = FlagBytes[d] => c = d
BY DEF FlagBytes, Byte

\* The parts of a binding request, and where they stand.
LEMMA BindingIs ==
  ASSUME NEW t \in Seq(Byte), Len(t) = 16, NEW c \in DOMAIN FlagBytes, NEW r,
         r.transaction = t, r.change = c, NEW s \in Seq(Byte)
  PROVE  /\ BindingPacket(r) \in Seq(Byte) /\ Len(BindingPacket(r)) = 28
         /\ At(s, 0, BindingPacket(r)) <=>
              /\ At(s, 0, <<0, 1>>) /\ At(s, 2, <<0, 8>>) /\ At(s, 4, t) /\ At(s, 20, <<0, 3>>)
              /\ At(s, 22, <<0, 4>>) /\ At(s, 24, <<0, 0, 0>>) /\ At(s, 27, <<FlagBytes[c]>>)
<1>1. PICK f \in Byte : f = FlagBytes[c]
  BY Flags
<1>2. PICK a \in Seq(Byte), b \in Seq(Byte) :
        a = <<0, 1>> /\ b = <<0, 8>> /\ Len(a) = 2 /\ Len(b) = 2
  BY Pairs
<1>3. PICK d \in Seq(Byte), e \in Seq(Byte) :
        d = <<0, 3>> /\ e = <<0, 4>> /\ Len(d) = 2 /\ Len(e) = 2
  BY Pairs
<1>4. PICK z \in Seq(Byte) : z = <<0, 0, 0>> /\ Len(z) = 3
  BY Pairs
<1>5. PICK g \in Seq(Byte) : g = <<f>> /\ Len(g) = 1
  BY Single
<1>6. PICK h \in Seq(Byte) : h = z \o g /\ Len(h) = 4
  <2>1. PICK h : h = z \o g
    OBVIOUS
  <2>2. h \in Seq(Byte) /\ Len(h) = Len(z) + Len(g)
    BY <2>1, Joined
  <2>3. Len(h) = 4
    BY <1>4, <1>5, <2>2
  <2> QED BY <2>1, <2>2, <2>3
<1>7. h = <<0, 0, 0, f>>
  <2>0. 0 \in Byte
    BY DEF Byte
  <2>1. PICK x \in Byte : x = 0
    BY <2>0
  <2>1a. PICK q : q = <<x, x, x, f>>
    OBVIOUS
  <2>2. q \in Seq(Byte) /\ Len(q) = 4 /\ q[1] = x /\ q[2] = x /\ q[3] = x /\ q[4] = f
    BY <2>1a
  <2>3. z[1] = x /\ z[2] = x /\ z[3] = x /\ g[1] = f
    BY <1>4, <1>5, <2>1
  <2>4. h[1] = z[1] /\ h[2] = z[2] /\ h[3] = z[3] /\ h[4] = g[1]
    <3>1. /\ \A i \in 1..Len(z) : (z \o g)[i] = z[i]
          /\ \A i \in 1..Len(g) : (z \o g)[Len(z) + i] = g[i]
      BY Joined
    <3>2. 1 \in 1..Len(z) /\ 2 \in 1..Len(z) /\ 3 \in 1..Len(z) /\ 1 \in 1..Len(g) /\ Len(z) + 1 = 4
      BY <1>4, <1>5
    <3> QED BY <1>6, <3>1, <3>2
  <2>5. \A i \in 1..4 : i = 1 \/ i = 2 \/ i = 3 \/ i = 4
    OBVIOUS
  <2>6. h = q
    <3>1. \A i \in 1..4 : h[i] = q[i]
      BY <2>2, <2>3, <2>4, <2>5
    <3>2. h \in Seq(Byte) /\ q \in Seq(Byte) /\ Len(q) = Len(h) /\ Len(h) = 4
      BY <1>6, <2>2
    <3>3. At(h, 0, q)
      BY <3>1, <3>2 DEF At
    <3> QED BY <3>2, <3>3, AtWhole
  <2> QED BY <2>1, <2>1a, <2>6
<1>8. PICK p2 \in Seq(Byte) :
        /\ p2 = a \o b /\ Len(p2) = Len(a) + Len(b)
        /\ At(s, 0, p2) <=> At(s, 0, a) /\ At(s, Len(a), b)
  BY Then
<1>9. Len(p2) = 4 /\ Len(a) = 2
  BY <1>2, <1>8
<1>10. PICK p3 \in Seq(Byte) :
        /\ p3 = p2 \o t /\ Len(p3) = Len(p2) + Len(t)
        /\ At(s, 0, p3) <=> At(s, 0, p2) /\ At(s, Len(p2), t)
  BY Then
<1>11. Len(p3) = 20 /\ Len(p2) = 4
  BY <1>9, <1>10
<1>12. PICK p4 \in Seq(Byte) :
        /\ p4 = p3 \o d /\ Len(p4) = Len(p3) + Len(d)
        /\ At(s, 0, p4) <=> At(s, 0, p3) /\ At(s, Len(p3), d)
  BY Then
<1>13. Len(p4) = 22 /\ Len(p3) = 20
  BY <1>3, <1>11, <1>12
<1>14. PICK p5 \in Seq(Byte) :
        /\ p5 = p4 \o e /\ Len(p5) = Len(p4) + Len(e)
        /\ At(s, 0, p5) <=> At(s, 0, p4) /\ At(s, Len(p4), e)
  BY Then
<1>15. Len(p5) = 24 /\ Len(p4) = 22
  BY <1>3, <1>13, <1>14
<1>16. PICK p6 \in Seq(Byte) :
        /\ p6 = p5 \o h /\ Len(p6) = Len(p5) + Len(h)
        /\ At(s, 0, p6) <=> At(s, 0, p5) /\ At(s, Len(p5), h)
  BY Then
<1>17. Len(p6) = 28 /\ Len(p5) = 24
  BY <1>6, <1>15, <1>16
<1>18. At(s, 24, h) <=> At(s, 24, z) /\ At(s, 27, g)
  <2>1. PICK at \in Nat : at = 24 /\ at + Len(z) = 27
    BY <1>4
  <2>2. At(s, at, z \o g) <=> At(s, at, z) /\ At(s, at + Len(z), g)
    BY AtConcat
  <2> QED BY <1>6, <2>1, <2>2
<1>19. BindingPacket(r) = p6
  BY <1>1, <1>2, <1>3, <1>7, <1>8, <1>10, <1>12, <1>14, <1>16, Zenon
     DEF BindingPacket, BindingRequest, BodyLength, ChangeRequest
<1>20. At(s, 0, p6) <=> /\ At(s, 0, a) /\ At(s, 2, b) /\ At(s, 4, t) /\ At(s, 20, d)
                        /\ At(s, 22, e) /\ At(s, 24, z) /\ At(s, 27, g)
  <2>1. At(s, 0, p2) <=> At(s, 0, a) /\ At(s, 2, b)
    BY <1>8, <1>9
  <2>2. At(s, 0, p3) <=> At(s, 0, p2) /\ At(s, 4, t)
    BY <1>10, <1>11
  <2>3. At(s, 0, p4) <=> At(s, 0, p3) /\ At(s, 20, d)
    BY <1>12, <1>13
  <2>4. At(s, 0, p5) <=> At(s, 0, p4) /\ At(s, 22, e)
    BY <1>14, <1>15
  <2>5. At(s, 0, p6) <=> At(s, 0, p5) /\ At(s, 24, h)
    BY <1>16, <1>17
  <2> QED BY <1>18, <2>1, <2>2, <2>3, <2>4, <2>5, Zenon
<1> QED BY <1>1, <1>2, <1>3, <1>4, <1>5, <1>17, <1>19, <1>20, Zenon

Binding(t, c) == [kind |-> "binding", transaction |-> t, change |-> c]

LEMMA BindingFields ==
  ASSUME NEW t, NEW c
  PROVE  Binding(t, c).transaction = t /\ Binding(t, c).change = c
BY DEF Binding

LEMMA BindingThere ==
  ASSUME NEW t \in Seq(Byte), Len(t) = 16, NEW c \in DOMAIN FlagBytes
  PROVE  /\ BindingPacket(Binding(t, c)) \in Seq(Byte)
         /\ ParseBindingRequest(BindingPacket(Binding(t, c))) = Binding(t, c)
<1>1. PICK r : r = Binding(t, c) /\ r.transaction = t /\ r.change = c
  BY BindingFields
<1>2. PICK packet \in Seq(Byte) : packet = BindingPacket(r) /\ Len(packet) = 28
  BY <1>1, BindingIs
<1>3. /\ At(packet, 0, <<0, 1>>) /\ At(packet, 2, <<0, 8>>) /\ At(packet, 4, t)
      /\ At(packet, 20, <<0, 3>>) /\ At(packet, 22, <<0, 4>>) /\ At(packet, 24, <<0, 0, 0>>)
      /\ At(packet, 27, <<FlagBytes[c]>>)
  <2>1. At(packet, 0, packet)
    BY AtWhole
  <2> QED BY <1>1, <1>2, <2>1, BindingIs
<1>4. SubSeq(packet, 1, 2) = <<0, 1>>
  <2>1. PICK s \in Seq(Byte) : s = <<0, 1>> /\ Len(s) = 2
    BY Pairs
  <2>2. 1 = 0 + 1 /\ 2 = 0 + Len(s)
    BY <2>1
  <2> QED BY <1>3, <2>1, <2>2, CutOut
<1>5. SubSeq(packet, 3, 4) = <<0, 8>>
  <2>1. PICK s \in Seq(Byte) : s = <<0, 8>> /\ Len(s) = 2
    BY Pairs
  <2>2. 3 = 2 + 1 /\ 4 = 2 + Len(s)
    BY <2>1
  <2> QED BY <1>3, <2>1, <2>2, CutOut
<1>6. SubSeq(packet, 21, 22) = <<0, 3>>
  <2>1. PICK s \in Seq(Byte) : s = <<0, 3>> /\ Len(s) = 2
    BY Pairs
  <2>2. 21 = 20 + 1 /\ 22 = 20 + Len(s)
    BY <2>1
  <2> QED BY <1>3, <2>1, <2>2, CutOut
<1>7. SubSeq(packet, 23, 24) = <<0, 4>>
  <2>1. PICK s \in Seq(Byte) : s = <<0, 4>> /\ Len(s) = 2
    BY Pairs
  <2>2. 23 = 22 + 1 /\ 24 = 22 + Len(s)
    BY <2>1
  <2> QED BY <1>3, <2>1, <2>2, CutOut
<1>8. SubSeq(packet, 25, 27) = <<0, 0, 0>>
  <2>1. PICK s \in Seq(Byte) : s = <<0, 0, 0>> /\ Len(s) = 3
    BY Pairs
  <2>2. 25 = 24 + 1 /\ 27 = 24 + Len(s)
    BY <2>1
  <2> QED BY <1>3, <2>1, <2>2, CutOut
<1>9. SubSeq(packet, 5, 20) = t
  <2>1. 5 = 4 + 1 /\ 20 = 4 + Len(t)
    OBVIOUS
  <2> QED BY <1>3, <2>1, CutOut
<1>10. packet[28] = FlagBytes[c]
  <2>1. PICK f \in Byte : f = FlagBytes[c]
    BY Flags
  <2>2. packet[27 + 1] = f
    BY <1>3, <2>1, AtOne
  <2> QED BY <2>1, <2>2
<1>11. c = CHOOSE change \in DOMAIN FlagBytes : packet[28] = FlagBytes[change]
  BY <1>10, Flags
<1>12. ParseBindingRequest(packet) = Binding(t, c)
  BY <1>2, <1>4, <1>5, <1>6, <1>7, <1>8, <1>9, <1>10, <1>11
     DEF ParseBindingRequest, Binding, BindingRequestSize, BindingRequest, BodyLength,
         ChangeRequest, HeaderBytes
<1> QED BY <1>1, <1>2, <1>12

LEMMA BindingGives ==
  ASSUME NEW packet \in Seq(Byte), ParseBindingRequest(packet) # NotBinding
  PROVE  \E t \in Seq(Byte), c \in DOMAIN FlagBytes :
           /\ Len(t) = 16 /\ ParseBindingRequest(packet) = Binding(t, c)
           /\ packet = BindingPacket(Binding(t, c))
<1>1. /\ Len(packet) = 28 /\ SubSeq(packet, 1, 2) = <<0, 1>> /\ SubSeq(packet, 3, 4) = <<0, 8>>
      /\ SubSeq(packet, 21, 22) = <<0, 3>> /\ SubSeq(packet, 23, 24) = <<0, 4>>
      /\ SubSeq(packet, 25, 27) = <<0, 0, 0>>
      /\ \E change \in DOMAIN FlagBytes : packet[28] = FlagBytes[change]
  BY DEF ParseBindingRequest, BindingRequestSize, BindingRequest, BodyLength, ChangeRequest
<1>2. PICK c \in DOMAIN FlagBytes :
        /\ packet[28] = FlagBytes[c]
        /\ c = CHOOSE change \in DOMAIN FlagBytes : packet[28] = FlagBytes[change]
  BY <1>1
<1>3. PICK t : t = SubSeq(packet, 5, 20)
  OBVIOUS
<1>4. ParseBindingRequest(packet) = Binding(t, c)
  BY <1>1, <1>2, <1>3
     DEF ParseBindingRequest, Binding, BindingRequestSize, BindingRequest, BodyLength,
         ChangeRequest, HeaderBytes
<1>5. At(packet, 0, <<0, 1>>)
  <2>1. 1 = 0 + 1 /\ 2 = 0 + 2 /\ 0 + 2 <= Len(packet)
    BY <1>1
  <2>2. At(packet, 0, SubSeq(packet, 1, 2))
    BY <2>1, CutThere
  <2> QED BY <1>1, <2>2
<1>6. At(packet, 2, <<0, 8>>)
  <2>1. 3 = 2 + 1 /\ 4 = 2 + 2 /\ 2 + 2 <= Len(packet)
    BY <1>1
  <2>2. At(packet, 2, SubSeq(packet, 3, 4))
    BY <2>1, CutThere
  <2> QED BY <1>1, <2>2
<1>7. At(packet, 20, <<0, 3>>)
  <2>1. 21 = 20 + 1 /\ 22 = 20 + 2 /\ 20 + 2 <= Len(packet)
    BY <1>1
  <2>2. At(packet, 20, SubSeq(packet, 21, 22))
    BY <2>1, CutThere
  <2> QED BY <1>1, <2>2
<1>8. At(packet, 22, <<0, 4>>)
  <2>1. 23 = 22 + 1 /\ 24 = 22 + 2 /\ 22 + 2 <= Len(packet)
    BY <1>1
  <2>2. At(packet, 22, SubSeq(packet, 23, 24))
    BY <2>1, CutThere
  <2> QED BY <1>1, <2>2
<1>9. At(packet, 24, <<0, 0, 0>>)
  <2>1. 25 = 24 + 1 /\ 27 = 24 + 3 /\ 24 + 3 <= Len(packet)
    BY <1>1
  <2>2. At(packet, 24, SubSeq(packet, 25, 27))
    BY <2>1, CutThere
  <2> QED BY <1>1, <2>2
<1>10. t \in Seq(Byte) /\ Len(t) = 16 /\ At(packet, 4, t)
  <2>1. 5 = 4 + 1 /\ 20 = 4 + 16 /\ 4 + 16 <= Len(packet)
    BY <1>1
  <2>2. /\ SubSeq(packet, 5, 20) \in Seq(Byte) /\ Len(SubSeq(packet, 5, 20)) = 16
        /\ At(packet, 4, SubSeq(packet, 5, 20))
    BY <2>1, CutThere
  <2> QED BY <1>3, <2>2
<1>11. At(packet, 27, <<FlagBytes[c]>>)
  <2>1. PICK f \in Byte : f = FlagBytes[c]
    BY Flags
  <2>2. 27 < Len(packet) /\ packet[27 + 1] = f
    BY <1>1, <1>2, <2>1
  <2> QED BY <2>1, <2>2, AtOne
<1>12. PICK r : r = Binding(t, c) /\ r.transaction = t /\ r.change = c
  BY BindingFields
<1>13. PICK whole \in Seq(Byte) : whole = BindingPacket(r) /\ Len(whole) = 28
  BY <1>10, <1>12, BindingIs
<1>14. At(packet, 0, whole)
  BY <1>5, <1>6, <1>7, <1>8, <1>9, <1>10, <1>11, <1>12, <1>13, BindingIs
<1>15. packet = whole
  BY <1>1, <1>13, <1>14, AtWhole
<1> QED BY <1>4, <1>10, <1>12, <1>13, <1>15

-----------------------------------------------------------------------------
(* Tags and whole bytes of a bit stream                                    *)

Tags  == {Untyped} \cup {TypeTags[kind] : kind \in DOMAIN TypeTags}

LEMMA TagBitsAre ==
  /\ TagOf(0) = <<>>
  /\ TagOf(3) = <<1, 1, 0, 0, 0>>
  /\ TagOf(8) = <<0, 0, 0, 1, 0>>
  /\ TagOf(10) = <<0, 1, 0, 1, 0>>
<1>1. TagOf(0) = <<>>
  BY DEF TagOf, Untyped
<1>2. \A n \in Nat : Bits(n, 5) = [i \in 1..5 |-> (n \div 2^(i - 1)) % 2]
  BY DEF Bits
<1>3. \A i \in 1..5 : i = 1 \/ i = 2 \/ i = 3 \/ i = 4 \/ i = 5
  OBVIOUS
<1>4. 2^(1-1) = 1 /\ 2^(2-1) = 2 /\ 2^(3-1) = 4 /\ 2^(4-1) = 8 /\ 2^(5-1) = 16
  OBVIOUS
<1>5. Bits(3, 5) = <<1, 1, 0, 0, 0>>
  <2>1. Bits(3, 5) = [i \in 1..5 |-> <<1, 1, 0, 0, 0>>[i]]
    BY <1>2, <1>3, <1>4
  <2> QED BY <2>1
<1>6. Bits(8, 5) = <<0, 0, 0, 1, 0>>
  <2>1. Bits(8, 5) = [i \in 1..5 |-> <<0, 0, 0, 1, 0>>[i]]
    BY <1>2, <1>3, <1>4
  <2> QED BY <2>1
<1>7. Bits(10, 5) = <<0, 1, 0, 1, 0>>
  <2>1. Bits(10, 5) = [i \in 1..5 |-> <<0, 1, 0, 1, 0>>[i]]
    BY <1>2, <1>3, <1>4
  <2> QED BY <2>1
<1> QED BY <1>1, <1>5, <1>6, <1>7 DEF TagOf, Untyped, TagBits

LEMMA TagsAre == Tags = {0, 3, 8, 10}
BY DEF Tags, TypeTags, Untyped

\* A tag has five bits, and no two are the same.
LEMMA TagsDiffer ==
  /\ \A tag \in Tags : /\ TagOf(tag) \in Seq(Bit)
                       /\ Len(TagOf(tag)) = IF tag = Untyped THEN 0 ELSE 5
  /\ \A a, b \in Tags : TagOf(a) = TagOf(b) => a = b
<1>1. \A tag \in Tags : /\ TagOf(tag) \in Seq(Bit)
                        /\ Len(TagOf(tag)) = IF tag = Untyped THEN 0 ELSE 5
  <2>1. /\ <<>> \in Seq(Bit) /\ Len(<<>>) = 0
        /\ <<1, 1, 0, 0, 0>> \in Seq(Bit) /\ Len(<<1, 1, 0, 0, 0>>) = 5
        /\ <<0, 0, 0, 1, 0>> \in Seq(Bit) /\ Len(<<0, 0, 0, 1, 0>>) = 5
        /\ <<0, 1, 0, 1, 0>> \in Seq(Bit) /\ Len(<<0, 1, 0, 1, 0>>) = 5
    BY DEF Bit
  <2> QED BY <2>1, TagBitsAre, TagsAre DEF Untyped
<1>2. \A a, b \in Tags : TagOf(a) = TagOf(b) => a = b
  <2>1. /\ <<1, 1, 0, 0, 0>>[1] = 1 /\ <<0, 0, 0, 1, 0>>[1] = 0 /\ <<0, 1, 0, 1, 0>>[1] = 0
        /\ <<0, 0, 0, 1, 0>>[2] = 0 /\ <<0, 1, 0, 1, 0>>[2] = 1
        /\ Len(<<1, 1, 0, 0, 0>>) = 5 /\ Len(<<0, 0, 0, 1, 0>>) = 5
        /\ Len(<<0, 1, 0, 1, 0>>) = 5 /\ Len(<<>>) = 0
    OBVIOUS
  <2> QED BY <2>1, TagBitsAre, TagsAre
<1> QED BY <1>1, <1>2

LEMMA PaddedAre ==
  /\ \A n \in Nat : Padded(n) \in Nat /\ Padded(n) >= n
  /\ \A m, n \in Nat : Padded(n) <= Padded(n + m)
<1>1. \A n \in Nat : 8 * ((n + 8 - 1) \div 8) \in Nat /\ 8 * ((n + 8 - 1) \div 8) >= n
  OBVIOUS
<1>2. \A m, n \in Nat : 8 * ((n + 8 - 1) \div 8) <= 8 * ((n + m + 8 - 1) \div 8)
  OBVIOUS
<1> QED BY <1>1, <1>2 DEF Padded, ByteBits

\* What is written ends at the offset, and zeros pad it to whole bytes.
EndsAt(d, offset) ==
  Len(d) = Padded(offset) /\ \A i \in DOMAIN d : i > offset => d[i] = 0

Extends(put, d, offset, bits) ==
  /\ put \in Seq(Bit) /\ EndsAt(put, offset + Len(bits))
  /\ \A i \in 1..offset : put[i] = d[i]
  /\ \A i \in DOMAIN bits : put[offset + i] = bits[i]

\* A value put behind the written bits is there, and nothing before it changes.
LEMMA PutBehind ==
  ASSUME NEW d \in Seq(Bit), NEW offset \in Nat, NEW bits \in Seq(Bit), EndsAt(d, offset)
  PROVE  Extends(Put(d, offset, bits), d, offset, bits)
<1> USE DEF EndsAt
<1> DEFINE put == Put(d, offset, bits)
           new == Padded(offset + Len(bits))
           bit(i) == IF i > offset /\ i <= offset + Len(bits) /\ bits[i - offset] = 1
                     THEN 1 ELSE Stored(d, offset, i)
<1>1. /\ Len(bits) \in Nat /\ DOMAIN bits = 1..Len(bits)
      /\ Len(d) \in Nat /\ DOMAIN d = 1..Len(d) /\ offset <= Len(d)
      /\ new \in Nat /\ offset + Len(bits) <= new /\ Len(d) <= new
  <2>1. Len(bits) \in Nat /\ DOMAIN bits = 1..Len(bits) /\ offset + Len(bits) \in Nat
    OBVIOUS
  <2>2. /\ Padded(offset) >= offset
        /\ new \in Nat /\ new >= offset + Len(bits) /\ Padded(offset) <= new
    BY <2>1, PaddedAre
  <2> QED BY <2>1, <2>2
<1>2. put = [i \in 1..new |-> bit(i)]
  BY DEF Put
<1>3. \A i \in 1..new : bit(i) \in Bit
  BY <1>1 DEF Stored, Bit
<1>4. \A i \in 1..offset : bit(i) = d[i]
  BY <1>1 DEF Stored
<1>5. \A i \in DOMAIN bits : bit(offset + i) = bits[i] /\ offset + i \in 1..new
  <2> SUFFICES ASSUME NEW i \in DOMAIN bits
               PROVE  bit(offset + i) = bits[i] /\ offset + i \in 1..new
    OBVIOUS
  <2>1. /\ offset + i > offset /\ offset + i <= offset + Len(bits)
        /\ (offset + i) - offset = i /\ offset + i \in 1..new
    BY <1>1
  <2>2. bits[i] = 0 \/ bits[i] = 1
    BY DEF Bit
  <2>3. Stored(d, offset, offset + i) = 0
    BY <1>1, <2>1 DEF Stored
  <2> QED BY <2>1, <2>2, <2>3
<1>6. \A i \in 1..new : i > offset + Len(bits) => bit(i) = 0
  <2> SUFFICES ASSUME NEW i \in 1..new, i > offset + Len(bits) PROVE bit(i) = 0
    OBVIOUS
  <2>1. ~ (i <= offset + Len(bits)) /\ i > offset
    BY <1>1
  <2> QED BY <1>1, <2>1 DEF Stored
<1> HIDE DEF bit, new, put
<1>7. put \in [1..new -> Bit]
  BY <1>2, <1>3
<1>8. put \in Seq(Bit) /\ Len(put) = new /\ DOMAIN put = 1..new
  BY <1>1, <1>7
<1>9. \A i \in 1..offset : i \in 1..new
  BY <1>1
<1> QED BY <1>2, <1>4, <1>5, <1>6, <1>8, <1>9 DEF put, new, Extends

LEMMA EncodedAre ==
  ASSUME NEW tag \in Tags, NEW bits \in Seq(Bit)
  PROVE  LET encoded == TagOf(tag) \o bits
         IN  /\ encoded \in Seq(Bit) /\ DOMAIN encoded = 1..Len(encoded)
             /\ Len(encoded) = Len(TagOf(tag)) + Len(bits)
             /\ \A i \in 1..Len(TagOf(tag)) : encoded[i] = TagOf(tag)[i]
             /\ \A i \in 1..Len(bits) : encoded[Len(TagOf(tag)) + i] = bits[i]
<1>1. TagOf(tag) \in Seq(Bit)
  BY TagsDiffer
<1> DEFINE t == TagOf(tag)
<1> HIDE DEF t
<1>2. ASSUME t \in Seq(Bit)
      PROVE  /\ t \o bits \in Seq(Bit) /\ DOMAIN (t \o bits) = 1..Len(t \o bits)
             /\ Len(t \o bits) = Len(t) + Len(bits)
             /\ \A i \in 1..Len(t) : (t \o bits)[i] = t[i]
             /\ \A i \in 1..Len(bits) : (t \o bits)[Len(t) + i] = bits[i]
  BY <1>2
<1> QED BY <1>1, <1>2 DEF t

-----------------------------------------------------------------------------
(* A byte and its bits                                                     *)

\* Bits are bytes too.
LEMMA BitSeqs == Bit \subseteq Byte /\ \A s \in Seq(Bit) : s \in Seq(Byte)
<1>1. Bit \subseteq Byte
  BY DEF Bit, Byte
<1>2. ASSUME NEW s \in Seq(Bit) PROVE s \in Seq(Byte)
  BY <1>1
<1> QED BY <1>1, <1>2

LEMMA Powers ==
  /\ 2^0 = 1 /\ 2^1 = 2 /\ 2^2 = 4 /\ 2^3 = 8 /\ 2^4 = 16 /\ 2^5 = 32 /\ 2^6 = 64 /\ 2^7 = 128
  /\ 2^(1-1) = 1 /\ 2^(2-1) = 2 /\ 2^(3-1) = 4 /\ 2^(4-1) = 8
  /\ 2^(5-1) = 16 /\ 2^(6-1) = 32 /\ 2^(7-1) = 64 /\ 2^(8-1) = 128
OBVIOUS

BitOf(b, k) == (b \div 2^k) % 2

Sum8(x1, x2, x3, x4, x5, x6, x7, x8) ==
  x1 + 2 * x2 + 4 * x3 + 8 * x4 + 16 * x5 + 32 * x6 + 64 * x7 + 128 * x8

LEMMA BitsOf ==
  ASSUME NEW b \in Nat
  PROVE  /\ BitOf(b, 0) = b % 2 /\ BitOf(b, 1) = (b \div 2) % 2
         /\ BitOf(b, 2) = (b \div 4) % 2 /\ BitOf(b, 3) = (b \div 8) % 2
         /\ BitOf(b, 4) = (b \div 16) % 2 /\ BitOf(b, 5) = (b \div 32) % 2
         /\ BitOf(b, 6) = (b \div 64) % 2 /\ BitOf(b, 7) = (b \div 128) % 2
         /\ \A k \in 0..7 : BitOf(b, k) \in Bit
<1>1. b \div 1 = b
  OBVIOUS
<1>2. /\ BitOf(b, 0) = b % 2 /\ BitOf(b, 1) = (b \div 2) % 2
      /\ BitOf(b, 2) = (b \div 4) % 2 /\ BitOf(b, 3) = (b \div 8) % 2
      /\ BitOf(b, 4) = (b \div 16) % 2 /\ BitOf(b, 5) = (b \div 32) % 2
      /\ BitOf(b, 6) = (b \div 64) % 2 /\ BitOf(b, 7) = (b \div 128) % 2
  BY <1>1, Powers DEF BitOf
<1>3. \A n \in Nat : n % 2 \in Bit
  BY DEF Bit
<1>4. /\ b \div 2 \in Nat /\ b \div 4 \in Nat /\ b \div 8 \in Nat /\ b \div 16 \in Nat
      /\ b \div 32 \in Nat /\ b \div 64 \in Nat /\ b \div 128 \in Nat
  OBVIOUS
<1>5. \A k \in 0..7 : k = 0 \/ k = 1 \/ k = 2 \/ k = 3 \/ k = 4 \/ k = 5 \/ k = 6 \/ k = 7
  OBVIOUS
<1> QED BY <1>2, <1>3, <1>4, <1>5

LEMMA ByteOfBits ==
  ASSUME NEW b \in Byte
  PROVE  b = Sum8(BitOf(b, 0), BitOf(b, 1), BitOf(b, 2), BitOf(b, 3),
                  BitOf(b, 4), BitOf(b, 5), BitOf(b, 6), BitOf(b, 7))
<1>1. b \in Nat /\ b < 256
  BY DEF Byte
<1>2. /\ b = (b % 2) + 2 * (b \div 2)
      /\ b \div 2 = ((b \div 2) % 2) + 2 * (b \div 4)
      /\ b \div 4 = ((b \div 4) % 2) + 2 * (b \div 8)
      /\ b \div 8 = ((b \div 8) % 2) + 2 * (b \div 16)
      /\ b \div 16 = ((b \div 16) % 2) + 2 * (b \div 32)
      /\ b \div 32 = ((b \div 32) % 2) + 2 * (b \div 64)
      /\ b \div 64 = ((b \div 64) % 2) + 2 * (b \div 128)
      /\ b \div 128 = (b \div 128) % 2
  BY <1>1
<1>3. PICK c0 \in Nat, c1 \in Nat, c2 \in Nat, c3 \in Nat, c4 \in Nat, c5 \in Nat,
           c6 \in Nat, c7 \in Nat :
        /\ c0 = b % 2 /\ c1 = (b \div 2) % 2 /\ c2 = (b \div 4) % 2 /\ c3 = (b \div 8) % 2
        /\ c4 = (b \div 16) % 2 /\ c5 = (b \div 32) % 2 /\ c6 = (b \div 64) % 2
        /\ c7 = (b \div 128) % 2
  BY <1>1
<1>4. PICK h1 \in Nat, h2 \in Nat, h3 \in Nat, h4 \in Nat, h5 \in Nat, h6 \in Nat,
           h7 \in Nat :
        /\ h1 = b \div 2 /\ h2 = b \div 4 /\ h3 = b \div 8 /\ h4 = b \div 16
        /\ h5 = b \div 32 /\ h6 = b \div 64 /\ h7 = b \div 128
  BY <1>1
<1>5. /\ b = c0 + 2 * h1 /\ h1 = c1 + 2 * h2 /\ h2 = c2 + 2 * h3 /\ h3 = c3 + 2 * h4
      /\ h4 = c4 + 2 * h5 /\ h5 = c5 + 2 * h6 /\ h6 = c6 + 2 * h7 /\ h7 = c7
  BY <1>2, <1>3, <1>4
<1>6. b = Sum8(c0, c1, c2, c3, c4, c5, c6, c7)
  BY <1>1, <1>5 DEF Sum8
<1> QED BY <1>1, <1>3, <1>6, BitsOf

\* What the sum of eight bits is.
Summed(x1, x2, x3, x4, x5, x6, x7, x8) ==
  LET s == Sum8(x1, x2, x3, x4, x5, x6, x7, x8)
  IN  /\ s \in Byte
      /\ BitOf(s, 0) = x1 /\ BitOf(s, 1) = x2 /\ BitOf(s, 2) = x3 /\ BitOf(s, 3) = x4
      /\ BitOf(s, 4) = x5 /\ BitOf(s, 5) = x6 /\ BitOf(s, 6) = x7 /\ BitOf(s, 7) = x8
      /\ (s < 8 <=> x4 = 0 /\ x5 = 0 /\ x6 = 0 /\ x7 = 0 /\ x8 = 0)

LEMMA BitsOfSum ==
  ASSUME NEW x1 \in Bit, NEW x2 \in Bit, NEW x3 \in Bit, NEW x4 \in Bit,
         NEW x5 \in Bit, NEW x6 \in Bit, NEW x7 \in Bit, NEW x8 \in Bit
  PROVE  Summed(x1, x2, x3, x4, x5, x6, x7, x8)
<1> DEFINE s == Sum8(x1, x2, x3, x4, x5, x6, x7, x8)
<1>1. /\ x1 \in {0, 1} /\ x2 \in {0, 1} /\ x3 \in {0, 1} /\ x4 \in {0, 1}
      /\ x5 \in {0, 1} /\ x6 \in {0, 1} /\ x7 \in {0, 1} /\ x8 \in {0, 1}
  BY DEF Bit
<1>2. s = x1 + 2 * x2 + 4 * x3 + 8 * x4 + 16 * x5 + 32 * x6 + 64 * x7 + 128 * x8
  BY DEF Sum8
<1> HIDE DEF s
<1>3. s \in Nat /\ s \in 0..255
  BY <1>1, <1>2
<1>4. /\ s % 2 = x1 /\ (s \div 2) % 2 = x2 /\ (s \div 4) % 2 = x3 /\ (s \div 8) % 2 = x4
      /\ (s \div 16) % 2 = x5 /\ (s \div 32) % 2 = x6 /\ (s \div 64) % 2 = x7
      /\ (s \div 128) % 2 = x8
  BY <1>1, <1>2
<1>5. s < 8 <=> x4 = 0 /\ x5 = 0 /\ x6 = 0 /\ x7 = 0 /\ x8 = 0
  BY <1>1, <1>2
<1>6. s \in Byte
  BY <1>3 DEF Byte
<1>7. /\ BitOf(s, 0) = x1 /\ BitOf(s, 1) = x2 /\ BitOf(s, 2) = x3 /\ BitOf(s, 3) = x4
      /\ BitOf(s, 4) = x5 /\ BitOf(s, 5) = x6 /\ BitOf(s, 6) = x7 /\ BitOf(s, 7) = x8
  <2>1. BitOf(s, 0) = s % 2
    BY <1>3, BitsOf
  <2>2. BitOf(s, 1) = (s \div 2) % 2
    BY <1>3, BitsOf
  <2>3. BitOf(s, 2) = (s \div 4) % 2
    BY <1>3, BitsOf
  <2>4. BitOf(s, 3) = (s \div 8) % 2
    BY <1>3, BitsOf
  <2>5. BitOf(s, 4) = (s \div 16) % 2
    BY <1>3, BitsOf
  <2>6. BitOf(s, 5) = (s \div 32) % 2
    BY <1>3, BitsOf
  <2>7. BitOf(s, 6) = (s \div 64) % 2
    BY <1>3, BitsOf
  <2>8. BitOf(s, 7) = (s \div 128) % 2
    BY <1>3, BitsOf
  <2> QED BY <1>4, <2>1, <2>2, <2>3, <2>4, <2>5, <2>6, <2>7, <2>8, Zenon
<1> QED BY <1>5, <1>6, <1>7 DEF s, Summed

-----------------------------------------------------------------------------
(* Packing and unpacking                                                   *)

\* Bit k of byte j is bit 8 * (j - 1) + k + 1.
LEMMA Position ==
  ASSUME NEW n \in Nat
  PROVE  /\ \A j \in 1..n : \A k \in 0..7 :
              /\ 8 * (j - 1) + k + 1 \in 1..8 * n
              /\ ((8 * (j - 1) + k + 1) - 1) \div 8 + 1 = j
              /\ ((8 * (j - 1) + k + 1) - 1) % 8 = k
         /\ \A i \in 1..8 * n :
              \E j \in 1..n : \E k \in 0..7 : i = 8 * (j - 1) + k + 1
<1>1. ASSUME NEW j \in 1..n, NEW k \in 0..7
      PROVE  /\ 8 * (j - 1) + k + 1 \in 1..8 * n
             /\ ((8 * (j - 1) + k + 1) - 1) \div 8 + 1 = j
             /\ ((8 * (j - 1) + k + 1) - 1) % 8 = k
  <2>1. PICK m \in Nat : m = j - 1 /\ m < n
    OBVIOUS
  <2>2. PICK i \in Nat : i = 8 * m + k /\ i + 1 \in 1..8 * n
    BY <2>1
  <2>3. i \div 8 = m /\ i % 8 = k
    BY <2>2
  <2>4. (8 * (j - 1) + k + 1) - 1 = i /\ 8 * (j - 1) + k + 1 = i + 1
    BY <2>1, <2>2
  <2> QED BY <2>1, <2>2, <2>3, <2>4
<1>2. ASSUME NEW i \in 1..8 * n
      PROVE  \E j \in 1..n : \E k \in 0..7 : i = 8 * (j - 1) + k + 1
  <2>1. PICK h \in Nat : h = i - 1 /\ h < 8 * n
    OBVIOUS
  <2>2. PICK m \in Nat, k \in 0..7 : h = 8 * m + k
    <3>1. h \div 8 \in Nat /\ h % 8 \in 0..7 /\ h = 8 * (h \div 8) + (h % 8)
      OBVIOUS
    <3> QED BY <3>1
  <2>3. m + 1 \in 1..n /\ i = 8 * ((m + 1) - 1) + k + 1
    BY <2>1, <2>2
  <2> QED BY <2>3
<1> QED BY <1>1, <1>2

LEMMA UnpackedIs ==
  ASSUME NEW s \in Seq(Byte)
  PROVE  /\ Unpacked(s) \in Seq(Bit) /\ Len(Unpacked(s)) = 8 * Len(s)
         /\ \A j \in 1..Len(s) : \A k \in 0..7 :
              Unpacked(s)[8 * (j - 1) + k + 1] = BitOf(s[j], k)
<1> DEFINE n == Len(s)
           bit(i) == (s[(i - 1) \div 8 + 1] \div 2^((i - 1) % 8)) % 2
<1>1. n \in Nat /\ 8 * n \in Nat /\ \A j \in 1..n : s[j] \in Nat
  <2>1. n \in Nat /\ 8 * n \in Nat /\ \A j \in 1..n : s[j] \in Byte
    OBVIOUS
  <2>2. Byte \subseteq Nat
    BY DEF Byte
  <2> QED BY <2>1, <2>2
<1>2. Unpacked(s) = [i \in 1..8 * n |-> bit(i)]
  BY DEF Unpacked, ByteBits
<1> HIDE DEF n
<1>3. \A j \in 1..n : \A k \in 0..7 : bit(8 * (j - 1) + k + 1) = BitOf(s[j], k)
  BY <1>1, Position DEF BitOf
<1> HIDE DEF bit
<1>4. \A j \in 1..n : \A k \in 0..7 : BitOf(s[j], k) \in Bit
  BY <1>1, BitsOf
<1>5. ASSUME NEW i \in 1..8 * n PROVE bit(i) \in Bit
  <2>1. PICK j \in 1..n, k \in 0..7 : i = 8 * (j - 1) + k + 1
    BY <1>1, Position
  <2>2. bit(8 * (j - 1) + k + 1) = BitOf(s[j], k) /\ BitOf(s[j], k) \in Bit
    BY <1>3, <1>4
  <2> QED BY <2>1, <2>2
<1>6. Unpacked(s) \in [1..8 * n -> Bit]
  BY <1>2, <1>5
<1>7. Unpacked(s) \in Seq(Bit) /\ Len(Unpacked(s)) = 8 * n
  BY <1>1, <1>6
<1>8. \A j \in 1..n : \A k \in 0..7 : 8 * (j - 1) + k + 1 \in 1..8 * n
  BY <1>1, Position
<1>9. \A j \in 1..n : \A k \in 0..7 : Unpacked(s)[8 * (j - 1) + k + 1] = BitOf(s[j], k)
  BY <1>2, <1>3, <1>8
<1> QED BY <1>7, <1>9 DEF n

Eight(d, j) ==
  Sum8(d[8 * (j - 1) + 1], d[8 * (j - 1) + 2], d[8 * (j - 1) + 3], d[8 * (j - 1) + 4],
       d[8 * (j - 1) + 5], d[8 * (j - 1) + 6], d[8 * (j - 1) + 7], d[8 * (j - 1) + 8])

LEMMA PackedIs ==
  ASSUME NEW d \in Seq(Bit), NEW n \in Nat, Len(d) = 8 * n
  PROVE  /\ Packed(d) \in Seq(Byte) /\ Len(Packed(d)) = n
         /\ \A j \in 1..n : Packed(d)[j] = Eight(d, j)
<1>1. Len(d) \div 8 = n
  OBVIOUS
<1>2. ASSUME NEW j \in 1..n PROVE ByteAt(d, j) = Eight(d, j) /\ Eight(d, j) \in Byte
  <2>1. PICK m \in Nat : m = 8 * (j - 1) /\ m + 8 <= Len(d)
    OBVIOUS
  <2>2. PICK x1 \in Bit, x2 \in Bit, x3 \in Bit, x4 \in Bit, x5 \in Bit, x6 \in Bit,
             x7 \in Bit, x8 \in Bit :
          /\ x1 = d[m + 1] /\ x2 = d[m + 2] /\ x3 = d[m + 3] /\ x4 = d[m + 4]
          /\ x5 = d[m + 5] /\ x6 = d[m + 6] /\ x7 = d[m + 7] /\ x8 = d[m + 8]
    <3>1. \A i \in 1..Len(d) : d[i] \in Bit
      OBVIOUS
    <3>2. /\ m + 1 \in 1..Len(d) /\ m + 2 \in 1..Len(d) /\ m + 3 \in 1..Len(d)
          /\ m + 4 \in 1..Len(d) /\ m + 5 \in 1..Len(d) /\ m + 6 \in 1..Len(d)
          /\ m + 7 \in 1..Len(d) /\ m + 8 \in 1..Len(d)
      BY <2>1
    <3>3. /\ d[m + 1] \in Bit /\ d[m + 2] \in Bit /\ d[m + 3] \in Bit /\ d[m + 4] \in Bit
          /\ d[m + 5] \in Bit /\ d[m + 6] \in Bit /\ d[m + 7] \in Bit /\ d[m + 8] \in Bit
      BY <3>1, <3>2
    <3> QED BY <3>3
  <2>3. Eight(d, j) = Sum8(x1, x2, x3, x4, x5, x6, x7, x8)
    BY <2>1, <2>2 DEF Eight
  <2>4. Sum8(x1, x2, x3, x4, x5, x6, x7, x8) \in Byte
    BY BitsOfSum DEF Summed
  <2>5. ByteAt(d, j) = 1 * x1 + 2 * x2 + 4 * x3 + 8 * x4 + 16 * x5 + 32 * x6 + 64 * x7 + 128 * x8
    BY <2>1, <2>2, Powers DEF ByteAt, ByteBits
  <2>6. ByteAt(d, j) = Sum8(x1, x2, x3, x4, x5, x6, x7, x8)
    BY <2>5 DEF Sum8, Bit
  <2> QED BY <2>3, <2>4, <2>6
<1>3. Packed(d) = [j \in 1..n |-> ByteAt(d, j)]
  BY <1>1 DEF Packed, ByteBits
<1> QED BY <1>2, <1>3

LEMMA PackedUnpacked ==
  ASSUME NEW s \in Seq(Byte)
  PROVE  Packed(Unpacked(s)) = s
<1>1. PICK d \in Seq(Bit) :
        /\ d = Unpacked(s) /\ Len(d) = 8 * Len(s)
        /\ \A j \in 1..Len(s) : \A k \in 0..7 : d[8 * (j - 1) + k + 1] = BitOf(s[j], k)
  BY UnpackedIs
<1>2. PICK t \in Seq(Byte) :
        t = Packed(d) /\ Len(t) = Len(s) /\ \A j \in 1..Len(s) : t[j] = Eight(d, j)
  <2>1. PICK n \in Nat : n = Len(s)
    OBVIOUS
  <2>2. Len(d) = 8 * n
    BY <1>1, <2>1
  <2>3. /\ Packed(d) \in Seq(Byte) /\ Len(Packed(d)) = n
        /\ \A j \in 1..n : Packed(d)[j] = Eight(d, j)
    BY <2>2, PackedIs
  <2> QED BY <2>1, <2>3, Zenon
<1>3. ASSUME NEW j \in 1..Len(s) PROVE Eight(d, j) = s[j]
  <2>1. PICK m \in Nat : m = 8 * (j - 1)
    OBVIOUS
  <2>2. \A k \in 0..7 : d[m + k + 1] = BitOf(s[j], k)
    BY <1>1, <2>1
  <2>3. /\ m + 0 + 1 = m + 1 /\ m + 1 + 1 = m + 2 /\ m + 2 + 1 = m + 3 /\ m + 3 + 1 = m + 4
        /\ m + 4 + 1 = m + 5 /\ m + 5 + 1 = m + 6 /\ m + 6 + 1 = m + 7 /\ m + 7 + 1 = m + 8
    OBVIOUS
  <2>4. /\ d[m + 1] = BitOf(s[j], 0) /\ d[m + 2] = BitOf(s[j], 1) /\ d[m + 3] = BitOf(s[j], 2)
        /\ d[m + 4] = BitOf(s[j], 3) /\ d[m + 5] = BitOf(s[j], 4) /\ d[m + 6] = BitOf(s[j], 5)
        /\ d[m + 7] = BitOf(s[j], 6) /\ d[m + 8] = BitOf(s[j], 7)
    BY <2>2, <2>3
  <2>5. s[j] \in Byte
    OBVIOUS
  <2> QED BY <2>1, <2>4, <2>5, ByteOfBits DEF Eight
<1>4. t = s
  BY <1>2, <1>3
<1> QED BY <1>1, <1>2, <1>4

LEMMA UnpackedPacked ==
  ASSUME NEW d \in Seq(Bit), NEW n \in Nat, Len(d) = 8 * n
  PROVE  Unpacked(Packed(d)) = d
<1>1. PICK s \in Seq(Byte) :
        s = Packed(d) /\ Len(s) = n /\ \A j \in 1..n : s[j] = Eight(d, j)
  BY PackedIs
<1>2. PICK e \in Seq(Bit) :
        /\ e = Unpacked(s) /\ Len(e) = 8 * n
        /\ \A j \in 1..n : \A k \in 0..7 : e[8 * (j - 1) + k + 1] = BitOf(s[j], k)
  BY <1>1, UnpackedIs
<1>3. ASSUME NEW j \in 1..n, NEW k \in 0..7
      PROVE  e[8 * (j - 1) + k + 1] = d[8 * (j - 1) + k + 1]
  <2>1. PICK m \in Nat : m = 8 * (j - 1) /\ m + 8 <= Len(d)
    OBVIOUS
  <2>2. PICK x1 \in Bit, x2 \in Bit, x3 \in Bit, x4 \in Bit, x5 \in Bit, x6 \in Bit,
             x7 \in Bit, x8 \in Bit :
          /\ x1 = d[m + 1] /\ x2 = d[m + 2] /\ x3 = d[m + 3] /\ x4 = d[m + 4]
          /\ x5 = d[m + 5] /\ x6 = d[m + 6] /\ x7 = d[m + 7] /\ x8 = d[m + 8]
    <3>1. \A i \in 1..Len(d) : d[i] \in Bit
      OBVIOUS
    <3>2. /\ m + 1 \in 1..Len(d) /\ m + 2 \in 1..Len(d) /\ m + 3 \in 1..Len(d)
          /\ m + 4 \in 1..Len(d) /\ m + 5 \in 1..Len(d) /\ m + 6 \in 1..Len(d)
          /\ m + 7 \in 1..Len(d) /\ m + 8 \in 1..Len(d)
      BY <2>1
    <3>3. /\ d[m + 1] \in Bit /\ d[m + 2] \in Bit /\ d[m + 3] \in Bit /\ d[m + 4] \in Bit
          /\ d[m + 5] \in Bit /\ d[m + 6] \in Bit /\ d[m + 7] \in Bit /\ d[m + 8] \in Bit
      BY <3>1, <3>2
    <3> QED BY <3>3
  <2>3. s[j] = Sum8(x1, x2, x3, x4, x5, x6, x7, x8)
    BY <1>1, <2>1, <2>2 DEF Eight
  <2>4. /\ x1 = BitOf(s[j], 0) /\ x2 = BitOf(s[j], 1) /\ x3 = BitOf(s[j], 2)
        /\ x4 = BitOf(s[j], 3) /\ x5 = BitOf(s[j], 4) /\ x6 = BitOf(s[j], 5)
        /\ x7 = BitOf(s[j], 6) /\ x8 = BitOf(s[j], 7)
    <3>1. Summed(x1, x2, x3, x4, x5, x6, x7, x8)
      BY BitsOfSum
    <3> QED BY <2>3, <3>1 DEF Summed
  <2>5. k = 0 \/ k = 1 \/ k = 2 \/ k = 3 \/ k = 4 \/ k = 5 \/ k = 6 \/ k = 7
    OBVIOUS
  <2>6. /\ m + 0 + 1 = m + 1 /\ m + 1 + 1 = m + 2 /\ m + 2 + 1 = m + 3 /\ m + 3 + 1 = m + 4
        /\ m + 4 + 1 = m + 5 /\ m + 5 + 1 = m + 6 /\ m + 6 + 1 = m + 7 /\ m + 7 + 1 = m + 8
    OBVIOUS
  <2>7. d[m + k + 1] = BitOf(s[j], k)
    BY <2>2, <2>4, <2>5, <2>6
  <2>8. e[m + k + 1] = BitOf(s[j], k)
    BY <1>2, <2>1
  <2> QED BY <2>1, <2>7, <2>8
<1>4. ASSUME NEW i \in 1..8 * n PROVE e[i] = d[i]
  <2>1. PICK j \in 1..n, k \in 0..7 : i = 8 * (j - 1) + k + 1
    BY Position
  <2> QED BY <1>3, <2>1
<1>5. e = d
  BY <1>2, <1>4
<1> QED BY <1>1, <1>2, <1>5

\* The last byte is small when its high bits are zero.
LEMMA LastByte ==
  ASSUME NEW s \in Seq(Byte), NEW n \in Nat, Len(s) = n + 1
  PROVE  s[n + 1] < 8 <=> \A i \in 8 * n + 4..8 * n + 8 : Unpacked(s)[i] = 0
<1>1. PICK d \in Seq(Bit) :
        /\ d = Unpacked(s)
        /\ \A j \in 1..Len(s) : \A k \in 0..7 : d[8 * (j - 1) + k + 1] = BitOf(s[j], k)
  BY UnpackedIs
<1>2. PICK b \in Byte : b = s[n + 1]
  OBVIOUS
<1>3. \A k \in 0..7 : d[8 * n + k + 1] = BitOf(b, k)
  <2>1. n + 1 \in 1..Len(s) /\ (n + 1) - 1 = n
    OBVIOUS
  <2> QED BY <1>1, <1>2, <2>1
<1>4. PICK m \in Nat : m = 8 * n
  OBVIOUS
<1>5. /\ d[m + 4] = BitOf(b, 3) /\ d[m + 5] = BitOf(b, 4) /\ d[m + 6] = BitOf(b, 5)
      /\ d[m + 7] = BitOf(b, 6) /\ d[m + 8] = BitOf(b, 7)
  <2>1. /\ m + 3 + 1 = m + 4 /\ m + 4 + 1 = m + 5 /\ m + 5 + 1 = m + 6 /\ m + 6 + 1 = m + 7
        /\ m + 7 + 1 = m + 8
    OBVIOUS
  <2> QED BY <1>3, <1>4, <2>1
<1>6. \A i \in m + 4..m + 8 : i = m + 4 \/ i = m + 5 \/ i = m + 6 \/ i = m + 7 \/ i = m + 8
  OBVIOUS
<1>7. b < 8 <=> /\ BitOf(b, 3) = 0 /\ BitOf(b, 4) = 0 /\ BitOf(b, 5) = 0 /\ BitOf(b, 6) = 0
                /\ BitOf(b, 7) = 0
  <2>1. b \in Nat
    BY DEF Byte
  <2>2. PICK x1 \in Bit, x2 \in Bit, x3 \in Bit, x4 \in Bit, x5 \in Bit, x6 \in Bit,
             x7 \in Bit, x8 \in Bit :
          /\ x1 = BitOf(b, 0) /\ x2 = BitOf(b, 1) /\ x3 = BitOf(b, 2) /\ x4 = BitOf(b, 3)
          /\ x5 = BitOf(b, 4) /\ x6 = BitOf(b, 5) /\ x7 = BitOf(b, 6) /\ x8 = BitOf(b, 7)
    <3>1. /\ BitOf(b, 0) \in Bit /\ BitOf(b, 1) \in Bit /\ BitOf(b, 2) \in Bit
          /\ BitOf(b, 3) \in Bit /\ BitOf(b, 4) \in Bit /\ BitOf(b, 5) \in Bit
          /\ BitOf(b, 6) \in Bit /\ BitOf(b, 7) \in Bit
      BY <2>1, BitsOf
    <3> QED BY <3>1
  <2>3. b = Sum8(x1, x2, x3, x4, x5, x6, x7, x8)
    BY <2>2, ByteOfBits
  <2>4. b < 8 <=> x4 = 0 /\ x5 = 0 /\ x6 = 0 /\ x7 = 0 /\ x8 = 0
    <3>1. Summed(x1, x2, x3, x4, x5, x6, x7, x8)
      BY BitsOfSum
    <3> QED BY <2>3, <3>1 DEF Summed
  <2> QED BY <2>2, <2>4
<1>8. b < 8 <=> \A i \in m + 4..m + 8 : d[i] = 0
  <2>1. /\ m + 4 \in m + 4..m + 8 /\ m + 5 \in m + 4..m + 8 /\ m + 6 \in m + 4..m + 8
        /\ m + 7 \in m + 4..m + 8 /\ m + 8 \in m + 4..m + 8
    OBVIOUS
  <2> QED BY <1>5, <1>6, <1>7, <2>1
<1> QED BY <1>1, <1>2, <1>4, <1>8

-----------------------------------------------------------------------------
(* What a bit stream holds                                                 *)

\* d are the bits c, padded with zeros to whole bytes.
Holds(d, c) == d \in Seq(Bit) /\ EndsAt(d, Len(c)) /\ At(d, 0, c)

LEMMA BitsJoined ==
  ASSUME NEW c \in Seq(Bit), NEW e \in Seq(Bit)
  PROVE  c \o e \in Seq(Bit) /\ Len(c \o e) = Len(c) + Len(e)
OBVIOUS

LEMMA Blank == Holds(<<>>, <<>>)
<1>1. PICK z \in Seq(Bit) : z = <<>> /\ Len(z) = 0
  <2>1. <<>> \in Seq(Bit) /\ Len(<<>>) = 0
    OBVIOUS
  <2> QED BY <2>1
<1>2. 8 * ((0 + 8 - 1) \div 8) = 0
  OBVIOUS
<1>3. EndsAt(z, Len(z)) /\ At(z, 0, z)
  BY <1>1, <1>2 DEF EndsAt, Padded, ByteBits, At
<1> QED BY <1>1, <1>3 DEF Holds

LEMMA PutHolds ==
  ASSUME NEW c \in Seq(Bit), NEW e \in Seq(Bit), NEW d, Holds(d, c)
  PROVE  Holds(Put(d, Len(c), e), c \o e)
<1>1. PICK n \in Nat : n = Len(c)
  OBVIOUS
<1>2. d \in Seq(Bit) /\ EndsAt(d, n) /\ At(d, 0, c)
  BY <1>1 DEF Holds
<1>3. PICK p : p = Put(d, n, e)
  OBVIOUS
<1>4. Extends(p, d, n, e)
  BY <1>2, <1>3, PutBehind
<1>5. /\ p \in Seq(Bit) /\ EndsAt(p, n + Len(e))
      /\ \A i \in 1..n : p[i] = d[i]
      /\ \A i \in DOMAIN e : p[n + i] = e[i]
  BY <1>4 DEF Extends
<1>6. n + Len(e) \in Nat /\ Len(e) \in Nat /\ DOMAIN e = 1..Len(e)
  BY <1>1
<1>7. n + Len(e) <= Len(p)
  BY <1>5, <1>6, PaddedAre DEF EndsAt
<1>8. At(p, 0, c)
  <2>1. 0 + Len(c) <= Len(p)
    BY <1>1, <1>6, <1>7
  <2>2. ASSUME NEW i \in 1..Len(c) PROVE p[0 + i] = c[i]
    <3>1. d[0 + i] = c[i] /\ 0 + i = i
      BY <1>2 DEF At
    <3> QED BY <1>1, <1>5, <3>1
  <2> QED BY <2>1, <2>2 DEF At
<1>9. At(p, n, e)
  BY <1>5, <1>6, <1>7 DEF At
<1>10. At(p, 0, c \o e)
  <2>1. c \in Seq(Byte) /\ e \in Seq(Byte) /\ p \in Seq(Byte) /\ 0 + Len(c) = n
    BY <1>1, <1>5, BitSeqs
  <2>2. At(p, 0, c \o e) <=> At(p, 0, c) /\ At(p, 0 + Len(c), e)
    BY <2>1, AtConcat
  <2> QED BY <1>8, <1>9, <2>1, <2>2
<1>11. EndsAt(p, Len(c \o e))
  BY <1>1, <1>5, BitsJoined
<1> QED BY <1>1, <1>3, <1>5, <1>10, <1>11 DEF Holds

LEMMA HoldsOnly ==
  ASSUME NEW c \in Seq(Bit), NEW d, NEW e, Holds(d, c), Holds(e, c)
  PROVE  d = e
<1>1. PICK n \in Nat : n = Len(c)
  OBVIOUS
<1>2. d \in Seq(Bit) /\ EndsAt(d, n) /\ At(d, 0, c) /\ e \in Seq(Bit) /\ EndsAt(e, n) /\ At(e, 0, c)
  BY <1>1 DEF Holds
<1>3. Len(d) = Len(e) /\ DOMAIN d = 1..Len(d) /\ DOMAIN e = 1..Len(d)
  BY <1>2 DEF EndsAt
<1>4. ASSUME NEW i \in 1..Len(d) PROVE d[i] = e[i]
  <2>1. CASE i > n
    BY <1>2, <1>3, <2>1 DEF EndsAt
  <2>2. CASE ~ (i > n)
    <3>1. i \in 1..Len(c) /\ 0 + i = i
      BY <1>1, <2>2
    <3>2. d[0 + i] = c[i] /\ e[0 + i] = c[i]
      BY <1>2, <3>1 DEF At
    <3> QED BY <3>1, <3>2
  <2> QED BY <2>1, <2>2
<1> QED BY <1>2, <1>3, <1>4

\* A read that succeeds.
ReadBits(v, end) == [error |-> "none", bits |-> v, next |-> end]

LEMMA BitsThere ==
  ASSUME NEW d \in Seq(Bit), NEW at \in Nat, NEW tag \in Tags, NEW v \in Seq(Bit),
         At(d, at, TagOf(tag) \o v)
  PROVE  Read(d, at, tag, Len(v)) = ReadBits(v, at + Len(TagOf(tag) \o v))
<1>1. PICK t \in Seq(Bit) : t = TagOf(tag)
  BY TagsDiffer
<1>2. d \in Seq(Byte) /\ t \in Seq(Byte) /\ v \in Seq(Byte)
  BY BitSeqs
<1>3. At(d, at, t) /\ At(d, at + Len(t), v) /\ Len(t \o v) = Len(t) + Len(v)
  BY <1>1, <1>2, AtConcat, Joined
<1>4. PICK e \in Nat : e = at + Len(t)
  OBVIOUS
<1>5. SubSeq(d, at + 1, e) = t
  BY <1>2, <1>3, <1>4, CutOut
<1>6. SubSeq(d, e + 1, e + Len(v)) = v
  BY <1>2, <1>3, <1>4, CutOut
<1>7. e + Len(v) <= Len(d) /\ Len(v) \in Nat /\ Len(d) \in Nat
  BY <1>3, <1>4 DEF At
<1>8. ~ (e > Len(d)) /\ ~ (e + Len(v) > Len(d)) /\ e <= Len(d)
  BY <1>7
<1>9. Read(d, at, tag, Len(v)) = [error |-> "none", bits |-> v, next |-> e + Len(v)]
  BY <1>1, <1>4, <1>5, <1>6, <1>8 DEF Read
<1>10. e + Len(v) = at + Len(t \o v)
  BY <1>3, <1>4
<1> QED BY <1>1, <1>9, <1>10 DEF ReadBits

LEMMA BitsGive ==
  ASSUME NEW d \in Seq(Bit), NEW at \in Nat, NEW tag \in Tags, NEW width \in Nat,
         Read(d, at, tag, width).error = "none"
  PROVE  \E v \in Seq(Bit) :
           /\ Len(v) = width /\ At(d, at, TagOf(tag) \o v)
           /\ Read(d, at, tag, width) = ReadBits(v, at + Len(TagOf(tag) \o v))
<1>1. PICK t \in Seq(Bit) : t = TagOf(tag)
  BY TagsDiffer
<1>2. d \in Seq(Byte) /\ t \in Seq(Byte)
  BY BitSeqs
<1>3. PICK e \in Nat : e = at + Len(t)
  OBVIOUS
<1>4. ~ (e > Len(d))
  BY <1>1, <1>3 DEF Read, Failed
<1>5. e <= Len(d) /\ Len(d) \in Nat
  BY <1>3, <1>4
<1>6. SubSeq(d, at + 1, e) = t
  BY <1>1, <1>3, <1>5 DEF Read, Failed
<1>7. ~ (e + width > Len(d))
  BY <1>1, <1>3, <1>5, <1>6 DEF Read, Failed
<1>8. PICK v : v = SubSeq(d, e + 1, e + width)
  OBVIOUS
<1>9. e + width <= Len(d)
  BY <1>5, <1>7
<1>10. v \in Seq(Bit)
  BY <1>8, <1>9
<1>11. v \in Seq(Byte) /\ Len(v) = width /\ At(d, e, v)
  BY <1>2, <1>8, <1>9, Part
<1>12. At(d, at, t)
  <2>1. Len(t) \in Nat /\ at + Len(t) <= Len(d)
    BY <1>3, <1>5
  <2>2. At(d, at, SubSeq(d, at + 1, e))
    BY <1>2, <1>3, <2>1, CutThere
  <2> QED BY <1>6, <2>2
<1>13. At(d, at, t \o v) /\ Len(t \o v) = Len(t) + Len(v)
  BY <1>2, <1>3, <1>11, <1>12, AtConcat, Joined
<1>14. Read(d, at, tag, width) = [error |-> "none", bits |-> v, next |-> e + width]
  BY <1>1, <1>3, <1>4, <1>5, <1>6, <1>7, <1>8 DEF Read
<1>15. e + width = at + Len(t \o v)
  BY <1>3, <1>11, <1>13
<1> QED BY <1>1, <1>10, <1>11, <1>13, <1>14, <1>15 DEF ReadBits

-----------------------------------------------------------------------------
(* Reading and writing items one after another                             *)

AuthKinds == {"account", "mmp", "login"}
ItemType  == [tag : Tags, width : Nat]

NextBits(d, soFar, item) ==
  IF soFar.error # "none" THEN soFar ELSE Read(d, soFar.next, item.tag, item.width)

\* The equation by which ReadItems is defined, and that it has a solution.
BitReadsOf(d, list, n, f) ==
  f = [i \in 0..n |-> IF i = 0 THEN Read(d, 0, Untyped, 1) ELSE NextBits(d, f[i - 1], list[i])]

LEMMA UpToFour ==
  ASSUME NEW n \in Nat, n <= 4
  PROVE  /\ \A i \in 0..n : i = 0 \/ i = 1 \/ i = 2 \/ i = 3 \/ i = 4
         /\ \A i \in 0..n : i # 0 => i - 1 \in 0..n /\ i \in 1..n
OBVIOUS

LEMMA BitReadsExist ==
  ASSUME NEW d, NEW list, NEW n \in Nat, n <= 4
  PROVE  \E f : BitReadsOf(d, list, n, f)
<1> DEFINE a0 == Read(d, 0, Untyped, 1)
           a1 == NextBits(d, a0, list[1])
           a2 == NextBits(d, a1, list[2])
           a3 == NextBits(d, a2, list[3])
           a4 == NextBits(d, a3, list[4])
           f  == [i \in 0..n |-> IF i = 0 THEN a0 ELSE IF i = 1 THEN a1 ELSE IF i = 2 THEN a2
                                 ELSE IF i = 3 THEN a3 ELSE a4]
<1>1. ASSUME NEW i \in 0..n, i # 0 PROVE f[i] = NextBits(d, f[i - 1], list[i])
  <2>1. (i = 1 \/ i = 2 \/ i = 3 \/ i = 4) /\ i - 1 \in 0..n
    BY <1>1, UpToFour
  <2>2. CASE i = 1
    <3>1. f[1] = a1 /\ f[0] = a0 /\ i - 1 = 0
      BY <2>1, <2>2
    <3> QED BY <2>2, <3>1
  <2>3. CASE i = 2
    <3>1. f[2] = a2 /\ f[1] = a1 /\ i - 1 = 1
      BY <2>1, <2>3
    <3> QED BY <2>3, <3>1
  <2>4. CASE i = 3
    <3>1. f[3] = a3 /\ f[2] = a2 /\ i - 1 = 2
      BY <2>1, <2>4
    <3> QED BY <2>4, <3>1
  <2>5. CASE i = 4
    <3>1. f[4] = a4 /\ f[3] = a3 /\ i - 1 = 3
      BY <2>1, <2>5
    <3> QED BY <2>5, <3>1
  <2> QED BY <2>1, <2>2, <2>3, <2>4, <2>5
<1>2. 0 \in 0..n
  OBVIOUS
<1>3. f[0] = a0
  BY <1>2
<1>4. \A i \in 0..n : f[i] = IF i = 0 THEN a0 ELSE NextBits(d, f[i - 1], list[i])
  BY <1>1, <1>3
<1>5. f = [i \in 0..n |-> f[i]]
  OBVIOUS
<1> HIDE DEF f, a0
<1>6. f = [i \in 0..n |-> IF i = 0 THEN a0 ELSE NextBits(d, f[i - 1], list[i])]
  BY <1>4, <1>5
<1> QED BY <1>6 DEF BitReadsOf, a0

\* The items are read one after the other, up to the first that fails.
ItemSteps(k, d, n, r) ==
  /\ ReadItems(k, d) = r /\ DOMAIN r = 1..n + 1 /\ Len(r) = n + 1
  /\ r[1] = Read(d, 0, Untyped, 1)
  /\ \A i \in 1..n : r[i + 1] = NextBits(d, r[i], Items[k][i])

LEMMA ItemsRead ==
  ASSUME NEW d, NEW k, NEW n \in Nat, n = Len(Items[k]), n <= 4
  PROVE  \E r : ItemSteps(k, d, n, r)
<1> DEFINE f == CHOOSE g : BitReadsOf(d, Items[k], n, g)
           r == [i \in 1..n + 1 |-> f[i - 1]]
<1>1. BitReadsOf(d, Items[k], n, f)
  BY BitReadsExist
<1>2. ReadItems(k, d) = r
  BY DEF ReadItems, BitReadsOf, NextBits
<1> HIDE DEF f
<1>3. /\ f[0] = Read(d, 0, Untyped, 1)
      /\ \A i \in 1..n : f[i] = NextBits(d, f[i - 1], Items[k][i])
  <2>1. 0 \in 0..n /\ \A i \in 1..n : i \in 0..n /\ i # 0
    OBVIOUS
  <2> QED BY <1>1, <2>1 DEF BitReadsOf
<1>4. r[1] = f[0] /\ \A i \in 1..n : r[i + 1] = f[i] /\ r[i] = f[i - 1]
  <2>1. 1 \in 1..n + 1 /\ 1 - 1 = 0
    OBVIOUS
  <2>2. \A i \in 1..n : i + 1 \in 1..n + 1 /\ i \in 1..n + 1 /\ (i + 1) - 1 = i
    OBVIOUS
  <2> QED BY <2>1, <2>2
<1>5. DOMAIN r = 1..n + 1 /\ Len(r) = n + 1
  <2>1. PICK m \in Nat : m = n + 1
    OBVIOUS
  <2>2. PICK S : S = {f[i - 1] : i \in 1..m}
    OBVIOUS
  <2>3. r \in [1..m -> S]
    BY <2>1, <2>2
  <2> HIDE DEF r
  <2>4. Len(r) = m
    BY <2>3, FunctionIsSeq
  <2>5. DOMAIN r = 1..m
    BY <2>3
  <2> QED BY <2>1, <2>4, <2>5
<1> HIDE DEF r
<1>6. r[1] = Read(d, 0, Untyped, 1) /\ \A i \in 1..n : r[i + 1] = NextBits(d, r[i], Items[k][i])
  BY <1>3, <1>4
<1> QED BY <1>2, <1>5, <1>6 DEF ItemSteps

NextPut(so, item, value) ==
  LET bits == TagOf(item.tag) \o Unpacked(value)
  IN  [data |-> Put(so.data, so.offset, bits), offset |-> so.offset + Len(bits)]

FirstPut(first) == [data |-> Put(<<>>, 0, first), offset |-> Len(first)]

PutsOf(first, list, values, n, f) ==
  f = [i \in 0..n |-> IF i = 0 THEN FirstPut(first) ELSE NextPut(f[i - 1], list[i], values[i])]

LEMMA PutsExist ==
  ASSUME NEW first, NEW list, NEW values, NEW n \in Nat, n <= 4
  PROVE  \E f : PutsOf(first, list, values, n, f)
<1> DEFINE a0 == FirstPut(first)
           a1 == NextPut(a0, list[1], values[1])
           a2 == NextPut(a1, list[2], values[2])
           a3 == NextPut(a2, list[3], values[3])
           a4 == NextPut(a3, list[4], values[4])
           f  == [i \in 0..n |-> IF i = 0 THEN a0 ELSE IF i = 1 THEN a1 ELSE IF i = 2 THEN a2
                                 ELSE IF i = 3 THEN a3 ELSE a4]
<1>1. ASSUME NEW i \in 0..n, i # 0 PROVE f[i] = NextPut(f[i - 1], list[i], values[i])
  <2>1. (i = 1 \/ i = 2 \/ i = 3 \/ i = 4) /\ i - 1 \in 0..n
    BY <1>1, UpToFour
  <2>2. CASE i = 1
    <3>1. f[1] = a1 /\ f[0] = a0 /\ i - 1 = 0
      BY <2>1, <2>2
    <3> QED BY <2>2, <3>1
  <2>3. CASE i = 2
    <3>1. f[2] = a2 /\ f[1] = a1 /\ i - 1 = 1
      BY <2>1, <2>3
    <3> QED BY <2>3, <3>1
  <2>4. CASE i = 3
    <3>1. f[3] = a3 /\ f[2] = a2 /\ i - 1 = 2
      BY <2>1, <2>4
    <3> QED BY <2>4, <3>1
  <2>5. CASE i = 4
    <3>1. f[4] = a4 /\ f[3] = a3 /\ i - 1 = 3
      BY <2>1, <2>5
    <3> QED BY <2>5, <3>1
  <2> QED BY <2>1, <2>2, <2>3, <2>4, <2>5
<1>2. 0 \in 0..n
  OBVIOUS
<1>3. f[0] = a0
  BY <1>2
<1>4. \A i \in 0..n : f[i] = IF i = 0 THEN a0 ELSE NextPut(f[i - 1], list[i], values[i])
  BY <1>1, <1>3
<1>5. f = [i \in 0..n |-> f[i]]
  OBVIOUS
<1> HIDE DEF f, a0
<1>6. f = [i \in 0..n |-> IF i = 0 THEN a0 ELSE NextPut(f[i - 1], list[i], values[i])]
  BY <1>4, <1>5
<1> QED BY <1>6 DEF PutsOf, a0

\* The values are put one behind the other.
PutSteps(first, list, values, n, f) ==
  /\ WriteItems(first, list, values) = Packed(f[n].data)
  /\ f[0] = FirstPut(first)
  /\ \A i \in 1..n : f[i] = NextPut(f[i - 1], list[i], values[i])

LEMMA ItemsPut ==
  ASSUME NEW first, NEW list, NEW values, NEW n \in Nat, n = Len(list), n <= 4
  PROVE  \E f : PutSteps(first, list, values, n, f)
<1> DEFINE f == CHOOSE g : PutsOf(first, list, values, n, g)
<1>1. PutsOf(first, list, values, n, f)
  BY PutsExist
<1>2. WriteItems(first, list, values) = Packed(f[n].data)
  BY DEF WriteItems, PutsOf, NextPut, FirstPut
<1> HIDE DEF f
<1>3. /\ f[0] = FirstPut(first)
      /\ \A i \in 1..n : f[i] = NextPut(f[i - 1], list[i], values[i])
  <2>1. 0 \in 0..n /\ \A i \in 1..n : i \in 0..n /\ i # 0
    OBVIOUS
  <2> QED BY <1>1, <2>1 DEF PutsOf
<1> QED BY <1>2, <1>3 DEF PutSteps

-----------------------------------------------------------------------------
(* An item behind its tag                                                  *)

\* An item with its value, as it is written.
Coded(item, value) == TagOf(item.tag) \o Unpacked(value)

LEMMA CodedIs ==
  ASSUME NEW item \in ItemType, NEW value \in Seq(Byte), 8 * Len(value) = item.width
  PROVE  /\ Coded(item, value) \in Seq(Bit)
         /\ Len(Coded(item, value)) = (IF item.tag = Untyped THEN 0 ELSE 5) + item.width
<1>1. item.tag \in Tags
  BY DEF ItemType
<1>2. PICK t \in Seq(Bit), u \in Seq(Bit) : t = TagOf(item.tag) /\ u = Unpacked(value)
  BY <1>1, TagsDiffer, UnpackedIs
<1>3. Len(t) = (IF item.tag = Untyped THEN 0 ELSE 5) /\ Len(u) = item.width
  BY <1>1, <1>2, TagsDiffer, UnpackedIs
<1> QED BY <1>2, <1>3, BitsJoined DEF Coded

-----------------------------------------------------------------------------
(* Writing                                                                 *)

WroteTo(so, c) == Holds(so.data, c) /\ so.offset = Len(c)

LEMMA FirstWrote ==
  ASSUME NEW first \in Seq(Bit)
  PROVE  WroteTo(FirstPut(first), first)
<1>1. PICK z \in Seq(Bit) : z = <<>> /\ Len(z) = 0 /\ z \o first = first
  <2>1. <<>> \in Seq(Bit) /\ Len(<<>>) = 0
    OBVIOUS
  <2>2. <<>> \o first = first
    BY ConcatEmptySeq
  <2> QED BY <2>1, <2>2
<1>2. Holds(Put(z, Len(z), first), z \o first)
  BY <1>1, Blank, PutHolds
<1>3. Holds(Put(<<>>, 0, first), first)
  BY <1>1, <1>2
<1>4. FirstPut(first).data = Put(<<>>, 0, first) /\ FirstPut(first).offset = Len(first)
  BY DEF FirstPut
<1> QED BY <1>3, <1>4 DEF WroteTo

LEMMA NextWrote ==
  ASSUME NEW so, NEW c \in Seq(Bit), WroteTo(so, c), NEW item \in ItemType,
         NEW value \in Seq(Byte), 8 * Len(value) = item.width
  PROVE  WroteTo(NextPut(so, item, value), c \o Coded(item, value))
<1>1. PICK e \in Seq(Bit) : e = Coded(item, value)
  BY CodedIs
<1>2. /\ NextPut(so, item, value).data = Put(so.data, so.offset, e)
      /\ NextPut(so, item, value).offset = so.offset + Len(e)
  BY <1>1 DEF NextPut, Coded
<1>3. Holds(so.data, c) /\ so.offset = Len(c)
  BY DEF WroteTo
<1>4. Holds(Put(so.data, Len(c), e), c \o e)
  BY <1>3, PutHolds
<1>5. Len(c \o e) = Len(c) + Len(e)
  BY BitsJoined
<1> QED BY <1>1, <1>2, <1>3, <1>4, <1>5 DEF WroteTo

-----------------------------------------------------------------------------
(* Reading                                                                 *)

LEMMA ReadBitsIs ==
  ASSUME NEW v, NEW end
  PROVE  /\ ReadBits(v, end).error = "none" /\ ReadBits(v, end).bits = v
         /\ ReadBits(v, end).next = end
BY DEF ReadBits

LEMMA AtStartBits ==
  ASSUME NEW d \in Seq(Bit), NEW c \in Seq(Bit), NEW e \in Seq(Bit)
  PROVE  At(d, 0, c \o e) <=> At(d, 0, c) /\ At(d, Len(c), e)
BY BitSeqs, AtStart

LEMMA NextThere ==
  ASSUME NEW d \in Seq(Bit), NEW c \in Seq(Bit), NEW item \in ItemType,
         NEW value \in Seq(Byte), 8 * Len(value) = item.width,
         At(d, 0, c \o Coded(item, value)), NEW u
  PROVE  NextBits(d, ReadBits(u, Len(c)), item)
           = ReadBits(Unpacked(value), Len(c \o Coded(item, value)))
<1>1. PICK e \in Seq(Bit) : e = Coded(item, value)
  BY CodedIs
<1>2. At(d, Len(c), e)
  BY <1>1, AtStartBits
<1>3. PICK v \in Seq(Bit) : v = Unpacked(value) /\ Len(v) = item.width /\ e = TagOf(item.tag) \o v
  BY <1>1, UnpackedIs DEF Coded
<1>4. item.tag \in Tags /\ Len(c) \in Nat
  BY DEF ItemType
<1>5. Read(d, Len(c), item.tag, Len(v)) = ReadBits(v, Len(c) + Len(TagOf(item.tag) \o v))
  BY <1>2, <1>3, <1>4, BitsThere
<1>6. PICK so : so = ReadBits(u, Len(c)) /\ so.error = "none" /\ so.next = Len(c)
  BY ReadBitsIs
<1>7. NextBits(d, so, item) = Read(d, Len(c), item.tag, item.width)
  BY <1>6 DEF NextBits
<1>8. Len(c \o e) = Len(c) + Len(e)
  BY BitsJoined
<1> QED BY <1>1, <1>3, <1>5, <1>6, <1>7, <1>8

LEMMA NextGives ==
  ASSUME NEW d \in Seq(Bit), NEW c \in Seq(Bit), At(d, 0, c), NEW item \in ItemType,
         NEW m \in Nat, item.width = 8 * m, NEW u,
         NextBits(d, ReadBits(u, Len(c)), item).error = "none"
  PROVE  \E value \in Seq(Byte) :
           /\ Len(value) = m /\ At(d, 0, c \o Coded(item, value))
           /\ NextBits(d, ReadBits(u, Len(c)), item)
                = ReadBits(Unpacked(value), Len(c \o Coded(item, value)))
<1>1. PICK so : so = ReadBits(u, Len(c)) /\ so.error = "none" /\ so.next = Len(c)
  BY ReadBitsIs
<1>2. NextBits(d, so, item) = Read(d, Len(c), item.tag, item.width)
  BY <1>1 DEF NextBits
<1>3. item.tag \in Tags /\ item.width \in Nat /\ Len(c) \in Nat
  BY DEF ItemType
<1>4. PICK v \in Seq(Bit) :
        /\ Len(v) = item.width /\ At(d, Len(c), TagOf(item.tag) \o v)
        /\ Read(d, Len(c), item.tag, item.width)
             = ReadBits(v, Len(c) + Len(TagOf(item.tag) \o v))
  BY <1>1, <1>2, <1>3, BitsGive
<1>5. PICK value \in Seq(Byte) : value = Packed(v) /\ Len(value) = m /\ Unpacked(value) = v
  <2>1. Len(v) = 8 * m
    BY <1>4
  <2>2. Packed(v) \in Seq(Byte) /\ Len(Packed(v)) = m
    BY <2>1, PackedIs
  <2>3. Unpacked(Packed(v)) = v
    BY <2>1, UnpackedPacked
  <2> QED BY <2>2, <2>3
<1>6. PICK e \in Seq(Bit) : e = Coded(item, value) /\ e = TagOf(item.tag) \o v
  BY <1>5, CodedIs DEF Coded
<1>7. At(d, 0, c \o e)
  <2>1. At(d, Len(c), e)
    BY <1>4, <1>6, Zenon
  <2> QED BY <2>1, AtStartBits
<1>8. Len(c \o e) = Len(c) + Len(e)
  BY BitsJoined
<1> QED BY <1>1, <1>2, <1>4, <1>5, <1>6, <1>7, <1>8

\* A read that succeeds comes after one that did.
LEMMA NextSucceeds ==
  ASSUME NEW d, NEW so, NEW item, NextBits(d, so, item).error = "none"
  PROVE  so.error = "none"
BY DEF NextBits

-----------------------------------------------------------------------------
(* The items of a clear request                                            *)

LEMMA KindItems ==
  /\ AccountBlockSize \in Nat /\ AccountBlockSize = 8 + UsernameSize + PasswordSize
  /\ \E t \in ItemType, h \in ItemType, b \in ItemType, l \in ItemType :
       /\ t.tag # Untyped /\ t.width = 32 /\ h.tag = Untyped /\ h.width = 64
       /\ b.tag = Untyped /\ b.width = 8 * AccountBlockSize
       /\ l.tag = Untyped /\ l.width = 8 * AuthBlobSize
       /\ Items = [account |-> <<t, t, h, b>>, mmp |-> <<t, t, h>>, login |-> <<t, t, l>>]
<1>1. AccountBlockSize \in Nat /\ AccountBlockSize = 8 + UsernameSize + PasswordSize
  <2>1. Len(BlockSignature) = 4
    BY DEF BlockSignature
  <2> QED BY <2>1, AuthSizes DEF AccountBlockSize, ReservedBytes
<1>2. PICK t, h, b, l :
        t = Tagged /\ h = Hash /\ b = Raw(AccountBlockSize) /\ l = Raw(AuthBlobSize)
  OBVIOUS
<1>3. TypeTags.uint32 \in Tags /\ Untyped \in Tags /\ TypeTags.uint32 # Untyped
  BY TagsAre DEF TypeTags, Untyped
<1>4. /\ t = [tag |-> TypeTags.uint32, width |-> 32] /\ h = [tag |-> Untyped, width |-> 64]
      /\ b = [tag |-> Untyped, width |-> 8 * AccountBlockSize]
      /\ l = [tag |-> Untyped, width |-> 8 * AuthBlobSize]
  BY <1>2 DEF Tagged, Hash, Raw, ByteBits, Widths
<1>5. 8 * AccountBlockSize \in Nat /\ 8 * AuthBlobSize \in Nat
  BY <1>1, AuthSizes
<1>6. t \in ItemType /\ h \in ItemType /\ b \in ItemType /\ l \in ItemType
  BY <1>3, <1>4, <1>5 DEF ItemType
<1>7. Items = [account |-> <<t, t, h, b>>, mmp |-> <<t, t, h>>, login |-> <<t, t, l>>]
  BY <1>2, Zenon DEF Items
<1> QED BY <1>1, <1>3, <1>4, <1>6, <1>7

\* What the kinds have in common: two tagged integers, and one item or two behind them.
LEMMA KindShape ==
  ASSUME NEW k \in AuthKinds
  PROVE  /\ Len(Items[k]) = IF k = "account" THEN 4 ELSE 3
         /\ \A i \in 1..Len(Items[k]) :
              Items[k][i] \in ItemType /\ \E m \in Nat : Items[k][i].width = 8 * m
         /\ \A i \in {1, 2} : Items[k][i].tag # Untyped /\ Items[k][i].width = 32
         /\ \A i \in 3..Len(Items[k]) : Items[k][i].tag = Untyped
         /\ Items[k][3].width = IF k = "login" THEN 8 * AuthBlobSize ELSE 64
         /\ k = "account" => Items[k][4].width = 8 * AccountBlockSize
<1>1. AuthBlobSize \in Nat /\ AccountBlockSize \in Nat
  BY KindItems, AuthSizes
<1>2. PICK t \in ItemType, h \in ItemType, b \in ItemType, l \in ItemType :
       /\ t.tag # Untyped /\ t.width = 32 /\ h.tag = Untyped /\ h.width = 64
       /\ b.tag = Untyped /\ b.width = 8 * AccountBlockSize
       /\ l.tag = Untyped /\ l.width = 8 * AuthBlobSize
       /\ Items = [account |-> <<t, t, h, b>>, mmp |-> <<t, t, h>>, login |-> <<t, t, l>>]
  BY KindItems
<1>3. /\ \E m \in Nat : t.width = 8 * m
      /\ \E m \in Nat : h.width = 8 * m
      /\ \E m \in Nat : b.width = 8 * m
      /\ \E m \in Nat : l.width = 8 * m
  <2>1. t.width = 8 * 4 /\ h.width = 8 * 8
    BY <1>2
  <2> QED BY <1>1, <1>2, <2>1
<1>4. CASE k = "account"
  <2>1. PICK s : s = Items[k] /\ s = <<t, t, h, b>>
    BY <1>2, <1>4
  <2>2. Len(s) = 4 /\ s[1] = t /\ s[2] = t /\ s[3] = h /\ s[4] = b
    BY <2>1
  <2>3. \A i \in 1..4 : i = 1 \/ i = 2 \/ i = 3 \/ i = 4
    OBVIOUS
  <2>4. \A i \in 3..4 : i = 3 \/ i = 4
    OBVIOUS
  <2> QED BY <1>2, <1>3, <1>4, <2>1, <2>2, <2>3, <2>4
<1>5. CASE k = "mmp"
  <2>1. PICK s : s = Items[k] /\ s = <<t, t, h>>
    BY <1>2, <1>5
  <2>2. Len(s) = 3 /\ s[1] = t /\ s[2] = t /\ s[3] = h
    BY <2>1
  <2>3. \A i \in 1..3 : i = 1 \/ i = 2 \/ i = 3
    OBVIOUS
  <2>4. \A i \in 3..3 : i = 3
    OBVIOUS
  <2> QED BY <1>2, <1>3, <1>5, <2>1, <2>2, <2>3, <2>4
<1>6. CASE k = "login"
  <2>1. PICK s : s = Items[k] /\ s = <<t, t, l>>
    BY <1>2, <1>6
  <2>2. Len(s) = 3 /\ s[1] = t /\ s[2] = t /\ s[3] = l
    BY <2>1
  <2>3. \A i \in 1..3 : i = 1 \/ i = 2 \/ i = 3
    OBVIOUS
  <2>4. \A i \in 3..3 : i = 3
    OBVIOUS
  <2> QED BY <1>2, <1>3, <1>6, <2>1, <2>2, <2>3, <2>4
<1> QED BY <1>4, <1>5, <1>6 DEF AuthKinds

\* The values of the items of a kind.
ItemsFit(k, vals) ==
  /\ vals \in Seq(Seq(Byte)) /\ Len(vals) = Len(Items[k])
  /\ \A i \in 1..Len(vals) : vals[i] \in Seq(Byte) /\ 8 * Len(vals[i]) = Items[k][i].width

\* The bits of a message up to its padding.
UpToThird(k, vals) ==
  ((<<1>> \o Coded(Items[k][1], vals[1])) \o Coded(Items[k][2], vals[2]))
    \o Coded(Items[k][3], vals[3])
Content(k, vals) ==
  IF k = "account" THEN UpToThird(k, vals) \o Coded(Items[k][4], vals[4])
  ELSE UpToThird(k, vals)

LEMMA ItemsCoded ==
  ASSUME NEW k \in AuthKinds, NEW vals, ItemsFit(k, vals), NEW i \in 1..Len(Items[k])
  PROVE  /\ vals[i] \in Seq(Byte) /\ Items[k][i] \in ItemType
         /\ 8 * Len(vals[i]) = Items[k][i].width
         /\ Coded(Items[k][i], vals[i]) \in Seq(Bit)
         /\ Len(Coded(Items[k][i], vals[i]))
              = (IF Items[k][i].tag = Untyped THEN 0 ELSE 5) + Items[k][i].width
<1>1. vals[i] \in Seq(Byte) /\ Items[k][i] \in ItemType /\ 8 * Len(vals[i]) = Items[k][i].width
  BY KindShape DEF ItemsFit
<1> QED BY <1>1, CodedIs

LEMMA Grown ==
  ASSUME NEW c \in Seq(Bit), NEW e \in Seq(Bit)
  PROVE  \E w \in Seq(Bit) : w = c \o e /\ Len(w) = Len(c) + Len(e)
BY BitsJoined

LEMMA One == <<1>> \in Seq(Bit) /\ Len(<<1>>) = 1
BY DEF Bit

LEMMA ContentIs ==
  ASSUME NEW k \in AuthKinds, NEW vals, ItemsFit(k, vals)
  PROVE  /\ Content(k, vals) \in Seq(Bit) /\ UpToThird(k, vals) \in Seq(Bit)
         /\ BodySize[k] - 2 \in Nat /\ BodySize[k] >= 3
         /\ Len(Content(k, vals)) + 5 = 8 * (BodySize[k] - 2)
<1>1. /\ Len(Items[k]) = IF k = "account" THEN 4 ELSE 3
      /\ 1 \in 1..Len(Items[k]) /\ 2 \in 1..Len(Items[k]) /\ 3 \in 1..Len(Items[k])
      /\ k = "account" => 4 \in 1..Len(Items[k])
  BY KindShape
<1>2. PICK e1 \in Seq(Bit), e2 \in Seq(Bit), e3 \in Seq(Bit) :
        /\ e1 = Coded(Items[k][1], vals[1]) /\ e2 = Coded(Items[k][2], vals[2])
        /\ e3 = Coded(Items[k][3], vals[3])
  BY <1>1, ItemsCoded
<1>3. Len(e1) = 37 /\ Len(e2) = 37
  <2>1. Items[k][1].tag # Untyped /\ Items[k][1].width = 32
    BY KindShape
  <2>2. Items[k][2].tag # Untyped /\ Items[k][2].width = 32
    BY KindShape
  <2>3. /\ Len(Coded(Items[k][1], vals[1]))
             = (IF Items[k][1].tag = Untyped THEN 0 ELSE 5) + Items[k][1].width
        /\ Len(Coded(Items[k][2], vals[2]))
             = (IF Items[k][2].tag = Untyped THEN 0 ELSE 5) + Items[k][2].width
    BY <1>1, ItemsCoded
  <2>4. Len(e1) = 5 + 32
    BY <1>2, <2>1, <2>3
  <2>5. Len(e2) = 5 + 32
    BY <1>2, <2>2, <2>3
  <2> QED BY <2>4, <2>5
<1>4. Len(e3) = IF k = "login" THEN 8 * AuthBlobSize ELSE 64
  <2>1. /\ Items[k][3].tag = Untyped
        /\ Items[k][3].width = IF k = "login" THEN 8 * AuthBlobSize ELSE 64
    <3>1. /\ \A i \in 3..Len(Items[k]) : Items[k][i].tag = Untyped
          /\ Items[k][3].width = IF k = "login" THEN 8 * AuthBlobSize ELSE 64
      BY KindShape
    <3>2. 3 \in 3..Len(Items[k])
      BY <1>1
    <3> QED BY <3>1, <3>2
  <2>2. 8 * AuthBlobSize \in Nat
    BY AuthSizes
  <2>3. Len(Coded(Items[k][3], vals[3]))
          = (IF Items[k][3].tag = Untyped THEN 0 ELSE 5) + Items[k][3].width
    BY <1>1, ItemsCoded
  <2> QED BY <1>2, <2>1, <2>2, <2>3
<1>5. PICK g : g = <<1>> /\ g \in Seq(Bit) /\ Len(g) = 1
  BY One
<1>6. /\ (g \o e1) \o e2 \in Seq(Bit) /\ ((g \o e1) \o e2) \o e3 \in Seq(Bit)
      /\ Len(((g \o e1) \o e2) \o e3) = 75 + Len(e3)
  <2>1. PICK c1 \in Seq(Bit) : c1 = g \o e1 /\ Len(c1) = Len(g) + Len(e1)
    BY <1>5, Grown
  <2>2. PICK c2 \in Seq(Bit) : c2 = c1 \o e2 /\ Len(c2) = Len(c1) + Len(e2)
    BY Grown
  <2>3. PICK c3 \in Seq(Bit) : c3 = c2 \o e3 /\ Len(c3) = Len(c2) + Len(e3)
    BY Grown
  <2>4. Len(c3) = 75 + Len(e3)
    BY <1>3, <1>5, <2>1, <2>2, <2>3
  <2> QED BY <2>1, <2>2, <2>3, <2>4
<1>7. PICK c3 \in Seq(Bit) : c3 = UpToThird(k, vals) /\ Len(c3) = 75 + Len(e3)
  BY <1>2, <1>5, <1>6 DEF UpToThird
<1>8. CASE k = "account"
  <2>1. PICK e4 \in Seq(Bit) : e4 = Coded(Items[k][4], vals[4])
    BY <1>1, <1>8, ItemsCoded
  <2>2. Len(e4) = 8 * AccountBlockSize
    <3>1. Items[k][4].tag = Untyped /\ Items[k][4].width = 8 * AccountBlockSize
      <4>1. Len(Items[k]) = 4 /\ 4 \in 3..4
        BY <1>1, <1>8
      <4>2. /\ \A i \in 3..Len(Items[k]) : Items[k][i].tag = Untyped
            /\ k = "account" => Items[k][4].width = 8 * AccountBlockSize
        BY KindShape
      <4> QED BY <1>8, <4>1, <4>2
    <3>2. 8 * AccountBlockSize \in Nat
      BY KindItems
    <3>3. Len(Coded(Items[k][4], vals[4]))
            = (IF Items[k][4].tag = Untyped THEN 0 ELSE 5) + Items[k][4].width
      BY <1>1, <1>8, ItemsCoded
    <3> QED BY <2>1, <3>1, <3>2, <3>3
  <2>3. PICK c4 \in Seq(Bit) : c4 = c3 \o e4 /\ Len(c4) = Len(c3) + Len(e4)
    BY Grown
  <2>4. Content(k, vals) = c4
    BY <1>7, <1>8, <2>1, <2>3 DEF Content
  <2>5. BodySize[k] = 20 + AccountBlockSize
    BY <1>8 DEF BodySize
  <2>6. PICK n \in Nat : n = AccountBlockSize
    BY KindItems
  <2>7. Len(c4) = 139 + 8 * n
    BY <1>4, <1>7, <1>8, <2>2, <2>3, <2>6
  <2>8. BodySize[k] - 2 = 18 + n /\ BodySize[k] >= 3
    BY <2>5, <2>6
  <2>9. Len(c4) + 5 = 8 * (18 + n)
    BY <2>7
  <2>10. BodySize[k] - 2 \in Nat
    BY <2>6, <2>8
  <2>11. Len(Content(k, vals)) + 5 = 8 * (BodySize[k] - 2)
    BY <2>4, <2>8, <2>9, Zenon
  <2> QED BY <1>7, <2>3, <2>4, <2>8, <2>10, <2>11
<1>9. CASE k = "mmp"
  <2>1. BodySize[k] = 20
    BY <1>9 DEF BodySize
  <2>2. Content(k, vals) = c3 /\ Len(c3) = 139
    BY <1>4, <1>7, <1>9 DEF Content
  <2>3. BodySize[k] - 2 = 18 /\ BodySize[k] >= 3
    BY <2>1
  <2>4. Len(Content(k, vals)) + 5 = 8 * 18
    BY <2>2
  <2> QED BY <1>7, <2>2, <2>3, <2>4
<1>10. CASE k = "login"
  <2>1. BodySize[k] = 12 + AuthBlobSize
    BY <1>10 DEF BodySize
  <2>2. Content(k, vals) = c3 /\ Len(c3) = 75 + 8 * AuthBlobSize
    BY <1>4, <1>7, <1>10 DEF Content
  <2>3. AuthBlobSize \in Nat
    BY AuthSizes
  <2> QED BY <1>7, <2>1, <2>2, <2>3
<1> QED BY <1>8, <1>9, <1>10 DEF AuthKinds

-----------------------------------------------------------------------------
(* The items are found where they were written                             *)

\* Item i of a message, its value and how they are written.
Part3(k, vals, i, x, v, e) ==
  /\ x = Items[k][i] /\ v = vals[i] /\ e = Coded(x, v)
  /\ x \in ItemType /\ v \in Seq(Byte) /\ e \in Seq(Bit) /\ 8 * Len(v) = x.width

LEMMA PartOf ==
  ASSUME NEW k \in AuthKinds, NEW vals, ItemsFit(k, vals), NEW i \in 1..Len(Items[k])
  PROVE  \E x \in ItemType, v \in Seq(Byte), e \in Seq(Bit) : Part3(k, vals, i, x, v, e)
BY ItemsCoded DEF Part3

ItemParts(k, vals, x1, x2, x3, v1, v2, v3) ==
  /\ x1 = Items[k][1] /\ x2 = Items[k][2] /\ x3 = Items[k][3]
  /\ v1 = vals[1] /\ v2 = vals[2] /\ v3 = vals[3]
  /\ 8 * Len(v1) = x1.width /\ 8 * Len(v2) = x2.width /\ 8 * Len(v3) = x3.width

LEMMA ThreeParts ==
  ASSUME NEW k \in AuthKinds, NEW vals, ItemsFit(k, vals)
  PROVE  \E x1 \in ItemType, x2 \in ItemType, x3 \in ItemType,
            v1 \in Seq(Byte), v2 \in Seq(Byte), v3 \in Seq(Byte) :
           ItemParts(k, vals, x1, x2, x3, v1, v2, v3)
<1>1. /\ 1 \in 1..Len(Items[k]) /\ 2 \in 1..Len(Items[k]) /\ 3 \in 1..Len(Items[k])
  BY KindShape
<1>2. PICK x1 \in ItemType, v1 \in Seq(Byte), e1 \in Seq(Bit) : Part3(k, vals, 1, x1, v1, e1)
  BY <1>1, PartOf
<1>3. PICK x2 \in ItemType, v2 \in Seq(Byte), e2 \in Seq(Bit) : Part3(k, vals, 2, x2, v2, e2)
  BY <1>1, PartOf
<1>4. PICK x3 \in ItemType, v3 \in Seq(Byte), e3 \in Seq(Bit) : Part3(k, vals, 3, x3, v3, e3)
  BY <1>1, PartOf
<1> QED BY <1>2, <1>3, <1>4 DEF Part3, ItemParts

LEMMA FourthPart ==
  ASSUME NEW k \in AuthKinds, k = "account", NEW vals, ItemsFit(k, vals)
  PROVE  \E x4 \in ItemType, v4 \in Seq(Byte) :
           x4 = Items[k][4] /\ v4 = vals[4] /\ 8 * Len(v4) = x4.width
<1>1. 4 \in 1..Len(Items[k])
  BY KindShape
<1>2. PICK x4 \in ItemType, v4 \in Seq(Byte), e4 \in Seq(Bit) : Part3(k, vals, 4, x4, v4, e4)
  BY <1>1, PartOf
<1> QED BY <1>2 DEF Part3

\* The content grows by an item at a time.
Grows(k, vals, c0, c1, c2, c3) ==
  /\ c0 = <<1>> /\ c1 = c0 \o Coded(Items[k][1], vals[1])
  /\ c2 = c1 \o Coded(Items[k][2], vals[2]) /\ c3 = c2 \o Coded(Items[k][3], vals[3])
  /\ c3 = UpToThird(k, vals)

LEMMA ContentParts ==
  ASSUME NEW k \in AuthKinds, NEW vals, ItemsFit(k, vals)
  PROVE  \E c0 \in Seq(Bit), c1 \in Seq(Bit), c2 \in Seq(Bit), c3 \in Seq(Bit) :
           Grows(k, vals, c0, c1, c2, c3)
<1>1. PICK x1 \in ItemType, x2 \in ItemType, x3 \in ItemType,
           v1 \in Seq(Byte), v2 \in Seq(Byte), v3 \in Seq(Byte) :
        ItemParts(k, vals, x1, x2, x3, v1, v2, v3)
  BY ThreeParts
<1>2. PICK e1 \in Seq(Bit), e2 \in Seq(Bit), e3 \in Seq(Bit) :
        /\ e1 = Coded(Items[k][1], vals[1]) /\ e2 = Coded(Items[k][2], vals[2])
        /\ e3 = Coded(Items[k][3], vals[3])
  BY <1>1, CodedIs DEF ItemParts
<1>3. PICK c0 \in Seq(Bit) : c0 = <<1>>
  BY One
<1>4. PICK c1 \in Seq(Bit) : c1 = c0 \o e1
  BY Grown
<1>5. PICK c2 \in Seq(Bit) : c2 = c1 \o e2
  BY Grown
<1>6. PICK c3 \in Seq(Bit) : c3 = c2 \o e3
  BY Grown
<1>7. c3 = UpToThird(k, vals)
  BY <1>2, <1>3, <1>4, <1>5, <1>6 DEF UpToThird
<1> QED BY <1>2, <1>3, <1>4, <1>5, <1>6, <1>7 DEF Grows

LEMMA Numbered ==
  ASSUME NEW k \in AuthKinds
  PROVE  \E n \in Nat :
           /\ n = Len(Items[k]) /\ n <= 4 /\ 1 \in 1..n /\ 2 \in 1..n /\ 3 \in 1..n
           /\ k = "account" => n = 4 /\ 4 \in 1..n
           /\ k # "account" => n = 3
BY KindShape

LEMMA PutSteps3 ==
  ASSUME NEW first, NEW list, NEW values, NEW n \in Nat, NEW f,
         PutSteps(first, list, values, n, f), 1 \in 1..n, 2 \in 1..n, 3 \in 1..n
  PROVE  /\ f[1] = NextPut(f[0], list[1], values[1])
         /\ f[2] = NextPut(f[1], list[2], values[2])
         /\ f[3] = NextPut(f[2], list[3], values[3])
         /\ 4 \in 1..n => f[4] = NextPut(f[3], list[4], values[4])
<1>1. 1 - 1 = 0 /\ 2 - 1 = 1 /\ 3 - 1 = 2 /\ 4 - 1 = 3
  OBVIOUS
<1>2. \A i \in 1..n : f[i] = NextPut(f[i - 1], list[i], values[i])
  BY DEF PutSteps
<1> QED BY <1>1, <1>2

LEMMA ItemSteps3 ==
  ASSUME NEW k, NEW d, NEW n \in Nat, NEW r, ItemSteps(k, d, n, r),
         1 \in 1..n, 2 \in 1..n, 3 \in 1..n
  PROVE  /\ r[2] = NextBits(d, r[1], Items[k][1])
         /\ r[3] = NextBits(d, r[2], Items[k][2])
         /\ r[4] = NextBits(d, r[3], Items[k][3])
         /\ 4 \in 1..n => r[5] = NextBits(d, r[4], Items[k][4])
<1>1. 1 + 1 = 2 /\ 2 + 1 = 3 /\ 3 + 1 = 4 /\ 4 + 1 = 5
  OBVIOUS
<1>2. \A i \in 1..n : r[i + 1] = NextBits(d, r[i], Items[k][i])
  BY DEF ItemSteps
<1> QED BY <1>1, <1>2

\* What is written holds the content, padded.
LEMMA ContentWritten ==
  ASSUME NEW k \in AuthKinds, NEW vals, ItemsFit(k, vals)
  PROVE  \E d : Holds(d, Content(k, vals)) /\ WriteItems(<<1>>, Items[k], vals) = Packed(d)
<1>1. PICK n \in Nat : /\ n = Len(Items[k]) /\ n <= 4 /\ 1 \in 1..n /\ 2 \in 1..n /\ 3 \in 1..n
                       /\ k = "account" => n = 4 /\ 4 \in 1..n
                       /\ k # "account" => n = 3
  BY Numbered
<1>2. PICK x1 \in ItemType, x2 \in ItemType, x3 \in ItemType,
           v1 \in Seq(Byte), v2 \in Seq(Byte), v3 \in Seq(Byte) :
        ItemParts(k, vals, x1, x2, x3, v1, v2, v3)
  BY ThreeParts
<1>3. PICK c0 \in Seq(Bit), c1 \in Seq(Bit), c2 \in Seq(Bit), c3 \in Seq(Bit) :
        Grows(k, vals, c0, c1, c2, c3)
  BY ContentParts
<1>4. PICK list : list = Items[k]
  OBVIOUS
<1>5. PICK f : PutSteps(c0, list, vals, n, f)
  BY <1>1, <1>4, ItemsPut
<1>6. WroteTo(f[0], c0)
  <2>1. f[0] = FirstPut(c0)
    BY <1>5 DEF PutSteps
  <2> QED BY <2>1, FirstWrote
<1>7. /\ f[1] = NextPut(f[0], x1, v1) /\ f[2] = NextPut(f[1], x2, v2)
      /\ f[3] = NextPut(f[2], x3, v3)
      /\ 4 \in 1..n => f[4] = NextPut(f[3], list[4], vals[4])
  BY <1>1, <1>2, <1>4, <1>5, PutSteps3 DEF ItemParts
<1>8. WroteTo(f[1], c0 \o Coded(x1, v1))
  BY <1>2, <1>6, <1>7, NextWrote DEF ItemParts
<1>9. WroteTo(f[1], c1) /\ c1 = c0 \o Coded(x1, v1) /\ c2 = c1 \o Coded(x2, v2)
      /\ c3 = c2 \o Coded(x3, v3)
  BY <1>2, <1>3, <1>8 DEF ItemParts, Grows
<1>10. WroteTo(f[2], c2)
  <2>1. 8 * Len(v2) = x2.width
    BY <1>2 DEF ItemParts
  <2>2. WroteTo(NextPut(f[1], x2, v2), c1 \o Coded(x2, v2))
    BY <1>9, <2>1, NextWrote
  <2> QED BY <1>7, <1>9, <2>2
<1>11. WroteTo(f[3], c3)
  <2>1. 8 * Len(v3) = x3.width
    BY <1>2 DEF ItemParts
  <2>2. WroteTo(NextPut(f[2], x3, v3), c2 \o Coded(x3, v3))
    BY <1>10, <2>1, NextWrote
  <2> QED BY <1>7, <1>9, <2>2
<1>12. c3 = UpToThird(k, vals)
  BY <1>3 DEF Grows
<1>13. WroteTo(f[n], Content(k, vals))
  <2>1. CASE k = "account"
    <3>1. PICK x4 \in ItemType, v4 \in Seq(Byte) :
            x4 = Items[k][4] /\ v4 = vals[4] /\ 8 * Len(v4) = x4.width
      BY <2>1, FourthPart
    <3>2. f[4] = NextPut(f[3], x4, v4)
      BY <1>1, <1>4, <1>7, <2>1, <3>1
    <3>3. WroteTo(f[4], c3 \o Coded(x4, v4))
      BY <1>11, <3>1, <3>2, NextWrote
    <3>4. Content(k, vals) = c3 \o Coded(x4, v4)
      BY <1>12, <2>1, <3>1 DEF Content
    <3> QED BY <1>1, <2>1, <3>3, <3>4
  <2>2. CASE k # "account"
    BY <1>1, <1>11, <1>12, <2>2 DEF Content
  <2> QED BY <2>1, <2>2
<1>14. PICK d : d = f[n].data
  OBVIOUS
<1>15. Holds(d, Content(k, vals))
  BY <1>13, <1>14 DEF WroteTo
<1>16. WriteItems(<<1>>, Items[k], vals) = Packed(d)
  BY <1>3, <1>4, <1>5, <1>14 DEF PutSteps, Grows
<1> QED BY <1>15, <1>16

LEMMA NoTag ==
  ASSUME NEW v \in Seq(Bit)
  PROVE  TagOf(Untyped) \o v = v /\ Untyped \in Tags
<1>1. TagOf(Untyped) = <<>> /\ Untyped \in Tags
  BY TagsAre DEF TagOf, Untyped
<1>2. <<>> \o v = v
  BY ConcatEmptySeq
<1> QED BY <1>1, <1>2

\* Where the content is, it is read.
ReadsAll(k, vals, d, n, r) ==
  /\ ReadItems(k, d) = r /\ Len(r) = n + 1
  /\ r[1].bits = <<1>> /\ r[n + 1].error = "none"
  /\ r[n + 1].next = Len(Content(k, vals))
  /\ \A i \in 1..n : r[i + 1].bits = Unpacked(vals[i])

LEMMA ContentThere ==
  ASSUME NEW k \in AuthKinds, NEW vals, ItemsFit(k, vals), NEW d \in Seq(Bit),
         At(d, 0, Content(k, vals))
  PROVE  \E r : ReadsAll(k, vals, d, Len(Items[k]), r)
<1>1. PICK n \in Nat : /\ n = Len(Items[k]) /\ n <= 4 /\ 1 \in 1..n /\ 2 \in 1..n /\ 3 \in 1..n
                       /\ k = "account" => n = 4 /\ 4 \in 1..n
                       /\ k # "account" => n = 3
  BY Numbered
<1>2. PICK x1 \in ItemType, x2 \in ItemType, x3 \in ItemType,
           v1 \in Seq(Byte), v2 \in Seq(Byte), v3 \in Seq(Byte) :
        ItemParts(k, vals, x1, x2, x3, v1, v2, v3)
  BY ThreeParts
<1>3. PICK c0 \in Seq(Bit), c1 \in Seq(Bit), c2 \in Seq(Bit), c3 \in Seq(Bit) :
        Grows(k, vals, c0, c1, c2, c3)
  BY ContentParts
<1>4. PICK e1 \in Seq(Bit), e2 \in Seq(Bit), e3 \in Seq(Bit) :
        e1 = Coded(x1, v1) /\ e2 = Coded(x2, v2) /\ e3 = Coded(x3, v3)
  BY <1>2, CodedIs DEF ItemParts
<1>5. c0 = <<1>> /\ c1 = c0 \o e1 /\ c2 = c1 \o e2 /\ c3 = c2 \o e3 /\ c3 = UpToThird(k, vals)
  BY <1>2, <1>3, <1>4 DEF ItemParts, Grows
<1>6. /\ At(d, 0, c3)
      /\ k = "account" =>
           \E x4 \in ItemType, v4 \in Seq(Byte) :
             /\ x4 = Items[k][4] /\ v4 = vals[4] /\ 8 * Len(v4) = x4.width
             /\ Content(k, vals) = c3 \o Coded(x4, v4)
      /\ k # "account" => Content(k, vals) = c3
  <2>1. CASE k = "account"
    <3>1. PICK x4 \in ItemType, v4 \in Seq(Byte) :
            x4 = Items[k][4] /\ v4 = vals[4] /\ 8 * Len(v4) = x4.width
      BY <2>1, FourthPart
    <3>2. PICK e4 \in Seq(Bit) : e4 = Coded(x4, v4)
      BY <3>1, CodedIs
    <3>3. Content(k, vals) = c3 \o e4
      BY <1>5, <2>1, <3>1, <3>2 DEF Content
    <3>4. At(d, 0, c3)
      BY <3>3, AtStartBits
    <3> QED BY <2>1, <3>1, <3>2, <3>3, <3>4
  <2>2. CASE k # "account"
    <3>1. Content(k, vals) = c3
      BY <1>5, <2>2 DEF Content
    <3>2. At(d, 0, c3)
      BY <3>1
    <3> QED BY <2>2, <3>1, <3>2, Zenon
  <2> QED BY <2>1, <2>2
<1>7. At(d, 0, c2)
  <2>1. At(d, 0, c2 \o e3)
    BY <1>5, <1>6
  <2> QED BY <2>1, AtStartBits
<1>8. At(d, 0, c1)
  BY <1>5, <1>7, AtStartBits
<1>9. At(d, 0, c0)
  BY <1>5, <1>8, AtStartBits
<1>10. PICK r : ItemSteps(k, d, n, r)
  BY <1>1, ItemsRead
<1>11. /\ r[2] = NextBits(d, r[1], x1) /\ r[3] = NextBits(d, r[2], x2)
       /\ r[4] = NextBits(d, r[3], x3)
       /\ 4 \in 1..n => r[5] = NextBits(d, r[4], Items[k][4])
  BY <1>1, <1>2, <1>10, ItemSteps3 DEF ItemParts
<1>12. r[1] = ReadBits(c0, Len(c0))
  <2>1. PICK t \in Tags : t = Untyped /\ TagOf(t) \o c0 = c0
    BY NoTag
  <2>2. PICK at \in Nat : at = 0
    OBVIOUS
  <2>3. At(d, at, TagOf(t) \o c0)
    BY <1>9, <2>1, <2>2
  <2>4. Read(d, at, t, Len(c0)) = ReadBits(c0, at + Len(TagOf(t) \o c0))
    BY <2>3, BitsThere
  <2>5. Len(c0) = 1 /\ at + Len(c0) = Len(c0)
    BY <1>5, <2>2, One
  <2>6. r[1] = Read(d, at, t, Len(c0))
    BY <1>10, <2>1, <2>2, <2>5 DEF ItemSteps
  <2> QED BY <2>1, <2>4, <2>5, <2>6
<1>13. r[2] = ReadBits(Unpacked(v1), Len(c1))
  <2>1. At(d, 0, c0 \o Coded(x1, v1)) /\ 8 * Len(v1) = x1.width
    BY <1>2, <1>4, <1>5, <1>8 DEF ItemParts
  <2>2. NextBits(d, ReadBits(c0, Len(c0)), x1)
          = ReadBits(Unpacked(v1), Len(c0 \o Coded(x1, v1)))
    BY <2>1, NextThere
  <2> QED BY <1>4, <1>5, <1>11, <1>12, <2>2
<1>14. r[3] = ReadBits(Unpacked(v2), Len(c2))
  <2>1. At(d, 0, c1 \o Coded(x2, v2)) /\ 8 * Len(v2) = x2.width
    BY <1>2, <1>4, <1>5, <1>7 DEF ItemParts
  <2>2. NextBits(d, ReadBits(Unpacked(v1), Len(c1)), x2)
          = ReadBits(Unpacked(v2), Len(c1 \o Coded(x2, v2)))
    BY <2>1, NextThere
  <2> QED BY <1>4, <1>5, <1>11, <1>13, <2>2
<1>15. r[4] = ReadBits(Unpacked(v3), Len(c3))
  <2>1. At(d, 0, c2 \o Coded(x3, v3)) /\ 8 * Len(v3) = x3.width
    BY <1>2, <1>4, <1>5, <1>6 DEF ItemParts
  <2>2. NextBits(d, ReadBits(Unpacked(v2), Len(c2)), x3)
          = ReadBits(Unpacked(v3), Len(c2 \o Coded(x3, v3)))
    BY <2>1, NextThere
  <2> QED BY <1>4, <1>5, <1>11, <1>14, <2>2
<1>16. /\ r[1].bits = <<1>> /\ r[2].bits = Unpacked(vals[1]) /\ r[3].bits = Unpacked(vals[2])
       /\ r[4].bits = Unpacked(vals[3])
  <2>1. v1 = vals[1] /\ v2 = vals[2] /\ v3 = vals[3]
    BY <1>2 DEF ItemParts
  <2>2. r[1].bits = <<1>>
    BY <1>5, <1>12, ReadBitsIs
  <2>3. r[2].bits = Unpacked(v1)
    BY <1>13, ReadBitsIs
  <2>4. r[3].bits = Unpacked(v2)
    BY <1>14, ReadBitsIs
  <2>5. r[4].bits = Unpacked(v3)
    BY <1>15, ReadBitsIs
  <2> QED BY <2>1, <2>2, <2>3, <2>4, <2>5
<1>17. ReadItems(k, d) = r /\ Len(r) = n + 1
  BY <1>10 DEF ItemSteps
<1>18. 1 + 1 = 2 /\ 2 + 1 = 3 /\ 3 + 1 = 4 /\ 4 + 1 = 5
  OBVIOUS
<1>19. CASE k = "account"
  <2>1. PICK x4 \in ItemType, v4 \in Seq(Byte) :
          /\ x4 = Items[k][4] /\ v4 = vals[4] /\ 8 * Len(v4) = x4.width
          /\ Content(k, vals) = c3 \o Coded(x4, v4)
    BY <1>6, <1>19
  <2>2. NextBits(d, ReadBits(Unpacked(v3), Len(c3)), x4)
          = ReadBits(Unpacked(v4), Len(c3 \o Coded(x4, v4)))
    <3>1. At(d, 0, c3 \o Coded(x4, v4)) /\ 8 * Len(v4) = x4.width
      BY <2>1
    <3>2. PICK u : u = Unpacked(v3)
      OBVIOUS
    <3>3. NextBits(d, ReadBits(u, Len(c3)), x4)
            = ReadBits(Unpacked(v4), Len(c3 \o Coded(x4, v4)))
      BY <3>1, NextThere
    <3> QED BY <3>2, <3>3
  <2>3. r[5] = ReadBits(Unpacked(v4), Len(Content(k, vals)))
    BY <1>1, <1>11, <1>15, <1>19, <2>1, <2>2
  <2>4. /\ r[5].bits = Unpacked(vals[4]) /\ r[5].error = "none"
        /\ r[5].next = Len(Content(k, vals))
    BY <2>1, <2>3, ReadBitsIs
  <2>5. n = 4 /\ \A i \in 1..4 : i = 1 \/ i = 2 \/ i = 3 \/ i = 4
    BY <1>1, <1>19
  <2>6. \A i \in 1..n : r[i + 1].bits = Unpacked(vals[i])
    BY <1>16, <1>18, <2>4, <2>5
  <2> QED BY <1>1, <1>16, <1>17, <1>18, <2>4, <2>5, <2>6 DEF ReadsAll
<1>20. CASE k # "account"
  <2>1. Content(k, vals) = c3
    BY <1>6, <1>20
  <2>2. r[4].error = "none" /\ r[4].next = Len(Content(k, vals))
    BY <1>15, <2>1, ReadBitsIs
  <2>3. n = 3 /\ \A i \in 1..3 : i = 1 \/ i = 2 \/ i = 3
    BY <1>1, <1>20
  <2>4. \A i \in 1..n : r[i + 1].bits = Unpacked(vals[i])
    BY <1>16, <1>18, <2>3
  <2> QED BY <1>1, <1>16, <1>17, <1>18, <2>2, <2>3, <2>4 DEF ReadsAll
<1> QED BY <1>19, <1>20

-----------------------------------------------------------------------------
(* The items that were found are all there is                              *)

LEMMA ItemAt ==
  ASSUME NEW k \in AuthKinds, NEW i \in 1..Len(Items[k])
  PROVE  \E x \in ItemType, m \in Nat : x = Items[k][i] /\ x.width = 8 * m
BY KindShape

LEMMA ThreeItems ==
  ASSUME NEW k \in AuthKinds
  PROVE  \E x1 \in ItemType, x2 \in ItemType, x3 \in ItemType, m1 \in Nat, m2 \in Nat, m3 \in Nat :
           /\ x1 = Items[k][1] /\ x2 = Items[k][2] /\ x3 = Items[k][3]
           /\ x1.width = 8 * m1 /\ x2.width = 8 * m2 /\ x3.width = 8 * m3
<1>1. /\ 1 \in 1..Len(Items[k]) /\ 2 \in 1..Len(Items[k]) /\ 3 \in 1..Len(Items[k])
  BY KindShape
<1>2. PICK x1 \in ItemType, m1 \in Nat : x1 = Items[k][1] /\ x1.width = 8 * m1
  BY <1>1, ItemAt
<1>3. PICK x2 \in ItemType, m2 \in Nat : x2 = Items[k][2] /\ x2.width = 8 * m2
  BY <1>1, ItemAt
<1>4. PICK x3 \in ItemType, m3 \in Nat : x3 = Items[k][3] /\ x3.width = 8 * m3
  BY <1>1, ItemAt
<1> QED BY <1>2, <1>3, <1>4

LEMMA FourthItem ==
  ASSUME NEW k \in AuthKinds, k = "account"
  PROVE  \E x4 \in ItemType, m4 \in Nat : x4 = Items[k][4] /\ x4.width = 8 * m4
<1>1. 4 \in 1..Len(Items[k])
  BY KindShape
<1> QED BY <1>1, ItemAt

\* A read that succeeded behind the bits c, and the same with an item more.
Came(so, c) == \E u : so = ReadBits(u, Len(c))
Gives(d, c, x, m, y) ==
  \E v \in Seq(Byte), e \in Seq(Bit) :
    /\ Len(v) = m /\ e = c \o Coded(x, v) /\ At(d, 0, e)
    /\ y = ReadBits(Unpacked(v), Len(e))

LEMMA ItemGives ==
  ASSUME NEW d \in Seq(Bit), NEW c \in Seq(Bit), At(d, 0, c), NEW x \in ItemType,
         NEW m \in Nat, x.width = 8 * m, NEW so, Came(so, c),
         NextBits(d, so, x).error = "none"
  PROVE  Gives(d, c, x, m, NextBits(d, so, x))
<1>1. PICK u : so = ReadBits(u, Len(c))
  BY DEF Came
<1>2. NextBits(d, ReadBits(u, Len(c)), x).error = "none"
  BY <1>1
<1>3. PICK v \in Seq(Byte) :
        /\ Len(v) = m /\ At(d, 0, c \o Coded(x, v))
        /\ NextBits(d, ReadBits(u, Len(c)), x)
             = ReadBits(Unpacked(v), Len(c \o Coded(x, v)))
  BY <1>2, NextGives
<1>4. PICK w \in Seq(Bit) : w = Coded(x, v)
  BY <1>3, CodedIs
<1>5. PICK e \in Seq(Bit) : e = c \o w
  BY Grown
<1> QED BY <1>1, <1>3, <1>4, <1>5 DEF Gives

LEMMA FitThree ==
  ASSUME NEW k \in AuthKinds, k # "account", NEW v1 \in Seq(Byte), NEW v2 \in Seq(Byte),
         NEW v3 \in Seq(Byte), 8 * Len(v1) = Items[k][1].width, 8 * Len(v2) = Items[k][2].width,
         8 * Len(v3) = Items[k][3].width
  PROVE  ItemsFit(k, <<v1, v2, v3>>)
<1>1. Len(Items[k]) = 3
  BY KindShape
<1>2. PICK s \in Seq(Seq(Byte)) : s = <<v1, v2, v3>>
  <2>1. <<v1, v2, v3>> \in Seq(Seq(Byte))
    OBVIOUS
  <2> QED BY <2>1
<1>3. Len(s) = 3 /\ s[1] = v1 /\ s[2] = v2 /\ s[3] = v3
  BY <1>2
<1>4. \A i \in 1..3 : i = 1 \/ i = 2 \/ i = 3
  OBVIOUS
<1>5. \A i \in 1..3 : s[i] \in Seq(Byte) /\ 8 * Len(s[i]) = Items[k][i].width
  BY <1>3, <1>4
<1>6. ItemsFit(k, s)
  BY <1>1, <1>3, <1>5 DEF ItemsFit
<1> QED BY <1>2, <1>6

LEMMA FitFour ==
  ASSUME NEW k \in AuthKinds, k = "account", NEW v1 \in Seq(Byte), NEW v2 \in Seq(Byte),
         NEW v3 \in Seq(Byte), NEW v4 \in Seq(Byte),
         8 * Len(v1) = Items[k][1].width, 8 * Len(v2) = Items[k][2].width,
         8 * Len(v3) = Items[k][3].width, 8 * Len(v4) = Items[k][4].width
  PROVE  ItemsFit(k, <<v1, v2, v3, v4>>)
<1>1. Len(Items[k]) = 4
  BY KindShape
<1>2. PICK s \in Seq(Seq(Byte)) : s = <<v1, v2, v3, v4>>
  <2>1. <<v1, v2, v3, v4>> \in Seq(Seq(Byte))
    OBVIOUS
  <2> QED BY <2>1
<1>3. Len(s) = 4 /\ s[1] = v1 /\ s[2] = v2 /\ s[3] = v3 /\ s[4] = v4
  BY <1>2
<1>4. \A i \in 1..4 : i = 1 \/ i = 2 \/ i = 3 \/ i = 4
  OBVIOUS
<1>5. \A i \in 1..4 : s[i] \in Seq(Byte) /\ 8 * Len(s[i]) = Items[k][i].width
  BY <1>3, <1>4
<1>6. ItemsFit(k, s)
  BY <1>1, <1>3, <1>5 DEF ItemsFit
<1> QED BY <1>2, <1>6

\* What is read is a content.
LEMMA ContentGives ==
  ASSUME NEW k \in AuthKinds, NEW d \in Seq(Bit), NEW r, r = ReadItems(k, d),
         r[Len(r)].error = "none", r[1].bits = << 1 >>
  PROVE  \E vals : ItemsFit(k, vals) /\ At(d, 0, Content(k, vals))
<1>1. PICK n \in Nat : /\ n = Len(Items[k]) /\ n <= 4 /\ 1 \in 1..n /\ 2 \in 1..n /\ 3 \in 1..n
                       /\ k = "account" => n = 4 /\ 4 \in 1..n
                       /\ k # "account" => n = 3
  BY Numbered
<1>2. PICK x1 \in ItemType, x2 \in ItemType, x3 \in ItemType, m1 \in Nat, m2 \in Nat, m3 \in Nat :
        /\ x1 = Items[k][1] /\ x2 = Items[k][2] /\ x3 = Items[k][3]
        /\ x1.width = 8 * m1 /\ x2.width = 8 * m2 /\ x3.width = 8 * m3
  BY ThreeItems
<1>3. ItemSteps(k, d, n, r)
  <2>1. PICK s : ItemSteps(k, d, n, s)
    BY <1>1, ItemsRead
  <2>2. s = r
    BY <2>1 DEF ItemSteps
  <2> QED BY <2>1, <2>2
<1>4. /\ r[2] = NextBits(d, r[1], x1) /\ r[3] = NextBits(d, r[2], x2)
      /\ r[4] = NextBits(d, r[3], x3)
      /\ 4 \in 1..n => r[5] = NextBits(d, r[4], Items[k][4])
  BY <1>1, <1>2, <1>3, ItemSteps3
<1>5. Len(r) = n + 1 /\ r[1] = Read(d, 0, Untyped, 1)
  BY <1>3 DEF ItemSteps
<1>6. r[4].error = "none" /\ (k = "account" => r[5].error = "none")
  <2>1. CASE k = "account"
    <3>1. Len(r) = 5
      BY <1>1, <1>5, <2>1
    <3>2. r[5] = NextBits(d, r[4], Items[k][4])
      BY <1>1, <1>4, <2>1
    <3>3. NextBits(d, r[4], Items[k][4]).error = "none"
      BY <3>1, <3>2
    <3> QED BY <3>1, <3>3, NextSucceeds
  <2>2. CASE k # "account"
    <3>1. n = 3
      BY <1>1, <2>2
    <3>2. Len(r) = 4
      BY <1>5, <3>1
    <3>3. r[4].error = "none"
      BY <3>2
    <3> QED BY <2>2, <3>3
  <2> QED BY <2>1, <2>2
<1>7. r[3].error = "none"
  BY <1>4, <1>6, NextSucceeds
<1>8. r[2].error = "none"
  BY <1>4, <1>7, NextSucceeds
<1>9. r[1].error = "none"
  BY <1>4, <1>8, NextSucceeds
<1>10. PICK c0 \in Seq(Bit) : c0 = <<1>> /\ At(d, 0, c0) /\ r[1] = ReadBits(c0, Len(c0))
  <2>1. PICK t \in Tags : t = Untyped
    BY One, NoTag
  <2>2. PICK at \in Nat, w \in Nat : at = 0 /\ w = 1
    OBVIOUS
  <2>3. r[1] = Read(d, at, t, w) /\ Read(d, at, t, w).error = "none"
    BY <1>5, <1>9, <2>1, <2>2
  <2>4. PICK v \in Seq(Bit) : /\ Len(v) = w /\ At(d, at, TagOf(t) \o v)
                              /\ Read(d, at, t, w) = ReadBits(v, at + Len(TagOf(t) \o v))
    BY <2>3, BitsGive
  <2>5. TagOf(t) \o v = v
    BY <2>1, NoTag
  <2>6. r[1] = ReadBits(v, at + Len(v)) /\ At(d, at, v)
    BY <2>3, <2>4, <2>5
  <2>7. at + Len(v) = Len(v)
    BY <2>2
  <2>8. PICK end : end = at + Len(v)
    OBVIOUS
  <2>9. r[1] = ReadBits(v, end) /\ ReadBits(v, end).bits = v
    BY <2>6, <2>8, ReadBitsIs
  <2>10. v = <<1>>
    BY <2>9
  <2> QED BY <2>2, <2>6, <2>7, <2>10
<1>11. PICK v1 \in Seq(Byte), c1 \in Seq(Bit) :
         /\ Len(v1) = m1 /\ c1 = c0 \o Coded(x1, v1) /\ At(d, 0, c1)
         /\ r[2] = ReadBits(Unpacked(v1), Len(c1))
  <2>1. PICK so : so = r[1] /\ Came(so, c0) /\ r[2] = NextBits(d, so, x1)
    BY <1>4, <1>10 DEF Came
  <2>2. x1.width = 8 * m1 /\ At(d, 0, c0) /\ NextBits(d, so, x1).error = "none"
    BY <1>2, <1>8, <1>10, <2>1
  <2>3. Gives(d, c0, x1, m1, NextBits(d, so, x1))
    BY <2>1, <2>2, ItemGives
  <2> QED BY <2>1, <2>3 DEF Gives
<1>12. PICK v2 \in Seq(Byte), c2 \in Seq(Bit) :
         /\ Len(v2) = m2 /\ c2 = c1 \o Coded(x2, v2) /\ At(d, 0, c2)
         /\ r[3] = ReadBits(Unpacked(v2), Len(c2))
  <2>1. PICK so : so = r[2] /\ Came(so, c1) /\ r[3] = NextBits(d, so, x2)
    BY <1>4, <1>11 DEF Came
  <2>2. x2.width = 8 * m2 /\ At(d, 0, c1) /\ NextBits(d, so, x2).error = "none"
    BY <1>2, <1>7, <1>11, <2>1
  <2>3. Gives(d, c1, x2, m2, NextBits(d, so, x2))
    BY <2>1, <2>2, ItemGives
  <2> QED BY <2>1, <2>3 DEF Gives
<1>13. PICK v3 \in Seq(Byte), c3 \in Seq(Bit) :
         /\ Len(v3) = m3 /\ c3 = c2 \o Coded(x3, v3) /\ At(d, 0, c3)
         /\ r[4] = ReadBits(Unpacked(v3), Len(c3))
  <2>1. PICK so : so = r[3] /\ Came(so, c2) /\ r[4] = NextBits(d, so, x3)
    BY <1>4, <1>12 DEF Came
  <2>2. x3.width = 8 * m3 /\ At(d, 0, c2) /\ NextBits(d, so, x3).error = "none"
    BY <1>2, <1>6, <1>12, <2>1
  <2>3. Gives(d, c2, x3, m3, NextBits(d, so, x3))
    BY <2>1, <2>2, ItemGives
  <2> QED BY <2>1, <2>3 DEF Gives
<1>14. CASE k = "account"
  <2>1. PICK x4 \in ItemType, m4 \in Nat : x4 = Items[k][4] /\ x4.width = 8 * m4
    BY <1>14, FourthItem
  <2>2. PICK so : so = r[4] /\ Came(so, c3)
    BY <1>13 DEF Came
  <2>3. NextBits(d, so, x4).error = "none"
    <3>1. r[5] = NextBits(d, r[4], Items[k][4]) /\ r[5].error = "none"
      BY <1>1, <1>4, <1>6, <1>14
    <3> QED BY <2>1, <2>2, <3>1
  <2>4. PICK v4 \in Seq(Byte) : Len(v4) = m4 /\ At(d, 0, c3 \o Coded(x4, v4))
    <3>1. At(d, 0, c3) /\ x4.width = 8 * m4
      BY <1>13, <2>1
    <3>2. Gives(d, c3, x4, m4, NextBits(d, so, x4))
      BY <2>2, <2>3, <3>1, ItemGives
    <3> QED BY <3>2 DEF Gives
  <2>5. PICK s : s = <<v1, v2, v3, v4>>
    OBVIOUS
  <2>6. ItemsFit(k, s)
    BY <1>2, <1>11, <1>12, <1>13, <1>14, <2>1, <2>4, <2>5, FitFour
  <2>7. s[1] = v1 /\ s[2] = v2 /\ s[3] = v3 /\ s[4] = v4
    BY <2>5
  <2>8. UpToThird(k, s) = c3
    BY <1>2, <1>10, <1>11, <1>12, <1>13, <2>7 DEF UpToThird
  <2>9. Content(k, s) = c3 \o Coded(x4, v4)
    BY <1>14, <2>1, <2>7, <2>8 DEF Content
  <2> QED BY <2>4, <2>6, <2>9
<1>15. CASE k # "account"
  <2>1. PICK s : s = <<v1, v2, v3>>
    OBVIOUS
  <2>2. ItemsFit(k, s)
    BY <1>2, <1>11, <1>12, <1>13, <1>15, <2>1, FitThree
  <2>3. s[1] = v1 /\ s[2] = v2 /\ s[3] = v3
    BY <2>1
  <2>4. UpToThird(k, s) = c3
    BY <1>2, <1>10, <1>11, <1>12, <1>13, <2>3 DEF UpToThird
  <2>5. Content(k, s) = c3
    BY <1>15, <2>4 DEF Content
  <2> QED BY <1>13, <2>2, <2>5
<1> QED BY <1>14, <1>15

-----------------------------------------------------------------------------
(* The body around the items                                               *)

TypeHead(k) == <<0, MessageType[k]>>

LEMMA TypeHeadIs ==
  ASSUME NEW k \in AuthKinds
  PROVE  \E w \in Seq(Byte) : /\ w = TypeHead(k) /\ Len(w) = 2
                              /\ w[1] = 0 /\ w[2] = MessageType[k]
<1>1. MessageType[k] \in Byte /\ 0 \in Byte
  BY DEF AuthKinds, MessageType, Byte
<1>2. \A x, y \in Byte : <<x, y>> \in Seq(Byte) /\ Len(<<x, y>>) = 2 /\ <<x, y>>[1] = x /\ <<x, y>>[2] = y
  OBVIOUS
<1> QED BY <1>1, <1>2 DEF TypeHead

LEMMA BodySizeIs ==
  ASSUME NEW k \in AuthKinds
  PROVE  BodySize[k] \in Nat /\ BodySize[k] >= 2
<1>1. PICK n \in Nat, m \in Nat : n = AccountBlockSize /\ m = AuthBlobSize
  BY KindItems, AuthSizes
<1>2. k = "account" \/ k = "mmp" \/ k = "login"
  BY DEF AuthKinds
<1>3. BodySize[k] = 20 + n \/ BodySize[k] = 20 \/ BodySize[k] = 12 + m
  BY <1>1, <1>2 DEF BodySize
<1> QED BY <1>3

SameEnd(p, b) == Len(p) > 0 => b[Len(b)] = p[Len(p)]

LEMMA Framed ==
  ASSUME NEW k \in AuthKinds, NEW p \in Seq(Byte), NEW b, b = TypeHead(k) \o p
  PROVE  /\ b \in Seq(Byte) /\ Len(b) = 2 + Len(p) /\ b[1] = 0 /\ b[2] = MessageType[k]
         /\ SubSeq(b, 3, Len(b)) = p /\ SameEnd(p, b)
<1>1. PICK w \in Seq(Byte) : w = TypeHead(k) /\ Len(w) = 2 /\ w[1] = 0 /\ w[2] = MessageType[k]
  BY TypeHeadIs
<1>0. /\ w \o p \in Seq(Byte) /\ Len(w \o p) = Len(w) + Len(p) /\ Len(p) \in Nat
      /\ \A i \in 1..Len(w) : (w \o p)[i] = w[i]
      /\ \A i \in 1..Len(p) : (w \o p)[Len(w) + i] = p[i]
  BY Joined
<1>b. w \o p = b
  BY <1>1
<1>2. b \in Seq(Byte) /\ Len(b) = 2 + Len(p) /\ Len(p) \in Nat
  BY <1>0, <1>1, <1>b
<1>3. b[1] = w[1] /\ b[2] = w[2] /\ \A i \in 1..Len(p) : b[2 + i] = p[i]
  <2>1. 1 \in 1..Len(w) /\ 2 \in 1..Len(w)
    BY <1>1
  <2> QED BY <1>0, <1>1, <1>b, <2>1
<1>4. At(b, 2, p)
  BY <1>2, <1>3 DEF At
<1>5. PICK at \in Nat : at = 2
  OBVIOUS
<1>6. SubSeq(b, 3, Len(b)) = p
  <2>1. 3 = at + 1 /\ Len(b) = at + Len(p) /\ At(b, at, p)
    BY <1>2, <1>4, <1>5
  <2> QED BY <1>2, <2>1, CutOut
<1>7. ASSUME Len(p) > 0 PROVE b[Len(b)] = p[Len(p)]
  BY <1>2, <1>3, <1>7
<1> QED BY <1>1, <1>2, <1>3, <1>6, <1>7 DEF SameEnd

Framing(k, b, m) ==
  \E p \in Seq(Byte) : p = SubSeq(b, 3, Len(b)) /\ Len(p) = m /\ b = TypeHead(k) \o p

LEMMA Unframed ==
  ASSUME NEW k \in AuthKinds, NEW b \in Seq(Byte), NEW m \in Nat, Len(b) = 2 + m,
         b[1] = 0, b[2] = MessageType[k]
  PROVE  Framing(k, b, m)
<1>1. PICK w \in Seq(Byte) : w = TypeHead(k) /\ Len(w) = 2 /\ w[1] = 0 /\ w[2] = MessageType[k]
  BY TypeHeadIs
<1>2. PICK at \in Nat : at = 2
  OBVIOUS
<1>3. PICK from, to : from = 3 /\ to = Len(b)
  OBVIOUS
<1>4. from = at + 1 /\ to = at + m /\ at + m <= Len(b)
  BY <1>2, <1>3
<1>5. PICK p \in Seq(Byte) : p = SubSeq(b, from, to) /\ Len(p) = m /\ At(b, at, p)
  BY <1>4, CutThere
<1>6. PICK c \in Seq(Byte) : c = w \o p /\ Len(c) = Len(w) + Len(p)
  BY Joined
<1>7. At(b, 0, w)
  <2>1. 0 + Len(w) <= Len(b)
    BY <1>1
  <2>2. \A i \in 1..Len(w) : b[0 + i] = w[i]
    <3>1. \A i \in 1..Len(w) : i = 1 \/ i = 2
      BY <1>1
    <3> QED BY <1>1, <3>1
  <2> QED BY <2>1, <2>2 DEF At
<1>8. At(b, Len(w), p)
  BY <1>1, <1>2, <1>5
<1>9. At(b, 0, c)
  BY <1>6, <1>7, <1>8, AtStart
<1>10. b = c
  BY <1>1, <1>5, <1>6, <1>9, AtWhole
<1> QED BY <1>1, <1>3, <1>5, <1>6, <1>10 DEF Framing

-----------------------------------------------------------------------------
\* The clear message of kind k with the values vals.
ClearBody(k, vals) == TypeHead(k) \o WriteItems(<<1>>, Items[k], vals)

\* The bits of a message, whole: content and padding.
Whole(k, vals, d, p) ==
  /\ d \in Seq(Bit) /\ p \in Seq(Byte) /\ p = Packed(d) /\ d = Unpacked(p)
  /\ Len(p) = BodySize[k] - 2 /\ Holds(d, Content(k, vals))

LEMMA WholeOf ==
  ASSUME NEW k \in AuthKinds, NEW vals, ItemsFit(k, vals), NEW d, Holds(d, Content(k, vals))
  PROVE  Whole(k, vals, d, Packed(d)) /\ Len(d) = 8 * (BodySize[k] - 2)
<1>1. PICK c \in Seq(Bit), n \in Nat :
        c = Content(k, vals) /\ n = BodySize[k] - 2 /\ Len(c) + 5 = 8 * n
  BY ContentIs
<1>2. d \in Seq(Bit) /\ Len(d) = Padded(Len(c))
  BY <1>1 DEF Holds, EndsAt
<1>3. PICK l \in Nat : l = Len(c) /\ l + 5 = 8 * n
  BY <1>1
<1>4. (l + 8 - 1) \div 8 = n
  BY <1>3
<1>5. Len(d) = 8 * n
  BY <1>2, <1>3, <1>4 DEF Padded, ByteBits
<1>6. Packed(d) \in Seq(Byte) /\ Len(Packed(d)) = n /\ Unpacked(Packed(d)) = d
  BY <1>2, <1>5, PackedIs, UnpackedPacked
<1> QED BY <1>1, <1>2, <1>5, <1>6 DEF Whole

\* What is written is the content with its padding.
LEMMA Wrote ==
  ASSUME NEW k \in AuthKinds, NEW vals, ItemsFit(k, vals)
  PROVE  \E d, p : Whole(k, vals, d, p) /\ WriteItems(<<1>>, Items[k], vals) = p
BY ContentWritten, WholeOf

\* The bits behind the last item are zero exactly when the last byte is below 8.
LEMMA UnusedZero ==
  ASSUME NEW k \in AuthKinds, NEW vals, ItemsFit(k, vals), NEW p \in Seq(Byte),
         Len(p) = BodySize[k] - 2
  PROVE  /\ Len(p) > 0
         /\ p[Len(p)] < 8 <=> \A i \in 1..Len(Unpacked(p)) :
                                i > Len(Content(k, vals)) => Unpacked(p)[i] = 0
<1>1. PICK n \in Nat : n + 1 = BodySize[k] - 2
  <2>1. BodySize[k] - 2 \in Nat /\ BodySize[k] >= 3
    BY ContentIs
  <2>2. PICK b \in Nat : b = BodySize[k] - 2
    BY <2>1
  <2>3. b >= 1
    BY <2>1, <2>2, BodySizeIs
  <2>4. b - 1 \in Nat /\ (b - 1) + 1 = b
    BY <2>3
  <2> QED BY <2>2, <2>4
<1>2. Len(p) = n + 1
  BY <1>1
<1>3. PICK l \in Nat : l = Len(Content(k, vals)) /\ l = 8 * n + 3
  <2>1. PICK c \in Seq(Bit) : c = Content(k, vals) /\ Len(c) + 5 = 8 * (n + 1)
    BY <1>1, ContentIs
  <2>2. Len(c) \in Nat /\ Len(c) = 8 * n + 3
    BY <2>1
  <2> QED BY <2>1, <2>2
<1>4. PICK u : u = Unpacked(p) /\ Len(u) = 8 * (n + 1)
  BY <1>2, UnpackedIs
<1>5. p[n + 1] < 8 <=> \A i \in 8 * n + 4..8 * n + 8 : u[i] = 0
  BY <1>2, <1>4, LastByte
<1>6. \A i \in 1..8 * (n + 1) : i > 8 * n + 3 <=> i \in 8 * n + 4..8 * n + 8
  OBVIOUS
<1>7. \A i \in 8 * n + 4..8 * n + 8 : i \in 1..8 * (n + 1)
  OBVIOUS
<1>8. p[n + 1] < 8 <=> \A i \in 1..8 * (n + 1) : i > 8 * n + 3 => u[i] = 0
  BY <1>5, <1>6, <1>7
<1> QED BY <1>2, <1>3, <1>4, <1>8

-----------------------------------------------------------------------------
(* Parsing a clear body                                                    *)

LEMMA ItemDomain ==
  ASSUME NEW k \in AuthKinds
  PROVE  DOMAIN Items[k] = 1..Len(Items[k]) /\ Len(Items[k]) \in Nat
<1>1. PICK h, a, l : h = Hash /\ a = Raw(AccountBlockSize) /\ l = Raw(AuthBlobSize)
  OBVIOUS
<1>2. \A x, y, z, w : /\ DOMAIN <<x, y, z, w>> = 1..4 /\ Len(<<x, y, z, w>>) = 4
                      /\ DOMAIN <<x, y, z>> = 1..3 /\ Len(<<x, y, z>>) = 3
  OBVIOUS
<1>3. \/ Items[k] = <<Tagged, Tagged, h, a>> \/ Items[k] = <<Tagged, Tagged, h>>
      \/ Items[k] = <<Tagged, Tagged, l>>
  BY <1>1 DEF AuthKinds, Items
<1> QED BY <1>2, <1>3

LEMMA TitleAt ==
  ASSUME NEW k \in AuthKinds
  PROVE  TitleItem[k] \in Nat /\ TitleItem[k] \in 1..Len(Items[k])
<1>1. TitleItem[k] = 1 \/ TitleItem[k] = 2
  BY DEF AuthKinds, TitleItem
<1>2. 1 \in 1..Len(Items[k]) /\ 2 \in 1..Len(Items[k])
  BY KindShape
<1> QED BY <1>1, <1>2

LEMMA WellFormedIs ==
  ASSUME NEW k \in AuthKinds, NEW b, NEW r
  PROVE  WellFormed(k, b, r) <=>
           /\ r[Len(r)].error = "none" /\ r[1].bits = <<1>>
           /\ Packed(r[TitleItem[k] + 1].bits) = Title
           /\ 8 * (Len(b) - 2) - r[Len(r)].next = 5 /\ b[Len(b)] < 8
<1>1. 2^(ByteBits - UnusedBits) = 8
  <2>1. ByteBits - UnusedBits = 3
    BY DEF ByteBits, UnusedBits
  <2> QED BY <2>1, Powers
<1> QED BY <1>1 DEF WellFormed, ByteBits, UnusedBits

ValuesOf(k, r) == [i \in DOMAIN Items[k] |-> Packed(r[i + 1].bits)]

IsBack(k, vals, r) ==
  /\ ValuesOf(k, r) = vals /\ Packed(r[TitleItem[k] + 1].bits) = vals[TitleItem[k]]
  /\ r[Len(r)].error = "none" /\ r[1].bits = <<1>>
  /\ r[Len(r)].next = Len(Content(k, vals))

LEMMA ReadBack ==
  ASSUME NEW k \in AuthKinds, NEW vals, ItemsFit(k, vals), NEW d, NEW r,
         ReadsAll(k, vals, d, Len(Items[k]), r)
  PROVE  IsBack(k, vals, r)
<1>1. PICK n \in Nat : n = Len(Items[k]) /\ DOMAIN Items[k] = 1..n
  BY ItemDomain
<1>2. \A i \in 1..n : r[i + 1].bits = Unpacked(vals[i])
  BY <1>1 DEF ReadsAll
<1>3. vals \in Seq(Seq(Byte)) /\ Len(vals) = n /\ \A i \in 1..n : vals[i] \in Seq(Byte)
  BY <1>1 DEF ItemsFit
<1>4. \A i \in 1..n : Packed(r[i + 1].bits) = vals[i]
  BY <1>2, <1>3, PackedUnpacked
<1>5. vals = [i \in 1..n |-> vals[i]]
  BY <1>3
<1>6. ValuesOf(k, r) = vals
  BY <1>1, <1>4, <1>5 DEF ValuesOf
<1>7. Packed(r[TitleItem[k] + 1].bits) = vals[TitleItem[k]]
  BY <1>1, <1>4, TitleAt
<1> QED BY <1>1, <1>6, <1>7 DEF ReadsAll, IsBack

LEMMA Parsing ==
  ASSUME NEW k \in AuthKinds, NEW p \in Seq(Byte), Len(p) = BodySize[k] - 2,
         NEW b, b = TypeHead(k) \o p, NEW r, r = ReadItems(k, Unpacked(p))
  PROVE  ParseAuthBody(k, b) = IF WellFormed(k, b, r) THEN Meaning(k, ValuesOf(k, r))
                               ELSE Malformed
<1>1. Len(b) = 2 + Len(p) /\ b[1] = 0 /\ b[2] = MessageType[k] /\ SubSeq(b, 3, Len(b)) = p
  BY Framed
<1>2. BodySize[k] \in Nat
  BY BodySizeIs
<1>3. Len(b) = BodySize[k]
  BY <1>1, <1>2
<1> QED BY <1>1, <1>3 DEF ParseAuthBody, ValuesOf

\* What a client writes is understood as it was meant.
LEMMA ClearThere ==
  ASSUME NEW k \in AuthKinds, NEW vals, ItemsFit(k, vals), vals[TitleItem[k]] = Title
  PROVE  ClearBody(k, vals) \in Seq(Byte) /\ ParseAuthBody(k, ClearBody(k, vals)) = Meaning(k, vals)
<1>1. PICK d, p : Whole(k, vals, d, p) /\ WriteItems(<<1>>, Items[k], vals) = p
  BY Wrote
<1>2. /\ d \in Seq(Bit) /\ p \in Seq(Byte) /\ d = Unpacked(p) /\ Len(p) = BodySize[k] - 2
      /\ Holds(d, Content(k, vals))
  BY <1>1 DEF Whole
<1>3. PICK b : b = TypeHead(k) \o p /\ b = ClearBody(k, vals)
  BY <1>1 DEF ClearBody
<1>4. /\ b \in Seq(Byte) /\ Len(b) = 2 + Len(p) /\ Len(p) > 0 /\ b[Len(b)] = p[Len(p)]
  <2>1. Len(p) > 0
    BY <1>2, UnusedZero
  <2>2. b \in Seq(Byte) /\ Len(b) = 2 + Len(p)
    BY <1>2, <1>3, Framed
  <2>3. SameEnd(p, b)
    BY <1>2, <1>3, Framed
  <2> QED BY <2>1, <2>2, <2>3 DEF SameEnd
<1>5. At(d, 0, Content(k, vals)) /\ \A i \in DOMAIN d : i > Len(Content(k, vals)) => d[i] = 0
  BY <1>2 DEF Holds, EndsAt
<1>6. p[Len(p)] < 8
  <2>1. DOMAIN d = 1..Len(d)
    BY <1>2
  <2>2. \A i \in 1..Len(Unpacked(p)) : i > Len(Content(k, vals)) => Unpacked(p)[i] = 0
    BY <1>2, <1>5, <2>1
  <2> QED BY <1>2, <2>2, UnusedZero
<1>7. PICK r : ReadsAll(k, vals, d, Len(Items[k]), r)
  BY <1>2, <1>5, ContentThere
<1>8. r = ReadItems(k, Unpacked(p))
  BY <1>2, <1>7 DEF ReadsAll
<1>9. /\ ValuesOf(k, r) = vals /\ Packed(r[TitleItem[k] + 1].bits) = Title
      /\ r[Len(r)].error = "none" /\ r[1].bits = <<1>>
      /\ r[Len(r)].next = Len(Content(k, vals))
  <2>1. IsBack(k, vals, r)
    BY <1>7, ReadBack
  <2> QED BY <2>1 DEF IsBack
<1>10. 8 * (Len(b) - 2) - r[Len(r)].next = 5
  <2>1. PICK l \in Nat, m \in Nat : l = Len(Content(k, vals)) /\ m = Len(p) /\ l + 5 = 8 * m
    <3>1. PICK c \in Seq(Bit) : c = Content(k, vals) /\ Len(c) + 5 = 8 * (BodySize[k] - 2)
      BY ContentIs
    <3>2. Len(c) \in Nat /\ Len(p) \in Nat
      BY <1>2
    <3> QED BY <1>2, <3>1, <3>2
  <2> QED BY <1>4, <1>9, <2>1
<1>11. WellFormed(k, b, r)
  BY <1>4, <1>6, <1>9, <1>10, WellFormedIs
<1>12. ParseAuthBody(k, b) = Meaning(k, vals)
  BY <1>2, <1>3, <1>8, <1>9, <1>11, Parsing
<1> QED BY <1>3, <1>4, <1>12

\* What is understood has only the form in which a client writes it.
LEMMA ClearGives ==
  ASSUME NEW k \in AuthKinds, NEW b \in Seq(Byte), ParseAuthBody(k, b) # Malformed
  PROVE  \E vals : ItemsFit(k, vals) /\ vals[TitleItem[k]] = Title /\ b = ClearBody(k, vals)
<1>1. Len(b) = BodySize[k] /\ b[1] = 0 /\ b[2] = MessageType[k]
  BY DEF ParseAuthBody
<1>2. PICK m \in Nat : m = BodySize[k] - 2 /\ Len(b) = 2 + m
  BY <1>1, BodySizeIs
<1>3. PICK p \in Seq(Byte) : Len(p) = m /\ b = TypeHead(k) \o p
  <2>1. Framing(k, b, m)
    BY <1>1, <1>2, Unframed
  <2> QED BY <2>1 DEF Framing
<1>4. PICK r : r = ReadItems(k, Unpacked(p))
  OBVIOUS
<1>5. WellFormed(k, b, r)
  BY <1>2, <1>3, <1>4, Parsing
<1>6. /\ r[Len(r)].error = "none" /\ r[1].bits = <<1>>
      /\ Packed(r[TitleItem[k] + 1].bits) = Title /\ b[Len(b)] < 8
  BY <1>5, WellFormedIs
<1>7. PICK d \in Seq(Bit) : d = Unpacked(p) /\ Len(d) = 8 * m
  BY <1>3, UnpackedIs
<1>8. PICK vals : ItemsFit(k, vals) /\ At(d, 0, Content(k, vals))
  BY <1>4, <1>6, <1>7, ContentGives
<1>9. PICK s : ReadsAll(k, vals, d, Len(Items[k]), s)
  BY <1>7, <1>8, ContentThere
<1>10. s = r
  BY <1>4, <1>7, <1>9 DEF ReadsAll
<1>11. vals[TitleItem[k]] = Title
  <2>1. IsBack(k, vals, s)
    BY <1>8, <1>9, ReadBack
  <2> QED BY <1>6, <1>10, <2>1 DEF IsBack
<1>12. p[Len(p)] < 8
  <2>1. Len(p) > 0
    BY <1>2, <1>3, <1>8, UnusedZero
  <2>2. SameEnd(p, b)
    BY <1>3, Framed
  <2> QED BY <1>6, <2>1, <2>2 DEF SameEnd
<1>13. Holds(d, Content(k, vals))
  <2>1. \A i \in 1..Len(d) : i > Len(Content(k, vals)) => d[i] = 0
    BY <1>2, <1>3, <1>7, <1>8, <1>12, UnusedZero
  <2>2. PICK c \in Seq(Bit) : c = Content(k, vals) /\ Len(c) + 5 = 8 * m
    BY <1>2, <1>8, ContentIs
  <2>3. PICK l \in Nat : l = Len(c) /\ l + 5 = 8 * m
    BY <2>2
  <2>4. (l + 8 - 1) \div 8 = m
    BY <2>3
  <2>5. Len(d) = Padded(Len(c))
    BY <1>7, <2>3, <2>4 DEF Padded, ByteBits
  <2>6. DOMAIN d = 1..Len(d)
    OBVIOUS
  <2> QED BY <1>8, <2>1, <2>2, <2>5, <2>6 DEF Holds, EndsAt
<1>14. PICK e, q : Whole(k, vals, e, q) /\ WriteItems(<<1>>, Items[k], vals) = q
  BY <1>8, Wrote
<1>15. Holds(e, Content(k, vals)) /\ q = Packed(e)
  BY <1>14 DEF Whole
<1>16. e = d
  BY <1>8, <1>13, <1>15, ContentIs, HoldsOnly
<1>17. q = p
  BY <1>3, <1>7, <1>15, <1>16, PackedUnpacked
<1> QED BY <1>3, <1>8, <1>11, <1>14, <1>17 DEF ClearBody

-----------------------------------------------------------------------------
(* The cipher of a block                                                   *)

LEMMA ShiftIs ==
  ASSUME NEW seed, Seed4(seed), NEW i \in Nat
  PROVE  BlockShift(seed, i) \in Nat
<1>1. 1 \in 1..Len(seed) /\ 2 \in 1..Len(seed) /\ 3 \in 1..Len(seed) /\ 4 \in 1..Len(seed)
  BY DEF Seed4
<1>2. seed[1] \in Byte /\ seed[2] \in Byte /\ seed[3] \in Byte /\ seed[4] \in Byte
  <2>1. seed \in Seq(Byte)
    BY DEF Seed4
  <2> QED BY <1>1, <2>1, ElementOfSeq, Zenon
<1>3. PICK a \in 0..255, b \in 0..255, c \in 0..255, d \in 0..255 :
        a = seed[1] /\ b = seed[2] /\ c = seed[3] /\ d = seed[4]
  BY <1>2, Zenon DEF Byte
<1>4. BlockShift(seed, i) = a + 3 * b + 5 * c + 7 * d + 11 * i
  BY <1>3 DEF BlockShift
<1>5. a + 3 * b + 5 * c + 7 * d + 11 * i \in Nat
  OBVIOUS
<1> QED BY <1>4, <1>5

LEMMA BlockCipherIs ==
  ASSUME NEW seed, Seed4(seed), NEW s \in Seq(Byte)
  PROVE  /\ SealedBlock(seed, s) \in Seq(Byte) /\ Len(SealedBlock(seed, s)) = Len(s)
         /\ OpenedBlock(seed, s) \in Seq(Byte) /\ Len(OpenedBlock(seed, s)) = Len(s)
         /\ OpenedBlock(seed, SealedBlock(seed, s)) = s /\ SealedBlock(seed, OpenedBlock(seed, s)) = s
<1>1. Len(s) \in Nat /\ DOMAIN s = 1..Len(s) /\ \A i \in 1..Len(s) : s[i] \in Byte /\ i \in Nat
  OBVIOUS
<1>2. ASSUME NEW i \in 1..Len(s)
      PROVE  /\ (s[i] + BlockShift(seed, i)) % 256 \in Byte
             /\ (((s[i] + BlockShift(seed, i)) % 256) - BlockShift(seed, i)) % 256 = s[i]
             /\ (s[i] - BlockShift(seed, i)) % 256 \in Byte
             /\ (((s[i] - BlockShift(seed, i)) % 256) + BlockShift(seed, i)) % 256 = s[i]
  <2>1. PICK x \in Byte : x = s[i]
    BY <1>1
  <2>2. PICK m \in Nat : m = BlockShift(seed, i)
    BY <1>1, ShiftIs
  <2>3. /\ (x + m) % 256 \in Byte /\ (((x + m) % 256) - m) % 256 = x
        /\ (x - m) % 256 \in Byte /\ (((x - m) % 256) + m) % 256 = x
    BY Shifted
  <2> QED BY <2>1, <2>2, <2>3, Zenon
<1>3. SealedBlock(seed, s) \in [1..Len(s) -> Byte]
  BY <1>1, <1>2 DEF SealedBlock
<1>4. PICK e \in Seq(Byte) : e = SealedBlock(seed, s) /\ Len(e) = Len(s)
  BY <1>1, <1>3, FunctionIsSeq
<1>5. OpenedBlock(seed, s) \in [1..Len(s) -> Byte]
  BY <1>1, <1>2 DEF OpenedBlock
<1>6. PICK d \in Seq(Byte) : d = OpenedBlock(seed, s) /\ Len(d) = Len(s)
  BY <1>1, <1>5, FunctionIsSeq
<1>7. /\ \A i \in 1..Len(s) : e[i] = (s[i] + BlockShift(seed, i)) % 256
      /\ \A i \in 1..Len(s) : d[i] = (s[i] - BlockShift(seed, i)) % 256
      /\ DOMAIN e = 1..Len(s) /\ DOMAIN d = 1..Len(s)
  BY <1>1, <1>4, <1>6 DEF SealedBlock, OpenedBlock
<1>8. OpenedBlock(seed, e) = s
  <2>1. OpenedBlock(seed, e) = [i \in 1..Len(s) |-> (e[i] - BlockShift(seed, i)) % 256]
    BY <1>7, Zenon DEF OpenedBlock
  <2>2. \A i \in 1..Len(s) : (e[i] - BlockShift(seed, i)) % 256 = s[i]
    BY <1>2, <1>7
  <2>3. s = [i \in 1..Len(s) |-> s[i]]
    OBVIOUS
  <2> QED BY <2>1, <2>2, <2>3
<1>9. SealedBlock(seed, d) = s
  <2>1. SealedBlock(seed, d) = [i \in 1..Len(s) |-> (d[i] + BlockShift(seed, i)) % 256]
    BY <1>7, Zenon DEF SealedBlock
  <2>2. \A i \in 1..Len(s) : (d[i] + BlockShift(seed, i)) % 256 = s[i]
    BY <1>2, <1>7
  <2>3. s = [i \in 1..Len(s) |-> s[i]]
    OBVIOUS
  <2> QED BY <2>1, <2>2, <2>3
<1> QED BY <1>4, <1>6, <1>8, <1>9


-----------------------------------------------------------------------------
(* Runs of zeros, and names                                                *)

Blanks(n) == [i \in 1..n |-> 0]

LEMMA BlanksAre ==
  ASSUME NEW n \in Nat
  PROVE  /\ Blanks(n) \in Seq(Byte) /\ Len(Blanks(n)) = n
         /\ \A i \in 1..n : Blanks(n)[i] = 0
<1>1. Blanks(n) \in [1..n -> Byte]
  BY DEF Blanks, Byte
<1> QED BY <1>1, FunctionIsSeq DEF Blanks

LEMMA AllZeroIs ==
  ASSUME NEW s \in Seq(Byte)
  PROVE  AllZero(s) <=> s = Blanks(Len(s))
<1>1. PICK n \in Nat : n = Len(s) /\ DOMAIN s = 1..n /\ s = [i \in 1..n |-> s[i]]
  OBVIOUS
<1>2. ASSUME AllZero(s) PROVE s = Blanks(n)
  BY <1>1, <1>2 DEF AllZero, Blanks
<1>3. ASSUME s = Blanks(n) PROVE AllZero(s)
  BY <1>1, <1>3, BlanksAre DEF AllZero
<1> QED BY <1>1, <1>2, <1>3

\* The letters of a name.
Letters(u) == Len(u) > 0 /\ \A i \in 1..Len(u) : Printable(u[i])

\* A name in its field: letters, then zeros.
Named(field, u) ==
  /\ u \in Seq(Byte) /\ Letters(u) /\ Len(u) <= Len(field)
  /\ \A i \in 1..Len(u) : field[i] = u[i]
  /\ \A i \in 1..Len(field) : i > Len(u) => field[i] = 0

LEMMA NameLengthIs ==
  ASSUME NEW field \in Seq(Byte)
  PROVE  \E n \in Nat :
           /\ n = NameLength(field) /\ n <= Len(field)
           /\ \A i \in 1..n : field[i] # 0
           /\ n < Len(field) => field[n + 1] = 0
<1>1. PICK m \in Nat : m = Len(field) /\ DOMAIN field = 1..m
  OBVIOUS
<1>2. PICK zeros \in SUBSET Nat :
        zeros = Ends(field) /\ \A i : i \in zeros <=> i \in 1..m /\ field[i] = 0
  <2>1. PICK zeros : zeros = {i \in 1..m : field[i] = 0}
    OBVIOUS
  <2>2. zeros = Ends(field)
    BY <1>1, <2>1 DEF Ends
  <2>3. zeros \in SUBSET Nat
    BY <2>1
  <2> QED BY <2>1, <2>2, <2>3
<1>3. CASE zeros = {}
  <2>1. NameLength(field) = m
    BY <1>1, <1>2, <1>3 DEF NameLength
  <2>2. \A i \in 1..m : field[i] # 0
    BY <1>2, <1>3
  <2> QED BY <1>1, <2>1, <2>2
<1>4. CASE zeros # {}
  <2>1. PICK first : first = CHOOSE i \in zeros : \A j \in zeros : i <= j
    OBVIOUS
  <2>2. \E i \in zeros : \A j \in zeros : i <= j
    BY <1>2, <1>4, LeastNumber
  <2>3. first \in zeros /\ \A j \in zeros : first <= j
    BY <2>1, <2>2
  <2>4. NameLength(field) = first - 1
    BY <1>2, <1>4, <2>1 DEF NameLength
  <2>5. first \in 1..m /\ field[first] = 0
    BY <1>2, <2>3
  <2>6. PICK n \in Nat : n = first - 1 /\ n <= m /\ n + 1 = first
    BY <1>1, <2>5
  <2>7. \A i \in 1..n : i \in 1..m /\ ~ (first <= i)
    BY <2>5, <2>6
  <2>8. \A i \in 1..n : field[i] # 0
    BY <1>2, <2>3, <2>7
  <2> QED BY <1>1, <2>4, <2>5, <2>6, <2>8
<1> QED BY <1>3, <1>4

LEMMA NameThere ==
  ASSUME NEW field \in Seq(Byte), NEW u, Named(field, u)
  PROVE  ValidName(field) /\ SubSeq(field, 1, NameLength(field)) = u
<1>1. PICK n \in Nat : /\ n = NameLength(field) /\ n <= Len(field)
                       /\ \A i \in 1..n : field[i] # 0
                       /\ n < Len(field) => field[n + 1] = 0
  BY NameLengthIs
<1>2. PICK l \in Nat : l = Len(u) /\ l <= Len(field) /\ l > 0 /\ u \in Seq(Byte)
  BY DEF Named, Letters
<1>3. /\ \A i \in 1..l : field[i] = u[i] /\ Printable(field[i]) /\ field[i] # 0
      /\ \A i \in 1..Len(field) : i > l => field[i] = 0
  <2>1. /\ \A i \in 1..l : field[i] = u[i] /\ Printable(u[i])
        /\ \A i \in 1..Len(field) : i > l => field[i] = 0
    BY <1>2 DEF Named, Letters
  <2>2. \A i \in 1..l : field[i] \in 32..126
    BY <2>1 DEF Printable
  <2>3. \A i \in 1..l : Printable(field[i]) /\ field[i] # 0
    <3>1. \A x \in 32..126 : x # 0 /\ Printable(x)
      BY DEF Printable
    <3> QED BY <2>2, <3>1
  <2> QED BY <2>1, <2>3
<1>4. Len(field) \in Nat
  OBVIOUS
<1>5. n = l
  <2>1. ~ (n < l)
    <3>1. ASSUME n < l PROVE FALSE
      <4>1. n + 1 \in 1..l /\ n < Len(field)
        BY <1>2, <1>4, <3>1
      <4> QED BY <1>1, <1>3, <4>1
    <3> QED BY <3>1
  <2>2. ~ (l < n)
    <3>1. ASSUME l < n PROVE FALSE
      <4>1. n \in 1..n /\ n \in 1..Len(field) /\ n > l
        BY <1>1, <1>2, <1>4, <3>1
      <4> QED BY <1>1, <1>3, <4>1
    <3> QED BY <3>1
  <2> QED BY <2>1, <2>2
<1>6. SubSeq(field, 1, n) = u
  <2>1. At(field, 0, u)
    BY <1>2, <1>3 DEF At
  <2>0. PICK at \in Nat : at = 0
    OBVIOUS
  <2>2. PICK from, to : from = 1 /\ to = n
    OBVIOUS
  <2>3. from = at + 1 /\ to = at + Len(u) /\ At(field, at, u)
    BY <1>2, <1>5, <2>0, <2>1, <2>2
  <2>4. SubSeq(field, from, to) = u
    BY <1>2, <2>3, CutOut
  <2> QED BY <2>2, <2>4
<1>7. NothingBehind(field)
  <2>1. PICK s : s = SubSeq(field, n + 1, Len(field))
    OBVIOUS
  <2>2. DOMAIN s = 1..(Len(field) - n) /\ \A i \in 1..(Len(field) - n) : s[i] = field[n + i]
    BY <1>1, <1>4, <2>1
  <2>3. \A i \in 1..(Len(field) - n) : n + i \in 1..Len(field) /\ n + i > l
    BY <1>4, <1>5
  <2>4. \A i \in DOMAIN s : s[i] = 0
    BY <1>3, <2>2, <2>3
  <2> QED BY <1>1, <2>1, <2>4 DEF NothingBehind, AllZero
<1> QED BY <1>1, <1>2, <1>3, <1>5, <1>6, <1>7 DEF ValidName

LEMMA NameGives ==
  ASSUME NEW field \in Seq(Byte), ValidName(field)
  PROVE  Named(field, SubSeq(field, 1, NameLength(field)))
<1>1. PICK n \in Nat : n = NameLength(field) /\ n <= Len(field)
  BY NameLengthIs
<1>2. n > 0 /\ NothingBehind(field) /\ \A i \in 1..n : Printable(field[i])
  BY <1>1 DEF ValidName
<1>0. PICK at \in Nat : at = 0
  OBVIOUS
<1>3. PICK from, to : from = 1 /\ to = n
  OBVIOUS
<1>4. from = at + 1 /\ to = at + n /\ at + n <= Len(field)
  BY <1>0, <1>1, <1>3
<1>5. PICK u \in Seq(Byte) : u = SubSeq(field, from, to) /\ Len(u) = n /\ At(field, at, u)
  BY <1>4, CutThere
<1>6. \A i \in 1..n : field[i] = u[i]
  BY <1>0, <1>5 DEF At
<1>7. Letters(u)
  BY <1>2, <1>5, <1>6 DEF Letters
<1>8. ASSUME NEW i \in 1..Len(field), i > n PROVE field[i] = 0
  <2>1. PICK s : s = SubSeq(field, n + 1, Len(field))
    OBVIOUS
  <2>2. DOMAIN s = 1..(Len(field) - n) /\ \A j \in 1..(Len(field) - n) : s[j] = field[n + j]
    BY <1>1, <2>1
  <2>3. \A j \in DOMAIN s : s[j] = 0
    BY <1>1, <1>2, <2>1 DEF NothingBehind, AllZero
  <2>4. i - n \in 1..(Len(field) - n) /\ n + (i - n) = i
    BY <1>1, <1>8
  <2> QED BY <2>2, <2>3, <2>4
<1> QED BY <1>1, <1>3, <1>5, <1>6, <1>7, <1>8 DEF Named

-----------------------------------------------------------------------------
(* The block of an account                                                 *)

LEMMA NamedIs ==
  ASSUME NEW field \in Seq(Byte), NEW u \in Seq(Byte), Letters(u), Len(u) <= Len(field)
  PROVE  Named(field, u) <=> field = u \o Blanks(Len(field) - Len(u))
<1>1. PICK l \in Nat, m \in Nat : l = Len(u) /\ l + m = Len(field) /\ m = Len(field) - Len(u)
  OBVIOUS
<1>2. PICK z \in Seq(Byte) : z = Blanks(m) /\ Len(z) = m /\ \A i \in 1..m : z[i] = 0
  BY BlanksAre
<1>3. PICK c \in Seq(Byte) :
        /\ c = u \o z /\ Len(c) = l + m /\ \A i \in 1..l : c[i] = u[i]
        /\ \A i \in 1..m : c[l + i] = z[i]
  <2>1. /\ u \o z \in Seq(Byte) /\ Len(u \o z) = Len(u) + Len(z)
        /\ \A i \in 1..Len(u) : (u \o z)[i] = u[i]
        /\ \A i \in 1..Len(z) : (u \o z)[Len(u) + i] = z[i]
    BY Joined
  <2>2. PICK c : c = u \o z
    OBVIOUS
  <2>3. Len(u) = l /\ Len(z) = m
    BY <1>1, <1>2
  <2>4. /\ c \in Seq(Byte) /\ Len(c) = Len(u) + Len(z)
        /\ \A i \in 1..Len(u) : c[i] = u[i]
        /\ \A i \in 1..Len(z) : c[Len(u) + i] = z[i]
    BY <2>1, <2>2
  <2>5. /\ Len(c) = l + m /\ \A i \in 1..l : c[i] = u[i]
        /\ \A i \in 1..m : c[l + i] = z[i]
    BY <2>3, <2>4
  <2> QED BY <2>2, <2>4, <2>5
<1>4. ASSUME Named(field, u) PROVE field = c
  <2>1. /\ \A i \in 1..l : field[i] = u[i]
        /\ \A i \in 1..(l + m) : i > l => field[i] = 0
    BY <1>1, <1>4 DEF Named
  <2>2. ASSUME NEW i \in 1..(l + m) PROVE field[i] = c[i]
    <3>1. CASE i <= l
      BY <1>3, <2>1, <3>1
    <3>2. CASE i > l
      <4>1. i - l \in 1..m /\ l + (i - l) = i
        BY <3>2
      <4>2. c[i] = 0
        BY <1>2, <1>3, <4>1
      <4> QED BY <2>1, <3>2, <4>2
    <3> QED BY <3>1, <3>2
  <2>3. PICK n \in Nat : n = l + m
    OBVIOUS
  <2>4. Len(field) = n /\ Len(c) = n /\ \A i \in 1..n : field[i] = c[i]
    BY <1>1, <1>3, <2>2, <2>3
  <2> QED BY <2>4
<1>5. ASSUME field = c PROVE Named(field, u)
  <2>1. ASSUME NEW i \in 1..(l + m), i > l PROVE field[i] = 0
    <3>1. i - l \in 1..m /\ l + (i - l) = i
      BY <2>1
    <3> QED BY <1>2, <1>3, <1>5, <3>1
  <2> QED BY <1>1, <1>3, <1>5, <2>1 DEF Named
<1> QED BY <1>1, <1>2, <1>3, <1>4, <1>5

LEMMA SignatureIs == BlockSignature \in Seq(Byte) /\ Len(BlockSignature) = 4
<1>1. 222 \in Byte /\ 173 \in Byte /\ 189 \in Byte /\ 239 \in Byte
  BY DEF Byte
<1>2. \A x, y, z, w \in Byte : <<x, y, z, w>> \in Seq(Byte) /\ Len(<<x, y, z, w>>) = 4
  OBVIOUS
<1> QED BY <1>1, <1>2 DEF BlockSignature

LEMMA SizesAre ==
  \E n \in Nat, m \in Nat : /\ n = UsernameSize /\ m = PasswordSize
                            /\ AccountBlockSize = 8 + n + m
BY KindItems, AuthSizes

\* The parts of an account's block, and where they stand.
BlockAt(s, u, w) ==
  /\ At(s, 0, BlockSignature) /\ At(s, 4, u)
  /\ At(s, 4 + Len(u), Blanks(UsernameSize - Len(u)))
  /\ At(s, 4 + UsernameSize, w) /\ At(s, 4 + UsernameSize + PasswordSize, Blanks(4))

LEMMA BlockIs ==
  ASSUME NEW u \in Seq(Byte), Len(u) <= UsernameSize, NEW w \in Seq(Byte),
         Len(w) = PasswordSize, NEW r, r.username = u, r.password = w, NEW s \in Seq(Byte)
  PROVE  /\ AccountBlock(r) \in Seq(Byte) /\ Len(AccountBlock(r)) = AccountBlockSize
         /\ At(s, 0, AccountBlock(r)) <=> BlockAt(s, u, w)
<1>1. PICK n \in Nat, m \in Nat : /\ n = UsernameSize /\ m = PasswordSize
                                  /\ AccountBlockSize = 8 + n + m
  BY SizesAre
<1>2. PICK l \in Nat, g \in Nat : l = Len(u) /\ l + g = n /\ g = UsernameSize - Len(u)
  BY <1>1
<1>3. PICK sig \in Seq(Byte) : sig = BlockSignature /\ Len(sig) = 4
  BY SignatureIs
<1>4. PICK z \in Seq(Byte) : z = Blanks(g) /\ Len(z) = g
  BY BlanksAre
<1>5. PICK four \in Nat : four = 4
  OBVIOUS
<1>6. PICK q \in Seq(Byte) : q = Blanks(four) /\ Len(q) = four
  BY BlanksAre
<1>7. PICK c1 \in Seq(Byte) :
        /\ c1 = sig \o u /\ Len(c1) = Len(sig) + Len(u)
        /\ At(s, 0, c1) <=> At(s, 0, sig) /\ At(s, Len(sig), u)
  BY Then
<1>8. PICK c2 \in Seq(Byte) :
        /\ c2 = c1 \o z /\ Len(c2) = Len(c1) + Len(z)
        /\ At(s, 0, c2) <=> At(s, 0, c1) /\ At(s, Len(c1), z)
  BY Then
<1>9. PICK c3 \in Seq(Byte) :
        /\ c3 = c2 \o w /\ Len(c3) = Len(c2) + Len(w)
        /\ At(s, 0, c3) <=> At(s, 0, c2) /\ At(s, Len(c2), w)
  BY Then
<1>10. PICK c4 \in Seq(Byte) :
         /\ c4 = c3 \o q /\ Len(c4) = Len(c3) + Len(q)
         /\ At(s, 0, c4) <=> At(s, 0, c3) /\ At(s, Len(c3), q)
  BY Then
<1>11. AccountBlock(r) = c4
  <2>1. AccountBlock(r) = BlockSignature \o u \o Blanks(UsernameSize - Len(u)) \o w \o Blanks(4)
    BY DEF AccountBlock, Blanks, ReservedBytes
  <2> QED BY <1>2, <1>3, <1>4, <1>5, <1>6, <1>7, <1>8, <1>9, <1>10, <2>1
<1>12. /\ Len(c1) = 4 + l /\ Len(c2) = 4 + n /\ Len(c3) = 4 + n + m /\ Len(c4) = 8 + n + m
  <2>1. Len(c1) = Len(sig) + Len(u) /\ Len(c2) = Len(c1) + Len(z)
        /\ Len(c3) = Len(c2) + Len(w) /\ Len(c4) = Len(c3) + Len(q)
    BY <1>7, <1>8, <1>9, <1>10
  <2>2. Len(sig) = 4 /\ Len(u) = l /\ Len(z) = g /\ l + g = n /\ Len(w) = m /\ Len(q) = 4
    BY <1>1, <1>2, <1>3, <1>4, <1>5, <1>6
  <2> QED BY <2>1, <2>2
<1>13. At(s, 0, c4) <=> /\ At(s, 0, sig) /\ At(s, 4, u) /\ At(s, 4 + l, z) /\ At(s, 4 + n, w)
                        /\ At(s, 4 + n + m, q)
  BY <1>3, <1>7, <1>8, <1>9, <1>10, <1>12
<1>14. At(s, 0, c4) <=> BlockAt(s, u, w)
  BY <1>1, <1>2, <1>3, <1>4, <1>5, <1>6, <1>13 DEF BlockAt
<1> QED BY <1>1, <1>11, <1>12, <1>14

\* The parts that the parser cuts out of a block.
Cut(s, sig, f, w, q) ==
  /\ sig = SubSeq(s, 1, 4) /\ f = NameField(s) /\ w = PasswordField(s)
  /\ q = SubSeq(s, Len(s) - ReservedBytes + 1, Len(s))
  /\ Len(sig) = 4 /\ Len(f) = UsernameSize /\ Len(w) = PasswordSize /\ Len(q) = 4
  /\ At(s, 0, sig) /\ At(s, 4, f) /\ At(s, 4 + UsernameSize, w)
  /\ At(s, 4 + UsernameSize + PasswordSize, q)

LEMMA BlockCut ==
  ASSUME NEW s \in Seq(Byte), Len(s) = AccountBlockSize
  PROVE  \E sig \in Seq(Byte), f \in Seq(Byte), w \in Seq(Byte), q \in Seq(Byte) : Cut(s, sig, f, w, q)
<1>1. PICK n \in Nat, m \in Nat : n = UsernameSize /\ m = PasswordSize /\ Len(s) = 8 + n + m
  BY SizesAre
<1>2. PICK four \in Nat, zero \in Nat : four = 4 /\ zero = 0
  OBVIOUS
<1>3. PICK a2 \in Nat, a3 \in Nat : a2 = 4 + n /\ a3 = 4 + n + m
  OBVIOUS
<1>4. PICK sig \in Seq(Byte) : sig = SubSeq(s, 1, 4) /\ Len(sig) = four /\ At(s, zero, sig)
  <2>1. PICK from, to : from = 1 /\ to = 4
    OBVIOUS
  <2>2. from = zero + 1 /\ to = zero + four /\ zero + four <= Len(s)
    BY <1>1, <1>2, <2>1
  <2>3. SubSeq(s, from, to) \in Seq(Byte) /\ Len(SubSeq(s, from, to)) = four /\ At(s, zero, SubSeq(s, from, to))
    BY <2>2, CutThere
  <2> QED BY <2>1, <2>3
<1>5. PICK f \in Seq(Byte) : f = NameField(s) /\ Len(f) = n /\ At(s, four, f)
  <2>1. PICK from, to : from = 5 /\ to = 4 + n
    OBVIOUS
  <2>2. from = four + 1 /\ to = four + n /\ four + n <= Len(s)
    BY <1>1, <1>2, <2>1
  <2>3. SubSeq(s, from, to) \in Seq(Byte) /\ Len(SubSeq(s, from, to)) = n /\ At(s, four, SubSeq(s, from, to))
    BY <2>2, CutThere
  <2>4. NameField(s) = SubSeq(s, from, to)
    BY <1>1, <2>1 DEF NameField
  <2> QED BY <2>3, <2>4
<1>6. PICK w \in Seq(Byte) : w = PasswordField(s) /\ Len(w) = m /\ At(s, a2, w)
  <2>1. PICK from, to : from = 5 + n /\ to = 4 + n + m
    OBVIOUS
  <2>2. from = a2 + 1 /\ to = a2 + m /\ a2 + m <= Len(s)
    BY <1>1, <1>3, <2>1
  <2>3. SubSeq(s, from, to) \in Seq(Byte) /\ Len(SubSeq(s, from, to)) = m /\ At(s, a2, SubSeq(s, from, to))
    BY <2>2, CutThere
  <2>4. PasswordField(s) = SubSeq(s, from, to)
    BY <1>1, <2>1 DEF PasswordField
  <2> QED BY <2>3, <2>4
<1>7. PICK q \in Seq(Byte) :
        q = SubSeq(s, Len(s) - ReservedBytes + 1, Len(s)) /\ Len(q) = four /\ At(s, a3, q)
  <2>1. PICK from, to : from = Len(s) - ReservedBytes + 1 /\ to = Len(s)
    OBVIOUS
  <2>2. from = a3 + 1 /\ to = a3 + four /\ a3 + four <= Len(s)
    BY <1>1, <1>2, <1>3, <2>1 DEF ReservedBytes
  <2>3. SubSeq(s, from, to) \in Seq(Byte) /\ Len(SubSeq(s, from, to)) = four /\ At(s, a3, SubSeq(s, from, to))
    BY <2>2, CutThere
  <2> QED BY <2>1, <2>3
<1> QED BY <1>1, <1>2, <1>3, <1>4, <1>5, <1>6, <1>7 DEF Cut

LEMMA SameAt ==
  ASSUME NEW s \in Seq(Byte), NEW at \in Nat, NEW a \in Seq(Byte), NEW b \in Seq(Byte),
         Len(a) = Len(b), At(s, at, a)
  PROVE  At(s, at, b) <=> a = b
<1>1. PICK n \in Nat : n = Len(a) /\ n = Len(b)
  OBVIOUS
<1>2. \A i \in 1..n : s[at + i] = a[i]
  BY <1>1 DEF At
<1>3. ASSUME At(s, at, b) PROVE a = b
  <2>1. \A i \in 1..n : s[at + i] = b[i]
    BY <1>1, <1>3 DEF At
  <2>2. \A i \in 1..n : a[i] = b[i]
    BY <1>2, <2>1
  <2> QED BY <1>1, <2>2
<1> QED BY <1>3

UserOf(s) == SubSeq(NameField(s), 1, NameLength(NameField(s)))

\* An account that a client may ask for.
AccountFits(u, w) ==
  /\ u \in Seq(Byte) /\ Letters(u) /\ Len(u) <= UsernameSize
  /\ w \in Seq(Byte) /\ Len(w) = PasswordSize

LEMMA Reserved ==
  ASSUME NEW q \in Seq(Byte), Len(q) = 4
  PROVE  AllZero(q) <=> q = Blanks(4)
<1>1. AllZero(q) <=> q = Blanks(Len(q))
  BY AllZeroIs
<1> QED BY <1>1

LEMMA FourBlanks == Blanks(4) \in Seq(Byte) /\ Len(Blanks(4)) = 4
<1>1. PICK four \in Nat : four = 4
  OBVIOUS
<1>2. Blanks(four) \in Seq(Byte) /\ Len(Blanks(four)) = four
  BY BlanksAre
<1> QED BY <1>1, <1>2

\* A name's field stands where the name and the zeros behind it do.
LEMMA NameStands ==
  ASSUME NEW s \in Seq(Byte), NEW f \in Seq(Byte), Len(f) = UsernameSize, At(s, 4, f),
         NEW u \in Seq(Byte), Letters(u), Len(u) <= UsernameSize
  PROVE  Named(f, u) <=> At(s, 4, u) /\ At(s, 4 + Len(u), Blanks(UsernameSize - Len(u)))
<1>1. PICK n \in Nat, g \in Nat, l \in Nat :
        n = UsernameSize /\ l = Len(u) /\ l + g = n /\ g = n - l
  <2>1. PICK n \in Nat : n = UsernameSize
    BY SizesAre
  <2>2. PICK l \in Nat : l = Len(u) /\ l <= n
    BY <2>1
  <2>3. n - l \in Nat /\ l + (n - l) = n
    BY <2>2
  <2> QED BY <2>1, <2>2, <2>3
<1>2. PICK z \in Seq(Byte) : z = Blanks(g) /\ Len(z) = g
  BY BlanksAre
<1>3. PICK c \in Seq(Byte) : c = u \o z /\ Len(c) = Len(u) + Len(z)
  BY Joined
<1>4. Len(c) = Len(f)
  BY <1>1, <1>2, <1>3
<1>5. PICK four \in Nat : four = 4
  OBVIOUS
<1>6. At(s, four, c) <=> f = c
  BY <1>4, <1>5, SameAt
<1>7. At(s, four, c) <=> At(s, four, u) /\ At(s, four + Len(u), z)
  BY <1>3, AtConcat
<1>8. Named(f, u) <=> f = c
  <2>1. Named(f, u) <=> f = u \o Blanks(Len(f) - Len(u))
    BY <1>1, NamedIs
  <2>2. Len(f) - Len(u) = g
    BY <1>1
  <2> QED BY <1>2, <1>3, <2>1, <2>2
<1>9. z = Blanks(UsernameSize - Len(u))
  BY <1>1, <1>2
<1> QED BY <1>5, <1>6, <1>7, <1>8, <1>9

\* What stands in a block that was cut.
LEMMA BlockMeans ==
  ASSUME NEW s \in Seq(Byte), Len(s) = AccountBlockSize,
         NEW sig \in Seq(Byte), NEW f \in Seq(Byte), NEW v \in Seq(Byte), NEW q \in Seq(Byte),
         Cut(s, sig, f, v, q), NEW u, NEW w, AccountFits(u, w), NEW r,
         r.username = u, r.password = w
  PROVE  s = AccountBlock(r) <=> sig = BlockSignature /\ Named(f, u) /\ v = w /\ AllZero(q)
<1>1. /\ u \in Seq(Byte) /\ Letters(u) /\ Len(u) <= UsernameSize
      /\ w \in Seq(Byte) /\ Len(w) = PasswordSize
  BY DEF AccountFits
<1>2. /\ Len(sig) = 4 /\ Len(f) = UsernameSize /\ Len(v) = PasswordSize /\ Len(q) = 4
      /\ At(s, 0, sig) /\ At(s, 4, f) /\ At(s, 4 + UsernameSize, v)
      /\ At(s, 4 + UsernameSize + PasswordSize, q)
  BY DEF Cut
<1>3. PICK b \in Seq(Byte) :
        b = AccountBlock(r) /\ Len(b) = Len(s) /\ (At(s, 0, b) <=> BlockAt(s, u, w))
  BY <1>1, BlockIs
<1>4. s = b <=> BlockAt(s, u, w)
  BY <1>3, AtWhole
<1>5. At(s, 0, BlockSignature) <=> sig = BlockSignature
  <2>1. PICK zero \in Nat, y \in Seq(Byte) : zero = 0 /\ y = BlockSignature /\ Len(y) = 4
    BY SignatureIs
  <2>2. Len(sig) = Len(y) /\ At(s, zero, sig)
    BY <1>2, <2>1
  <2>3. At(s, zero, y) <=> sig = y
    BY <2>2, SameAt
  <2> QED BY <2>1, <2>3
<1>6. Named(f, u) <=> At(s, 4, u) /\ At(s, 4 + Len(u), Blanks(UsernameSize - Len(u)))
  BY <1>1, <1>2, NameStands
<1>7. At(s, 4 + UsernameSize, w) <=> v = w
  <2>1. PICK at \in Nat : at = 4 + UsernameSize
    BY AuthSizes
  <2>2. Len(v) = Len(w) /\ At(s, at, v)
    BY <1>1, <1>2, <2>1
  <2>3. At(s, at, w) <=> v = w
    BY <1>1, <2>2, SameAt
  <2> QED BY <2>1, <2>3
<1>8. At(s, 4 + UsernameSize + PasswordSize, Blanks(4)) <=> AllZero(q)
  <2>1. PICK at \in Nat : at = 4 + UsernameSize + PasswordSize
    BY AuthSizes
  <2>2. PICK z \in Seq(Byte) : z = Blanks(4) /\ Len(z) = 4
    BY FourBlanks
  <2>3. Len(q) = Len(z) /\ At(s, at, q)
    BY <1>2, <2>1, <2>2
  <2>4. At(s, at, z) <=> q = z
    BY <2>3, SameAt
  <2>5. AllZero(q) <=> q = z
    BY <1>2, <2>2, Reserved
  <2> QED BY <2>1, <2>2, <2>4, <2>5
<1> QED BY <1>3, <1>4, <1>5, <1>6, <1>7, <1>8 DEF BlockAt

LEMMA ValidBlockIs ==
  ASSUME NEW s \in Seq(Byte), NEW sig, NEW f, NEW v, NEW q, Cut(s, sig, f, v, q)
  PROVE  /\ ValidBlock(s) <=> sig = BlockSignature /\ ValidName(f) /\ AllZero(q)
         /\ UserOf(s) = SubSeq(f, 1, NameLength(f)) /\ PasswordField(s) = v
BY DEF Cut, ValidBlock, UserOf

LEMMA BlockThere ==
  ASSUME NEW u, NEW w, AccountFits(u, w), NEW r, r.username = u, r.password = w,
         NEW s, s = AccountBlock(r)
  PROVE  /\ s \in Seq(Byte) /\ Len(s) = AccountBlockSize /\ ValidBlock(s)
         /\ UserOf(s) = u /\ PasswordField(s) = w
<1>1. /\ u \in Seq(Byte) /\ Len(u) <= UsernameSize /\ w \in Seq(Byte) /\ Len(w) = PasswordSize
  BY DEF AccountFits
<1>2. PICK any \in Seq(Byte) : any = <<>>
  <2>1. <<>> \in Seq(Byte)
    OBVIOUS
  <2> QED BY <2>1
<1>3. s \in Seq(Byte) /\ Len(s) = AccountBlockSize
  <2>1. AccountBlock(r) \in Seq(Byte) /\ Len(AccountBlock(r)) = AccountBlockSize
    BY <1>1, <1>2, BlockIs
  <2> QED BY <2>1
<1>4. PICK sig \in Seq(Byte), f \in Seq(Byte), v \in Seq(Byte), q \in Seq(Byte) : Cut(s, sig, f, v, q)
  BY <1>3, BlockCut
<1>5. sig = BlockSignature /\ Named(f, u) /\ v = w /\ AllZero(q)
  BY <1>3, <1>4, BlockMeans
<1>6. ValidName(f) /\ SubSeq(f, 1, NameLength(f)) = u
  BY <1>5, NameThere
<1>7. /\ ValidBlock(s) <=> sig = BlockSignature /\ ValidName(f) /\ AllZero(q)
      /\ UserOf(s) = SubSeq(f, 1, NameLength(f)) /\ PasswordField(s) = v
  BY <1>3, <1>4, ValidBlockIs
<1> QED BY <1>3, <1>5, <1>6, <1>7

LEMMA BlockGives ==
  ASSUME NEW s \in Seq(Byte), Len(s) = AccountBlockSize, ValidBlock(s),
         NEW r, r.username = UserOf(s), r.password = PasswordField(s)
  PROVE  AccountFits(UserOf(s), PasswordField(s)) /\ AccountBlock(r) = s
<1>1. PICK sig \in Seq(Byte), f \in Seq(Byte), v \in Seq(Byte), q \in Seq(Byte) : Cut(s, sig, f, v, q)
  BY BlockCut
<1>2. /\ sig = BlockSignature /\ ValidName(f) /\ AllZero(q)
      /\ UserOf(s) = SubSeq(f, 1, NameLength(f)) /\ PasswordField(s) = v
  BY <1>1, ValidBlockIs
<1>3. PICK u : u = UserOf(s) /\ Named(f, u)
  BY <1>2, NameGives
<1>4. AccountFits(u, v)
  BY <1>1, <1>3 DEF Cut, Named, AccountFits
<1>5. s = AccountBlock(r)
  <2>1. r.username = u /\ r.password = v
    BY <1>2, <1>3
  <2>2. s = AccountBlock(r) <=> sig = BlockSignature /\ Named(f, u) /\ v = v /\ AllZero(q)
    BY <1>1, <1>4, <2>1, BlockMeans
  <2> QED BY <1>2, <1>3, <2>2
<1> QED BY <1>2, <1>3, <1>4, <1>5

-----------------------------------------------------------------------------
(* Values that fit their items                                             *)

\* The lengths of a message's values.
ThreeFit(k, v1, v2, v3) ==
  /\ v1 \in Seq(Byte) /\ v2 \in Seq(Byte) /\ v3 \in Seq(Byte)
  /\ Len(v1) = 4 /\ Len(v2) = 4 /\ Len(v3) = IF k = "login" THEN AuthBlobSize ELSE 8
FourthFits(v4) == v4 \in Seq(Byte) /\ Len(v4) = AccountBlockSize

LEMMA Widths3 ==
  ASSUME NEW k \in AuthKinds
  PROVE  /\ Items[k][1].width = 32 /\ Items[k][2].width = 32
         /\ Items[k][3].width = IF k = "login" THEN 8 * AuthBlobSize ELSE 64
         /\ k = "account" => Items[k][4].width = 8 * AccountBlockSize
BY KindShape

LEMMA SameSeq ==
  ASSUME NEW S, NEW s \in Seq(S), NEW t \in Seq(S), NEW n \in Nat, Len(s) = n, Len(t) = n,
         \A i \in 1..n : s[i] = t[i]
  PROVE  s = t
OBVIOUS

LEMMA Eighths ==
  /\ \A l \in Nat : (8 * l = 32 => l = 4) /\ (8 * l = 64 => l = 8)
  /\ \A l \in Nat, m \in Nat : 8 * l = 8 * m => l = m
OBVIOUS

LEMMA Fit3 ==
  ASSUME NEW k \in AuthKinds, k # "account", NEW vals, ItemsFit(k, vals)
  PROVE  /\ ThreeFit(k, vals[1], vals[2], vals[3]) /\ vals = <<vals[1], vals[2], vals[3]>>
<1>1. PICK n \in Nat : n = Len(Items[k]) /\ n = 3
  BY Numbered
<1>2. /\ vals \in Seq(Seq(Byte)) /\ Len(vals) = 3
      /\ \A i \in 1..3 : vals[i] \in Seq(Byte) /\ 8 * Len(vals[i]) = Items[k][i].width
  BY <1>1 DEF ItemsFit
<1>3. PICK v1 \in Seq(Byte), v2 \in Seq(Byte), v3 \in Seq(Byte) :
        /\ v1 = vals[1] /\ v2 = vals[2] /\ v3 = vals[3]
        /\ 8 * Len(v1) = Items[k][1].width /\ 8 * Len(v2) = Items[k][2].width
        /\ 8 * Len(v3) = Items[k][3].width
  BY <1>2
<1>4. PICK m \in Nat : m = AuthBlobSize
  BY AuthSizes
<1>5. Len(v1) = 4 /\ Len(v2) = 4
  <2>1. 8 * Len(v1) = 32 /\ 8 * Len(v2) = 32
    BY <1>3, Widths3
  <2>2. Len(v1) \in Nat /\ Len(v2) \in Nat
    OBVIOUS
  <2> QED BY <2>1, <2>2, Eighths
<1>6. Len(v3) = IF k = "login" THEN m ELSE 8
  <2>1. 8 * Len(v3) = IF k = "login" THEN 8 * m ELSE 64
    <3>1. Items[k][3].width = IF k = "login" THEN 8 * AuthBlobSize ELSE 64
      BY Widths3
    <3> QED BY <1>3, <1>4, <3>1
  <2>2. Len(v3) \in Nat
    OBVIOUS
  <2>3. CASE k = "login"
    BY <2>1, <2>2, <2>3, Eighths
  <2>4. CASE k # "login"
    BY <2>1, <2>2, <2>4, Eighths
  <2> QED BY <2>3, <2>4
<1>7. vals = <<v1, v2, v3>>
  <2>1. \A i \in 1..3 : i = 1 \/ i = 2 \/ i = 3
    OBVIOUS
  <2>2. PICK s : s = <<v1, v2, v3>>
    OBVIOUS
  <2>3. s \in Seq(Seq(Byte)) /\ Len(s) = 3 /\ s[1] = v1 /\ s[2] = v2 /\ s[3] = v3
    BY <2>2
  <2>4. \A i \in 1..3 : vals[i] = s[i]
    BY <1>3, <2>1, <2>3
  <2>5. vals = s
    <3>1. PICK l \in Nat : l = 3
      OBVIOUS
    <3>2. /\ vals \in Seq(Seq(Byte)) /\ s \in Seq(Seq(Byte)) /\ Len(vals) = l /\ Len(s) = l
          /\ \A i \in 1..l : vals[i] = s[i]
      BY <1>2, <2>3, <2>4, <3>1
    <3> QED BY <3>2, SameSeq
  <2> QED BY <2>2, <2>5
<1> QED BY <1>3, <1>4, <1>5, <1>6, <1>7 DEF ThreeFit

LEMMA Fit4 ==
  ASSUME NEW k \in AuthKinds, k = "account", NEW vals, ItemsFit(k, vals)
  PROVE  /\ ThreeFit(k, vals[1], vals[2], vals[3]) /\ FourthFits(vals[4])
         /\ vals = <<vals[1], vals[2], vals[3], vals[4]>>
<1>1. PICK n \in Nat : n = Len(Items[k]) /\ n = 4
  BY Numbered
<1>2. /\ vals \in Seq(Seq(Byte)) /\ Len(vals) = 4
      /\ \A i \in 1..4 : vals[i] \in Seq(Byte) /\ 8 * Len(vals[i]) = Items[k][i].width
  BY <1>1 DEF ItemsFit
<1>3. PICK v1 \in Seq(Byte), v2 \in Seq(Byte), v3 \in Seq(Byte), v4 \in Seq(Byte) :
        /\ v1 = vals[1] /\ v2 = vals[2] /\ v3 = vals[3] /\ v4 = vals[4]
        /\ 8 * Len(v1) = Items[k][1].width /\ 8 * Len(v2) = Items[k][2].width
        /\ 8 * Len(v3) = Items[k][3].width /\ 8 * Len(v4) = Items[k][4].width
  BY <1>2
<1>4. PICK m \in Nat : m = AccountBlockSize
  BY KindItems
<1>5. Len(v1) = 4 /\ Len(v2) = 4
  <2>1. 8 * Len(v1) = 32 /\ 8 * Len(v2) = 32
    BY <1>3, Widths3
  <2>2. Len(v1) \in Nat /\ Len(v2) \in Nat
    OBVIOUS
  <2> QED BY <2>1, <2>2, Eighths
<1>6. Len(v3) = 8
  <2>1. 8 * Len(v3) = 64
    BY <1>3, Widths3
  <2>2. Len(v3) \in Nat
    OBVIOUS
  <2> QED BY <2>1, <2>2, Eighths
<1>7. Len(v4) = m
  <2>1. 8 * Len(v4) = 8 * m
    BY <1>3, <1>4, Widths3
  <2> QED BY <2>1
<1>8. vals = <<v1, v2, v3, v4>>
  <2>1. \A i \in 1..4 : i = 1 \/ i = 2 \/ i = 3 \/ i = 4
    OBVIOUS
  <2>2. PICK s : s = <<v1, v2, v3, v4>>
    OBVIOUS
  <2>3. s \in Seq(Seq(Byte)) /\ Len(s) = 4 /\ s[1] = v1 /\ s[2] = v2 /\ s[3] = v3 /\ s[4] = v4
    BY <2>2
  <2>4. \A i \in 1..4 : vals[i] = s[i]
    BY <1>3, <2>1, <2>3
  <2>5. vals = s
    <3>1. PICK l \in Nat : l = 4
      OBVIOUS
    <3>2. /\ vals \in Seq(Seq(Byte)) /\ s \in Seq(Seq(Byte)) /\ Len(vals) = l /\ Len(s) = l
          /\ \A i \in 1..l : vals[i] = s[i]
      BY <1>2, <2>3, <2>4, <3>1
    <3> QED BY <3>2, SameSeq
  <2> QED BY <2>2, <2>5
<1> QED BY <1>3, <1>4, <1>5, <1>6, <1>7, <1>8 DEF ThreeFit, FourthFits

LEMMA Fits3 ==
  ASSUME NEW k \in AuthKinds, k # "account", NEW v1, NEW v2, NEW v3, ThreeFit(k, v1, v2, v3)
  PROVE  ItemsFit(k, <<v1, v2, v3>>)
<1>1. PICK m \in Nat : m = AuthBlobSize
  BY AuthSizes
<1>2. /\ v1 \in Seq(Byte) /\ v2 \in Seq(Byte) /\ v3 \in Seq(Byte) /\ Len(v1) = 4 /\ Len(v2) = 4
      /\ Len(v3) = IF k = "login" THEN m ELSE 8
  BY <1>1 DEF ThreeFit
<1>3. 8 * Len(v1) = 32 /\ 8 * Len(v2) = 32 /\ 8 * Len(v3) = IF k = "login" THEN 8 * m ELSE 64
  BY <1>2
<1>4. /\ 8 * Len(v1) = Items[k][1].width /\ 8 * Len(v2) = Items[k][2].width
      /\ 8 * Len(v3) = Items[k][3].width
  BY <1>1, <1>3, Widths3
<1> QED BY <1>2, <1>4, FitThree

LEMMA Fits4 ==
  ASSUME NEW k \in AuthKinds, k = "account", NEW v1, NEW v2, NEW v3, NEW v4,
         ThreeFit(k, v1, v2, v3), FourthFits(v4)
  PROVE  ItemsFit(k, <<v1, v2, v3, v4>>)
<1>1. PICK m \in Nat : m = AccountBlockSize
  BY KindItems
<1>2. /\ v1 \in Seq(Byte) /\ v2 \in Seq(Byte) /\ v3 \in Seq(Byte) /\ v4 \in Seq(Byte)
      /\ Len(v1) = 4 /\ Len(v2) = 4 /\ Len(v3) = 8 /\ Len(v4) = m
  BY <1>1 DEF ThreeFit, FourthFits
<1>3. 8 * Len(v1) = 32 /\ 8 * Len(v2) = 32 /\ 8 * Len(v3) = 64 /\ 8 * Len(v4) = 8 * m
  BY <1>2
<1>4. /\ 8 * Len(v1) = Items[k][1].width /\ 8 * Len(v2) = Items[k][2].width
      /\ 8 * Len(v3) = Items[k][3].width /\ 8 * Len(v4) = Items[k][4].width
  BY <1>1, <1>3, Widths3
<1> QED BY <1>2, <1>4, FitFour

LEMMA TitleIs == Title \in Seq(Byte) /\ Len(Title) = 4
<1>1. PICK four \in Nat : four = 4
  OBVIOUS
<1>2. Title \in [1..four -> Byte]
  BY <1>1, AuthSizes DEF Byte
<1>3. Title \in Seq(Byte) /\ Len(Title) = four
  BY <1>2, FunctionIsSeq
<1> QED BY <1>1, <1>3

-----------------------------------------------------------------------------
(* Clear requests and their values                                         *)

\* The clear requests that clients may make.
AccountOf(x, u, w) == [kind |-> "account", seed |-> x, password |-> w, username |-> u]
MmpOf(x, h)        == [kind |-> "mmp", seed |-> x, hash |-> h]
LoginOf(x)         == [kind |-> "login", seed |-> x]

ClearRequest(k, r) ==
  \/ k = "account" /\ \E x, u, w : Seed4(x) /\ AccountFits(u, w) /\ r = AccountOf(x, u, w)
  \/ k = "mmp" /\ \E x, h : Seed4(x) /\ h \in Seq(Byte) /\ Len(h) = 8 /\ r = MmpOf(x, h)
  \/ k = "login" /\ \E x : Seed4(x) /\ r = LoginOf(x)

\* What the client seals in a request.
InsideOf(r) == IF r.kind = "account" THEN AccountBlock(r) ELSE <<>>

LEMMA RequestParts ==
  /\ \A x, u, w : /\ AccountOf(x, u, w).kind = "account" /\ AccountOf(x, u, w).seed = x
                  /\ AccountOf(x, u, w).username = u /\ AccountOf(x, u, w).password = w
  /\ \A x, h : MmpOf(x, h).kind = "mmp" /\ MmpOf(x, h).seed = x /\ MmpOf(x, h).hash = h
  /\ \A x : LoginOf(x).kind = "login" /\ LoginOf(x).seed = x
BY DEF AccountOf, MmpOf, LoginOf

LEMMA AuthBodyIs ==
  ASSUME NEW r, NEW k, r.kind = k, NEW vals, ItemValues(r, InsideOf(r)) = vals
  PROVE  AuthBody(r, InsideOf(r)) = ClearBody(k, vals)
BY DEF AuthBody, ClearBody, TypeHead

-----------------------------------------------------------------------------
(* What the values of each kind mean                                       *)

LEMMA MmpValues ==
  ASSUME NEW x, Seed4(x), NEW h \in Seq(Byte), Len(h) = 8
  PROVE  /\ ItemValues(MmpOf(x, h), InsideOf(MmpOf(x, h))) = <<x, Title, h>>
         /\ ItemsFit("mmp", <<x, Title, h>>) /\ <<x, Title, h>>[TitleItem["mmp"]] = Title
         /\ Meaning("mmp", <<x, Title, h>>) = MmpOf(x, h)
<1>1. PICK r : r = MmpOf(x, h) /\ r.kind = "mmp" /\ r.seed = x /\ r.hash = h
  BY RequestParts
<1>2. ItemValues(r, InsideOf(r)) = <<x, Title, h>>
  BY <1>1 DEF ItemValues
<1>3. ThreeFit("mmp", x, Title, h)
  BY TitleIs DEF Seed4, ThreeFit
<1>4. "mmp" \in AuthKinds /\ "mmp" # "account"
  BY DEF AuthKinds
<1>5. ItemsFit("mmp", <<x, Title, h>>)
  BY <1>3, <1>4, Fits3
<1>6. PICK s : s = <<x, Title, h>> /\ s[1] = x /\ s[2] = Title /\ s[3] = h
  <2>1. PICK s : s = <<x, Title, h>>
    OBVIOUS
  <2> QED BY <2>1
<1>7. s[TitleItem["mmp"]] = Title
  BY <1>6 DEF TitleItem
<1>8. Meaning("mmp", s) = MmpOf(x, h)
  BY <1>6 DEF Meaning, MmpOf
<1> QED BY <1>1, <1>2, <1>5, <1>6, <1>7, <1>8

LEMMA LoginValues ==
  ASSUME NEW x, Seed4(x), NEW z, z = Blanks(AuthBlobSize)
  PROVE  /\ ItemValues(LoginOf(x), InsideOf(LoginOf(x))) = <<Title, x, z>>
         /\ ItemsFit("login", <<Title, x, z>>) /\ <<Title, x, z>>[TitleItem["login"]] = Title
         /\ Meaning("login", <<Title, x, z>>) = LoginOf(x)
<1>1. PICK r : r = LoginOf(x) /\ r.kind = "login" /\ r.seed = x
  BY RequestParts
<1>2. ItemValues(r, InsideOf(r)) = <<Title, x, z>>
  BY <1>1 DEF ItemValues, Blanks
<1>3. z \in Seq(Byte) /\ Len(z) = AuthBlobSize
  BY AuthSizes, BlanksAre
<1>4. ThreeFit("login", Title, x, z)
  BY <1>3, TitleIs DEF Seed4, ThreeFit
<1>5. "login" \in AuthKinds /\ "login" # "account"
  BY DEF AuthKinds
<1>6. ItemsFit("login", <<Title, x, z>>)
  BY <1>4, <1>5, Fits3
<1>7. PICK s : s = <<Title, x, z>> /\ s[1] = Title /\ s[2] = x /\ s[3] = z
  <2>1. PICK s : s = <<Title, x, z>>
    OBVIOUS
  <2> QED BY <2>1
<1>8. s[TitleItem["login"]] = Title
  BY <1>7 DEF TitleItem
<1>9. AllZero(z)
  BY <1>3, AllZeroIs
<1>10. Meaning("login", s) = LoginOf(x)
  BY <1>7, <1>9 DEF Meaning, LoginOf
<1> QED BY <1>1, <1>2, <1>6, <1>7, <1>8, <1>10

LEMMA AccountValues ==
  ASSUME NEW x, Seed4(x), NEW u, NEW w, AccountFits(u, w), NEW r, r = AccountOf(x, u, w),
         NEW z, z = Blanks(8), NEW e, e = SealedBlock(x, AccountBlock(r))
  PROVE  /\ ItemValues(r, InsideOf(r)) = <<x, Title, z, e>>
         /\ ItemsFit("account", <<x, Title, z, e>>)
         /\ <<x, Title, z, e>>[TitleItem["account"]] = Title
         /\ Meaning("account", <<x, Title, z, e>>) = r
<1>1. r.kind = "account" /\ r.seed = x /\ r.username = u /\ r.password = w
  BY RequestParts
<1>2. ItemValues(r, InsideOf(r)) = <<x, Title, z, e>>
  BY <1>1 DEF ItemValues, InsideOf, Blanks
<1>3. PICK s : s = AccountBlock(r) /\ s \in Seq(Byte) /\ Len(s) = AccountBlockSize
               /\ ValidBlock(s) /\ UserOf(s) = u /\ PasswordField(s) = w
  BY <1>1, BlockThere
<1>4. e \in Seq(Byte) /\ Len(e) = AccountBlockSize /\ OpenedBlock(x, e) = s
  BY <1>3, BlockCipherIs
<1>5. z \in Seq(Byte) /\ Len(z) = 8
  <2>1. PICK n \in Nat : n = 8
    OBVIOUS
  <2>2. Blanks(n) \in Seq(Byte) /\ Len(Blanks(n)) = n
    BY BlanksAre
  <2> QED BY <2>1, <2>2
<1>6. ThreeFit("account", x, Title, z) /\ FourthFits(e)
  BY <1>4, <1>5, TitleIs DEF Seed4, ThreeFit, FourthFits
<1>7. "account" \in AuthKinds
  BY DEF AuthKinds
<1>8. ItemsFit("account", <<x, Title, z, e>>)
  BY <1>6, <1>7, Fits4
<1>9. PICK t : t = <<x, Title, z, e>> /\ t[1] = x /\ t[2] = Title /\ t[3] = z /\ t[4] = e
  <2>1. PICK t : t = <<x, Title, z, e>>
    OBVIOUS
  <2> QED BY <2>1
<1>10. t[TitleItem["account"]] = Title
  BY <1>9 DEF TitleItem
<1>11. AllZero(z)
  BY <1>5, AllZeroIs
<1>12. SubSeq(NameField(s), 1, NameLength(NameField(s))) = u
  BY <1>3 DEF UserOf
<1>13. Meaning("account", t)
         = [kind |-> "account", seed |-> x, password |-> PasswordField(s),
            username |-> SubSeq(NameField(s), 1, NameLength(NameField(s)))]
  BY <1>3, <1>4, <1>9, <1>11 DEF Meaning
<1>14. Meaning("account", t) = r
  BY <1>3, <1>12, <1>13 DEF AccountOf
<1> QED BY <1>2, <1>8, <1>9, <1>10, <1>14

\* The values of a request, as a body carries them.
Carried(k, r, vals) ==
  /\ r.kind = k /\ ItemValues(r, InsideOf(r)) = vals /\ ItemsFit(k, vals)
  /\ vals[TitleItem[k]] = Title /\ Meaning(k, vals) = r

LEMMA MmpCarried ==
  ASSUME NEW x, Seed4(x), NEW h \in Seq(Byte), Len(h) = 8
  PROVE  Carried("mmp", MmpOf(x, h), <<x, Title, h>>)
<1>1. PICK r, t : r = MmpOf(x, h) /\ t = <<x, Title, h>>
  OBVIOUS
<1>2. /\ ItemValues(r, InsideOf(r)) = t /\ ItemsFit("mmp", t) /\ t[TitleItem["mmp"]] = Title
      /\ Meaning("mmp", t) = r
  BY <1>1, MmpValues
<1>3. r.kind = "mmp"
  BY <1>1, RequestParts
<1>4. Carried("mmp", r, t)
  BY <1>2, <1>3, Zenon DEF Carried
<1> QED BY <1>1, <1>4

LEMMA LoginCarried ==
  ASSUME NEW x, Seed4(x)
  PROVE  Carried("login", LoginOf(x), <<Title, x, Blanks(AuthBlobSize)>>)
<1>1. PICK r, z, t : r = LoginOf(x) /\ z = Blanks(AuthBlobSize) /\ t = <<Title, x, z>>
  OBVIOUS
<1>2. /\ ItemValues(r, InsideOf(r)) = t /\ ItemsFit("login", t)
      /\ t[TitleItem["login"]] = Title /\ Meaning("login", t) = r
  BY <1>1, LoginValues
<1>3. r.kind = "login"
  BY <1>1, RequestParts
<1>4. Carried("login", r, t)
  BY <1>2, <1>3, Zenon DEF Carried
<1> QED BY <1>1, <1>4

LEMMA AccountCarried ==
  ASSUME NEW x, Seed4(x), NEW u, NEW w, AccountFits(u, w), NEW r, r = AccountOf(x, u, w)
  PROVE  Carried("account", r, <<x, Title, Blanks(8), SealedBlock(x, AccountBlock(r))>>)
<1>1. PICK z, e : z = Blanks(8) /\ e = SealedBlock(x, AccountBlock(r))
  OBVIOUS
<1>2. /\ ItemValues(r, InsideOf(r)) = <<x, Title, z, e>>
      /\ ItemsFit("account", <<x, Title, z, e>>)
      /\ <<x, Title, z, e>>[TitleItem["account"]] = Title
      /\ Meaning("account", <<x, Title, z, e>>) = r
  BY <1>1, AccountValues
<1>3. r.kind = "account"
  BY RequestParts
<1>4. Carried("account", r, <<x, Title, z, e>>)
  BY <1>2, <1>3, Zenon DEF Carried
<1> QED BY <1>1, <1>4

\* Every request of a kind has values that carry it.
LEMMA RequestCarried ==
  ASSUME NEW k \in AuthKinds, NEW r, ClearRequest(k, r)
  PROVE  \E vals : Carried(k, r, vals)
<1>1. CASE k = "account"
  <2>1. PICK x, u, w : Seed4(x) /\ AccountFits(u, w) /\ r = AccountOf(x, u, w)
    BY <1>1 DEF ClearRequest
  <2>2. Carried("account", r, <<x, Title, Blanks(8), SealedBlock(x, AccountBlock(r))>>)
    BY <2>1, AccountCarried
  <2> QED BY <1>1, <2>2
<1>2. CASE k = "mmp"
  <2>1. PICK x, h : Seed4(x) /\ h \in Seq(Byte) /\ Len(h) = 8 /\ r = MmpOf(x, h)
    BY <1>2 DEF ClearRequest
  <2>2. Carried("mmp", MmpOf(x, h), <<x, Title, h>>)
    BY <2>1, MmpCarried
  <2> QED BY <1>2, <2>1, <2>2
<1>3. CASE k = "login"
  <2>1. PICK x : Seed4(x) /\ r = LoginOf(x)
    BY <1>3 DEF ClearRequest
  <2>2. Carried("login", LoginOf(x), <<Title, x, Blanks(AuthBlobSize)>>)
    BY <2>1, LoginCarried
  <2> QED BY <1>3, <2>1, <2>2
<1> QED BY <1>1, <1>2, <1>3 DEF AuthKinds

\* Values that mean a request carry it.
LEMMA MeaningGives ==
  ASSUME NEW k \in AuthKinds, NEW vals, ItemsFit(k, vals), vals[TitleItem[k]] = Title,
         NEW r, r = Meaning(k, vals), r # Malformed
  PROVE  ClearRequest(k, r) /\ Carried(k, r, vals)
<1>1. CASE k = "mmp"
  <2>1. k # "account" /\ k # "login"
    BY <1>1
  <2>2. ThreeFit(k, vals[1], vals[2], vals[3]) /\ vals = <<vals[1], vals[2], vals[3]>>
    BY <2>1, Fit3
  <2>3. PICK x, h \in Seq(Byte) : x = vals[1] /\ h = vals[3] /\ Seed4(x) /\ Len(h) = 8
    BY <2>1, <2>2 DEF ThreeFit, Seed4
  <2>4. vals[2] = Title
    BY <1>1 DEF TitleItem
  <2>5. r = MmpOf(x, h)
    BY <1>1, <2>3 DEF Meaning, MmpOf
  <2>6. vals = <<x, Title, h>>
    BY <2>2, <2>3, <2>4
  <2>7. Carried("mmp", MmpOf(x, h), <<x, Title, h>>)
    BY <2>3, MmpCarried
  <2>8. Carried(k, r, vals)
    BY <1>1, <2>5, <2>6, <2>7
  <2>9. ClearRequest(k, r)
    BY <1>1, <2>3, <2>5 DEF ClearRequest
  <2> QED BY <2>8, <2>9
<1>2. CASE k = "login"
  <2>1. k # "account"
    BY <1>2
  <2>2. ThreeFit(k, vals[1], vals[2], vals[3]) /\ vals = <<vals[1], vals[2], vals[3]>>
    BY <2>1, Fit3
  <2>3. PICK x, z \in Seq(Byte) :
          x = vals[2] /\ z = vals[3] /\ Seed4(x) /\ Len(z) = AuthBlobSize
    BY <1>2, <2>2 DEF ThreeFit, Seed4
  <2>4. vals[1] = Title
    BY <1>2 DEF TitleItem
  <2>5. Meaning(k, vals) = IF AllZero(z) THEN LoginOf(x) ELSE Malformed
    BY <1>2, <2>3 DEF Meaning, LoginOf
  <2>6. AllZero(z) /\ r = LoginOf(x)
    BY <2>5
  <2>7. z = Blanks(AuthBlobSize)
    BY <2>3, <2>6, AllZeroIs
  <2>8. vals = <<Title, x, Blanks(AuthBlobSize)>>
    BY <2>2, <2>3, <2>4, <2>7
  <2>9. Carried("login", LoginOf(x), <<Title, x, Blanks(AuthBlobSize)>>)
    BY <2>3, LoginCarried
  <2>10. Carried(k, r, vals)
    BY <1>2, <2>6, <2>8, <2>9
  <2>11. ClearRequest(k, r)
    BY <1>2, <2>3, <2>6 DEF ClearRequest
  <2> QED BY <2>10, <2>11
<1>3. CASE k = "account"
  <2>1. /\ ThreeFit(k, vals[1], vals[2], vals[3]) /\ FourthFits(vals[4])
        /\ vals = <<vals[1], vals[2], vals[3], vals[4]>>
    BY <1>3, Fit4
  <2>2. PICK x, z \in Seq(Byte), e \in Seq(Byte) :
          /\ x = vals[1] /\ z = vals[3] /\ e = vals[4] /\ Seed4(x) /\ Len(z) = 8
          /\ Len(e) = AccountBlockSize
    BY <1>3, <2>1 DEF ThreeFit, FourthFits, Seed4
  <2>3. vals[2] = Title
    BY <1>3 DEF TitleItem
  <2>4. PICK s : s = OpenedBlock(x, e)
    OBVIOUS
  <2>5. s \in Seq(Byte) /\ Len(s) = AccountBlockSize /\ SealedBlock(x, s) = e
    BY <2>2, <2>4, BlockCipherIs
  <2>6. PICK u, w : u = UserOf(s) /\ w = PasswordField(s)
    OBVIOUS
  <2>7. Meaning(k, vals) = IF AllZero(z) /\ ValidBlock(s) THEN AccountOf(x, u, w) ELSE Malformed
    BY <1>3, <2>2, <2>4, <2>6 DEF Meaning, AccountOf, UserOf
  <2>8. AllZero(z) /\ ValidBlock(s) /\ r = AccountOf(x, u, w)
    BY <2>7
  <2>9. r.username = u /\ r.password = w
    BY <2>8, RequestParts
  <2>10. AccountFits(u, w) /\ AccountBlock(r) = s
    BY <2>5, <2>6, <2>8, <2>9, BlockGives
  <2>11. z = Blanks(8)
    BY <2>2, <2>8, AllZeroIs
  <2>12. vals = <<x, Title, Blanks(8), SealedBlock(x, AccountBlock(r))>>
    BY <2>1, <2>2, <2>3, <2>5, <2>10, <2>11
  <2>13. Carried("account", r, <<x, Title, Blanks(8), SealedBlock(x, AccountBlock(r))>>)
    BY <2>2, <2>8, <2>10, AccountCarried
  <2>14. Carried(k, r, vals)
    BY <1>3, <2>12, <2>13
  <2>15. ClearRequest(k, r)
    BY <1>3, <2>2, <2>8, <2>10 DEF ClearRequest
  <2> QED BY <2>14, <2>15
<1> QED BY <1>1, <1>2, <1>3 DEF AuthKinds

-----------------------------------------------------------------------------
LEMMA AuthThere ==
  ASSUME NEW k \in AuthKinds, NEW r, ClearRequest(k, r)
  PROVE  /\ r.kind = k /\ AuthBody(r, InsideOf(r)) \in Seq(Byte)
         /\ ParseAuthBody(k, AuthBody(r, InsideOf(r))) = r
<1>1. PICK vals : Carried(k, r, vals)
  BY RequestCarried
<1>2. /\ r.kind = k /\ ItemValues(r, InsideOf(r)) = vals /\ ItemsFit(k, vals)
      /\ vals[TitleItem[k]] = Title /\ Meaning(k, vals) = r
  BY <1>1 DEF Carried
<1>3. AuthBody(r, InsideOf(r)) = ClearBody(k, vals)
  BY <1>2, AuthBodyIs
<1>4. ClearBody(k, vals) \in Seq(Byte) /\ ParseAuthBody(k, ClearBody(k, vals)) = Meaning(k, vals)
  BY <1>2, ClearThere
<1> QED BY <1>2, <1>3, <1>4

LEMMA AuthGives ==
  ASSUME NEW k \in AuthKinds, NEW b \in Seq(Byte), NEW r, r = ParseAuthBody(k, b), r # Malformed
  PROVE  ClearRequest(k, r) /\ b = AuthBody(r, InsideOf(r))
<1>1. PICK vals : ItemsFit(k, vals) /\ vals[TitleItem[k]] = Title /\ b = ClearBody(k, vals)
  BY ClearGives
<1>2. r = Meaning(k, vals)
  BY <1>1, ClearThere
<1>3. ClearRequest(k, r) /\ Carried(k, r, vals)
  BY <1>1, <1>2, MeaningGives
<1>4. r.kind = k /\ ItemValues(r, InsideOf(r)) = vals
  BY <1>3 DEF Carried
<1>5. AuthBody(r, InsideOf(r)) = ClearBody(k, vals)
  BY <1>4, AuthBodyIs
<1> QED BY <1>1, <1>3, <1>5

-----------------------------------------------------------------------------
(* Whatever is sealed and sent is bytes                                    *)

\* Fields are written as bytes, values beyond their limits too.
LEMMA AnyFields ==
  ASSUME NEW fields \in Seq(LobbyField), NEW values,
         \A i \in 1..Len(fields) : InType(fields[i], values[i])
  PROVE  WriteFields(fields, values) \in Seq(Byte)
<1>1. PICK n \in Nat : n = Len(fields) /\ DOMAIN fields = 1..n
  OBVIOUS
<1>2. PICK max \in Limits : max = MaxInt32
  BY SMT DEF Limits, MaxInt32
<1>10. PICK wide : wide = [i \in 1..n |-> [type |-> fields[i].type, max |-> max]]
  OBVIOUS
<1>3. ASSUME NEW i \in 1..n
      PROVE  /\ fields[i] \in LobbyField /\ wide[i] \in LobbyField
             /\ wide[i].type = fields[i].type /\ wide[i].max = MaxInt32
  <2>1. fields[i] \in LobbyField
    BY <1>1
  <2>2. fields[i].type \in FieldTypes
    BY <2>1 DEF LobbyField
  <2>3. wide[i] = [type |-> fields[i].type, max |-> max]
    BY <1>10
  <2>4. [type |-> fields[i].type, max |-> max] \in LobbyField
    BY <2>2 DEF LobbyField
  <2> QED BY <1>2, <2>1, <2>3, <2>4
<1>4. wide \in Seq(LobbyField) /\ Len(wide) = n /\ DOMAIN wide = 1..n
  <2>1. wide \in [1..n -> LobbyField]
    BY <1>3, <1>10
  <2> QED BY <2>1, FunctionIsSeq
<1>5. ASSUME NEW i \in 1..n PROVE Fits(wide[i], values[i])
  <2>1. PICK field \in LobbyField, f \in LobbyField : field = fields[i] /\ f = wide[i]
    BY <1>3
  <2>2. InType(field, values[i]) /\ f.type = field.type /\ f.max = MaxInt32
    BY <1>1, <1>3, <2>1
  <2>3. PICK v : v = values[i]
    OBVIOUS
  <2>4. CASE field.type = "string"
    <3>1. v \in Seq(1..255) /\ Len(v) <= MaxInt32
      BY <2>2, <2>3, <2>4 DEF InType
    <3>2. Fits(f, v)
      BY <2>2, <2>4, <3>1 DEF Fits
    <3> QED BY <2>1, <2>3, <3>2
  <2>5. CASE field.type = "blob"
    <3>1. v \in Seq(Byte) /\ Len(v) <= MaxInt32
      BY <2>2, <2>3, <2>5 DEF InType, Byte
    <3>2. Fits(f, v)
      BY <2>2, <2>5, <3>1 DEF Fits
    <3> QED BY <2>1, <2>3, <3>2
  <2>6. CASE field.type # "string" /\ field.type # "blob"
    <3>1. field.type \in DOMAIN Size
      BY <2>6 DEF LobbyField, FieldTypes, Size
    <3>2. v \in Seq(Byte) /\ Len(v) = Size[field.type]
      BY <2>2, <2>3, <2>6, <3>1 DEF InType, Byte
    <3>3. Fits(f, v)
      BY <2>2, <2>6, <3>2 DEF Fits
    <3> QED BY <2>1, <2>3, <3>3
  <2> QED BY <2>4, <2>5, <2>6
<1>6. WriteFields(wide, values) \in Seq(Byte)
  BY <1>4, <1>5, LaidExists, FieldsWritten
<1>7. \A i \in 1..n : WriteField(wide[i], values[i]) = WriteField(fields[i], values[i])
  BY <1>3 DEF WriteField
<1>8. [i \in DOMAIN wide |-> WriteField(wide[i], values[i])]
        = [i \in DOMAIN fields |-> WriteField(fields[i], values[i])]
  BY <1>1, <1>4, <1>7
<1>9. WriteFields(wide, values) = WriteFields(fields, values)
  BY <1>8 DEF WriteFields
<1> QED BY <1>6, <1>9

\* The payload of any request consists of bytes, ...
LEMMA PayloadBytes ==
  ASSUME NEW r, LobbyRequest(r), LobbyForm(r)
  PROVE  Payload(r) \in Seq(Byte) /\ Seed4(r.seed)
<1>1. PICK k, seed, values : k = r.kind /\ seed = r.seed /\ values = r.values
  OBVIOUS
<1>2. k \in LobbyKinds /\ r = [kind |-> k, seed |-> seed, values |-> values]
  BY <1>1 DEF LobbyRequest, LobbyForm
<1>3. seed \in Seq(Byte) /\ Len(seed) = 4
  BY <1>1 DEF LobbyForm, FourBytes, Byte
<1>4. PICK fields \in Seq(LobbyField) : fields = Fields[k]
  BY <1>2, KindFields
<1>5. \A i \in 1..Len(fields) : InType(fields[i], values[i])
  <2>1. Len(values) = Len(fields) /\ DOMAIN values = 1..Len(values)
    BY <1>1, <1>4 DEF LobbyForm
  <2>2. \A i \in DOMAIN values : InType(Fields[k][i], values[i])
    BY <1>1 DEF LobbyForm
  <2> QED BY <1>4, <2>1, <2>2
<1>6. WriteFields(fields, values) \in Seq(Byte)
  BY <1>5, AnyFields
<1>7. PICK clear \in Seq(Byte) : clear = Clear(k, values)
  BY <1>2, <1>4, <1>6, ClearIs
<1>8. PICK b \in Byte : b = seed[1]
  <2>1. 1 \in 1..Len(seed)
    BY <1>3
  <2> QED BY <1>3, <2>1, ElementOfSeq
<1>9. PICK m \in Nat : m = Short(Len(clear))
  <2>1. Len(clear) \in Nat /\ \A i \in 0..(BlockSize - 1) : i \in Nat
    OBVIOUS
  <2> QED BY <2>1, ShortIs
<1>10. Fill(m, b) \in Seq(Byte)
  BY FillIs
<1>11. Payload(r) = clear \o Fill(m, b)
  BY <1>2, <1>3, <1>7, <1>8, <1>9, PayloadIs
<1> QED BY <1>1, <1>3, <1>10, <1>11, Joined DEF Seed4

\* ... and so does what it is sealed into, whatever the payload has become.
LEMMA SealedBytes ==
  ASSUME NEW r, LobbyRequest(r), LobbyForm(r), NEW p \in Seq(Byte)
  PROVE  Sealed(r, p) \in Seq(Byte)
<1>1. PICK seed : seed = r.seed /\ Seed4(seed) /\ seed \in Seq(Byte)
  BY PayloadBytes DEF Seed4
<1>2. PICK service \in Byte : service = Service[r.kind]
  BY KindTypes DEF LobbyRequest
<1>3. PICK inner \in Seq(Byte) : inner = HMAC(p) \o <<service>> \o p
  BY MaskedIs
<1>4. PICK cipher \in Seq(Byte) : cipher = Encrypt(seed, inner)
  BY <1>1, CipherIs
<1>5. PICK one \in Seq(Byte) : one = <<1>>
  <2>1. PICK b \in Byte : b = 1
    BY DEF Byte
  <2> QED BY <2>1, Single
<1>6. one \o seed \o cipher \in Seq(Byte)
  BY <1>1, Joined
<1>7. Sealed(r, p) = one \o seed \o cipher
  BY <1>1, <1>2, <1>3, <1>4, <1>5 DEF Sealed
<1> QED BY <1>6, <1>7

\* A writer's bits fill whole bytes, whatever is put into it.
WholeBytes(so) ==
  so.data \in Seq(Bit) /\ so.offset \in Nat /\ \E m \in Nat : Len(so.data) = 8 * m

LEMMA PutWhole ==
  ASSUME NEW d \in Seq(Bit), NEW offset \in Nat, NEW bits \in Seq(Bit)
  PROVE  Put(d, offset, bits) \in Seq(Bit) /\ \E m \in Nat : Len(Put(d, offset, bits)) = 8 * m
<1>1. PICK n \in Nat : n = offset + Len(bits)
  OBVIOUS
<1>2. PICK m \in Nat : m = (n + 8 - 1) \div 8
  <2>1. (n + 8 - 1) \div 8 \in Nat
    OBVIOUS
  <2> QED BY <2>1
<1>3. PICK size \in Nat : size = 8 * m
  OBVIOUS
<1>4. Padded(n) = size
  BY <1>2, <1>3 DEF Padded, ByteBits
<1>5. \A i \in 1..size : Stored(d, offset, i) \in Bit
  BY DEF Stored, Bit
<1>6. PICK put : put = Put(d, offset, bits)
  OBVIOUS
<1>7. put = [i \in 1..size |->
               IF i > offset /\ i <= offset + Len(bits) /\ bits[i - offset] = 1
               THEN 1 ELSE Stored(d, offset, i)]
  BY <1>1, <1>4, <1>6 DEF Put
<1>8. put \in [1..size -> Bit]
  BY <1>5, <1>7 DEF Bit
<1>9. put \in Seq(Bit) /\ Len(put) = size
  BY <1>8, FunctionIsSeq
<1> QED BY <1>3, <1>6, <1>9

LEMMA NextWhole ==
  ASSUME NEW so, WholeBytes(so), NEW item \in ItemType, NEW value \in Seq(Byte)
  PROVE  WholeBytes(NextPut(so, item, value))
<1>1. PICK t \in Seq(Bit), u \in Seq(Bit) : t = TagOf(item.tag) /\ u = Unpacked(value)
  <2>1. item.tag \in Tags
    BY DEF ItemType
  <2> QED BY <2>1, TagsDiffer, UnpackedIs
<1>2. PICK e \in Seq(Bit) : e = TagOf(item.tag) \o Unpacked(value) /\ Len(e) \in Nat
  <2>1. t \o u \in Seq(Bit) /\ Len(t \o u) \in Nat
    BY BitsJoined
  <2> QED BY <1>1, <2>1
<1>3. PICK d \in Seq(Bit), offset \in Nat : d = so.data /\ offset = so.offset
  BY DEF WholeBytes
<1>4. Put(d, offset, e) \in Seq(Bit) /\ \E m \in Nat : Len(Put(d, offset, e)) = 8 * m
  BY PutWhole
<1>5. /\ NextPut(so, item, value).data = Put(d, offset, e)
      /\ NextPut(so, item, value).offset = offset + Len(e)
  BY <1>2, <1>3 DEF NextPut
<1>6. offset + Len(e) \in Nat
  BY <1>2
<1> QED BY <1>4, <1>5, <1>6 DEF WholeBytes

LEMMA FirstWhole == WholeBytes(FirstPut(<<1>>))
<1>1. PICK z \in Seq(Bit), one \in Seq(Bit), at \in Nat :
        z = <<>> /\ one = <<1>> /\ at = 0 /\ Len(one) = 1
  <2>1. <<>> \in Seq(Bit) /\ 0 \in Nat
    OBVIOUS
  <2>2. PICK one \in Seq(Bit) : one = <<1>> /\ Len(one) = 1
    BY One
  <2> QED BY <2>1, <2>2
<1>2. Put(z, at, one) \in Seq(Bit) /\ \E m \in Nat : Len(Put(z, at, one)) = 8 * m
  BY PutWhole
<1>3. FirstPut(one).data = Put(z, at, one) /\ FirstPut(one).offset = Len(one)
  BY <1>1 DEF FirstPut
<1> QED BY <1>1, <1>2, <1>3 DEF WholeBytes

\* The items of a message are written as bytes, of whatever length their values are.
LEMMA ItemsBytes ==
  ASSUME NEW k \in AuthKinds, NEW vals, \A i \in 1..Len(Items[k]) : vals[i] \in Seq(Byte)
  PROVE  WriteItems(<<1>>, Items[k], vals) \in Seq(Byte)
<1>1. PICK n \in Nat : /\ n = Len(Items[k]) /\ n <= 4 /\ 1 \in 1..n /\ 2 \in 1..n /\ 3 \in 1..n
                       /\ k = "account" => n = 4 /\ 4 \in 1..n
                       /\ k # "account" => n = 3
  BY Numbered
<1>2. \A i \in 1..n : Items[k][i] \in ItemType /\ vals[i] \in Seq(Byte)
  BY <1>1, KindShape
<1>3. PICK list : list = Items[k]
  OBVIOUS
<1>4. PICK f : PutSteps(<<1>>, list, vals, n, f)
  BY <1>1, <1>3, ItemsPut
<1>5. /\ f[1] = NextPut(f[0], list[1], vals[1]) /\ f[2] = NextPut(f[1], list[2], vals[2])
      /\ f[3] = NextPut(f[2], list[3], vals[3])
      /\ 4 \in 1..n => f[4] = NextPut(f[3], list[4], vals[4])
  BY <1>1, <1>4, PutSteps3
<1>6. WholeBytes(f[0])
  <2>1. f[0] = FirstPut(<<1>>)
    BY <1>4 DEF PutSteps
  <2> QED BY <2>1, FirstWhole
<1>7. WholeBytes(f[1])
  BY <1>1, <1>2, <1>3, <1>5, <1>6, NextWhole
<1>8. WholeBytes(f[2])
  BY <1>1, <1>2, <1>3, <1>5, <1>7, NextWhole
<1>9. WholeBytes(f[3])
  BY <1>1, <1>2, <1>3, <1>5, <1>8, NextWhole
<1>10. 4 \in 1..n => WholeBytes(f[4])
  BY <1>1, <1>2, <1>3, <1>5, <1>9, NextWhole
<1>11. WholeBytes(f[n])
  BY <1>1, <1>9, <1>10
<1>12. PICK d \in Seq(Bit), m \in Nat : d = f[n].data /\ Len(d) = 8 * m
  BY <1>11 DEF WholeBytes
<1>13. Packed(d) \in Seq(Byte)
  BY <1>12, PackedIs
<1> QED BY <1>3, <1>4, <1>12, <1>13 DEF PutSteps

LEMMA NoLobbyKind ==
  "account" \notin LobbyKinds /\ "mmp" \notin LobbyKinds /\ "login" \notin LobbyKinds
    /\ "binding" \notin LobbyKinds
BY KindTypes

\* Zeros in any number, none where it is negative.
LEMMA AnyZeros ==
  ASSUME NEW n \in Int
  PROVE  [i \in 1..n |-> 0] \in Seq(Byte)
<1>1. PICK m \in Nat : m = IF n < 0 THEN 0 ELSE n
  OBVIOUS
<1>2. 1..n = 1..m
  BY <1>1
<1>3. [i \in 1..m |-> 0] \in [1..m -> Byte]
  BY DEF Byte
<1> QED BY <1>2, <1>3, FunctionIsSeq

\* A username beyond the limit makes a block that is too long, but of bytes.
LEMMA BlockBytes ==
  ASSUME NEW r, AccountForm(r)
  PROVE  AccountBlock(r) \in Seq(Byte)
<1>1. PICK u \in Seq(Byte), w \in Seq(Byte) : u = r.username /\ w = r.password
  BY DEF AccountForm, Byte
<1>2. PICK sig \in Seq(Byte) : sig = BlockSignature
  BY SignatureIs
<1>3. PICK fill \in Seq(Byte) : fill = [i \in 1..UsernameSize - Len(u) |-> 0]
  <2>1. PICK n \in Int : n = UsernameSize - Len(u)
    BY AuthSizes
  <2>2. [i \in 1..n |-> 0] \in Seq(Byte)
    BY AnyZeros
  <2> QED BY <2>1, <2>2
<1>4. PICK end \in Seq(Byte) : end = [i \in 1..ReservedBytes |-> 0]
  <2>1. PICK n \in Int : n = ReservedBytes
    BY DEF ReservedBytes
  <2>2. [i \in 1..n |-> 0] \in Seq(Byte)
    BY AnyZeros
  <2> QED BY <2>1, <2>2
<1>5. AccountBlock(r) = sig \o u \o fill \o w \o end
  BY <1>1, <1>2, <1>3, <1>4 DEF AccountBlock
<1> QED BY <1>5, Joined

\* What a client of the authentication service or the lobby's login sends consists
\* of bytes, whatever has become of the block that it seals.
LEMMA AuthBodyBytes ==
  ASSUME NEW r, NEW p \in Seq(Byte),
         (r.kind = "account" /\ AccountForm(r)) \/ (r.kind = "mmp" /\ MmpForm(r))
           \/ (r.kind = "login" /\ LoginForm(r))
  PROVE  AuthBody(r, p) \in Seq(Byte)
<1>1. PICK k \in AuthKinds : k = r.kind
  BY DEF AuthKinds
<1>2. Seed4(r.seed)
  BY DEF Seed4, AccountForm, MmpForm, LoginForm, FourBytes, Byte
<1>3. PICK x \in Seq(Byte), title \in Seq(Byte) : x = r.seed /\ title = Title
  BY <1>2, TitleIs DEF Seed4
<1>4. PICK vals : vals = ItemValues(r, p)
  OBVIOUS
<1>5. \A i \in 1..Len(Items[k]) : vals[i] \in Seq(Byte)
  <2>1. CASE k = "account"
    <3>1. PICK blanks \in Seq(Byte), e \in Seq(Byte) :
            blanks = [i \in 1..8 |-> 0] /\ e = SealedBlock(x, p)
      <4>1. SealedBlock(x, p) \in Seq(Byte)
        BY <1>2, <1>3, BlockCipherIs
      <4>2. PICK n \in Int : n = 8
        OBVIOUS
      <4>3. [i \in 1..n |-> 0] \in Seq(Byte)
        BY AnyZeros
      <4> QED BY <4>1, <4>2, <4>3
    <3>2. vals = <<x, title, blanks, e>>
      BY <1>1, <1>3, <1>4, <2>1, <3>1 DEF ItemValues
    <3>3. vals[1] = x /\ vals[2] = title /\ vals[3] = blanks /\ vals[4] = e
      BY <3>2
    <3>4. Len(Items[k]) = 4
      BY <2>1, KindShape
    <3>5. \A i \in 1..4 : i = 1 \/ i = 2 \/ i = 3 \/ i = 4
      OBVIOUS
    <3> QED BY <3>3, <3>4, <3>5
  <2>2. CASE k = "mmp"
    <3>1. PICK h \in Seq(Byte) : h = r.hash
      BY <1>1, <2>2 DEF MmpForm, AccountForm, LoginForm, Byte
    <3>2. vals = <<x, title, h>>
      BY <1>1, <1>3, <1>4, <2>2, <3>1 DEF ItemValues
    <3>3. vals[1] = x /\ vals[2] = title /\ vals[3] = h
      BY <3>2
    <3>4. Len(Items[k]) = 3
      BY <2>2, KindShape
    <3>5. \A i \in 1..3 : i = 1 \/ i = 2 \/ i = 3
      OBVIOUS
    <3> QED BY <3>3, <3>4, <3>5
  <2>3. CASE k = "login"
    <3>1. PICK blanks \in Seq(Byte) : blanks = [i \in 1..AuthBlobSize |-> 0]
      <4>1. PICK n \in Int : n = AuthBlobSize
        BY AuthSizes
      <4>2. [i \in 1..n |-> 0] \in Seq(Byte)
        BY AnyZeros
      <4> QED BY <4>1, <4>2
    <3>2. vals = <<title, x, blanks>>
      BY <1>1, <1>3, <1>4, <2>3, <3>1 DEF ItemValues
    <3>3. vals[1] = title /\ vals[2] = x /\ vals[3] = blanks
      BY <3>2
    <3>4. Len(Items[k]) = 3
      BY <2>3, KindShape
    <3>5. \A i \in 1..3 : i = 1 \/ i = 2 \/ i = 3
      OBVIOUS
    <3> QED BY <3>3, <3>4, <3>5
  <2> QED BY <2>1, <2>2, <2>3 DEF AuthKinds
<1>6. PICK items \in Seq(Byte) : items = WriteItems(<<1>>, Items[k], vals)
  BY <1>5, ItemsBytes
<1>7. PICK w \in Seq(Byte) : w = TypeHead(k)
  BY TypeHeadIs
<1>8. AuthBody(r, p) = w \o items
  BY <1>1, <1>4, <1>6, <1>7 DEF AuthBody, TypeHead
<1> QED BY <1>8, Joined

-----------------------------------------------------------------------------
(* And so is whatever was altered                                          *)

LEMMA FlippedByte ==
  ASSUME NEW b \in Byte, NEW k \in 0..7
  PROVE  Flipped(b, k) \in Byte
<1>1. /\ (b \div 1) % 2 = 1 => b - 1 \in 0..255
      /\ (b \div 2) % 2 = 1 => b - 2 \in 0..255
      /\ (b \div 4) % 2 = 1 => b - 4 \in 0..255
      /\ (b \div 8) % 2 = 1 => b - 8 \in 0..255
      /\ (b \div 16) % 2 = 1 => b - 16 \in 0..255
      /\ (b \div 32) % 2 = 1 => b - 32 \in 0..255
      /\ (b \div 64) % 2 = 1 => b - 64 \in 0..255
      /\ (b \div 128) % 2 = 1 => b - 128 \in 0..255
  BY DEF Byte
<1>2. /\ (b \div 1) % 2 # 1 => b + 1 \in 0..255
      /\ (b \div 2) % 2 # 1 => b + 2 \in 0..255
      /\ (b \div 4) % 2 # 1 => b + 4 \in 0..255
      /\ (b \div 8) % 2 # 1 => b + 8 \in 0..255
      /\ (b \div 16) % 2 # 1 => b + 16 \in 0..255
      /\ (b \div 32) % 2 # 1 => b + 32 \in 0..255
      /\ (b \div 64) % 2 # 1 => b + 64 \in 0..255
      /\ (b \div 128) % 2 # 1 => b + 128 \in 0..255
  BY DEF Byte
<1>3. k = 0 \/ k = 1 \/ k = 2 \/ k = 3 \/ k = 4 \/ k = 5 \/ k = 6 \/ k = 7
  OBVIOUS
<1>4. PICK p : p = 2^k
  OBVIOUS
<1>7. p = 1 \/ p = 2 \/ p = 4 \/ p = 8 \/ p = 16 \/ p = 32 \/ p = 64 \/ p = 128
  <2>1. /\ 2^0 = 1 /\ 2^1 = 2 /\ 2^2 = 4 /\ 2^3 = 8
        /\ 2^4 = 16 /\ 2^5 = 32 /\ 2^6 = 64 /\ 2^7 = 128
    BY Powers
  <2>2. CASE k = 0
    BY <1>4, <2>1, <2>2, Zenon
  <2>3. CASE k = 1
    BY <1>4, <2>1, <2>3, Zenon
  <2>4. CASE k = 2
    BY <1>4, <2>1, <2>4, Zenon
  <2>5. CASE k = 3
    BY <1>4, <2>1, <2>5, Zenon
  <2>6. CASE k = 4
    BY <1>4, <2>1, <2>6, Zenon
  <2>7. CASE k = 5
    BY <1>4, <2>1, <2>7, Zenon
  <2>8. CASE k = 6
    BY <1>4, <2>1, <2>8, Zenon
  <2>9. CASE k = 7
    BY <1>4, <2>1, <2>9, Zenon
  <2> QED BY <1>3, <2>2, <2>3, <2>4, <2>5, <2>6, <2>7, <2>8, <2>9, Zenon
<1>5. Flipped(b, k) = IF (b \div p) % 2 = 1 THEN b - p ELSE b + p
  BY <1>4 DEF Flipped
<1>6. /\ (b \div p) % 2 = 1 => b - p \in 0..255
      /\ (b \div p) % 2 # 1 => b + p \in 0..255
  BY <1>1, <1>2, <1>7
<1> QED BY <1>5, <1>6 DEF Byte

\* What is altered stays a sequence of bytes.
LEMMA AlteredBytes ==
  ASSUME NEW s \in Seq(Byte), NEW t \in Altered(s)
  PROVE  t \in Seq(Byte)
<1>1. PICK n \in Nat : n = Len(s) /\ DOMAIN s = 1..n
  OBVIOUS
<1>2. CASE t \in Flips(s)
  <2>1. \E i \in 1..Len(s) : \E k \in 0..7 : t = [s EXCEPT ![i] = Flipped(s[i], k)]
    BY <1>2, SMT DEF Flips
  <2>2. PICK i \in 1..n, k \in 0..7 : t = [s EXCEPT ![i] = Flipped(s[i], k)]
    BY <1>1, <2>1, Zenon
  <2>3. PICK c \in Byte : c = Flipped(s[i], k)
    <3>1. s[i] \in Byte
      BY <1>1
    <3> QED BY <3>1, FlippedByte
  <2>4. t = [s EXCEPT ![i] = c]
    BY <2>2, <2>3, Zenon
  <2> QED BY <1>1, <2>4
<1>3. CASE t \in Cuts(s)
  <2>1. PICK k \in {1, BlockSize} \cap 0..n : t = SubSeq(s, 1, n - k)
    BY <1>1, <1>3, Zenon DEF Cuts
  <2> QED BY <1>1, <2>1
<1>4. CASE s # <<>> /\ t \in Repeats(s)
  <2>1. PICK k \in {1, BlockSize} : t = s \o [i \in 1..k |-> s[n]]
    BY <1>1, <1>4, Zenon DEF Repeats
  <2>2. PICK m \in Nat : m = k
    BY DEF BlockSize
  <2>3. PICK b \in Byte : b = s[n]
    BY <1>1, <1>4
  <2>4. PICK u \in Seq(Byte) : u = [i \in 1..m |-> b]
    <3>1. [i \in 1..m |-> b] \in [1..m -> Byte]
      OBVIOUS
    <3> QED BY <3>1, FunctionIsSeq
  <2>5. t = s \o u
    BY <2>1, <2>2, <2>3, <2>4
  <2> QED BY <2>5, Joined
<1> QED BY <1>2, <1>3, <1>4 DEF Altered

-----------------------------------------------------------------------------
LEMMA PlainBytes ==
  ASSUME NEW r \in Requests
  PROVE  PlainOf(r) \in Seq(Byte)
<1>1. \/ LobbyRequest(r) /\ LobbyForm(r)
      \/ r.kind = "account" /\ AccountForm(r)
      \/ r.kind = "mmp" \/ r.kind = "login" \/ r.kind = "binding"
  BY RequestForms
<1>2. CASE LobbyRequest(r) /\ LobbyForm(r)
  <2>1. r.kind # "account"
    BY <1>2, NoLobbyKind DEF LobbyRequest
  <2>2. PlainOf(r) = Payload(r)
    BY <1>2, <2>1 DEF PlainOf
  <2> QED BY <1>2, <2>2, PayloadBytes
<1>3. CASE r.kind = "account" /\ AccountForm(r)
  BY <1>3, NoLobbyKind, BlockBytes DEF PlainOf, LobbyRequest
<1>4. CASE r.kind = "mmp" \/ r.kind = "login" \/ r.kind = "binding"
  <2>1. PlainOf(r) = <<>>
    BY <1>4, NoLobbyKind DEF PlainOf, LobbyRequest
  <2> QED BY <2>1
<1> QED BY <1>1, <1>2, <1>3, <1>4

LEMMA BodyBytes ==
  ASSUME NEW r \in Requests, NEW p \in Seq(Byte)
  PROVE  BodyOf(r, p) \in Seq(Byte)
<1>1. CASE LobbyRequest(r) /\ LobbyForm(r)
  <2>1. r.kind # "binding"
    BY <1>1, NoLobbyKind DEF LobbyRequest
  <2>2. BodyOf(r, p) = Sealed(r, p)
    BY <1>1, <2>1 DEF BodyOf
  <2> QED BY <1>1, <2>2, SealedBytes
<1>2. CASE \/ r.kind = "account" /\ AccountForm(r)
           \/ r.kind = "mmp" /\ MmpForm(r)
           \/ r.kind = "login" /\ LoginForm(r)
  <2>1. BodyOf(r, p) = AuthBody(r, p)
    BY <1>2, NoLobbyKind DEF BodyOf, LobbyRequest
  <2> QED BY <1>2, <2>1, AuthBodyBytes
<1>3. CASE r.kind = "binding" /\ BindingForm(r)
  <2>1. BodyOf(r, p) = BindingPacket(r)
    BY <1>3, NoLobbyKind DEF BodyOf, LobbyRequest
  <2>2. PICK t \in Seq(Byte), c \in DOMAIN FlagBytes :
          t = r.transaction /\ c = r.change /\ Len(t) = 16
    BY <1>3 DEF BindingForm, Byte
  <2>3. r = Binding(t, c)
    BY <1>3, <2>2 DEF BindingForm, Binding
  <2> QED BY <2>1, <2>2, <2>3, BindingThere
<1> QED BY <1>1, <1>2, <1>3, RequestForms

-----------------------------------------------------------------------------
(* Every kind of request has a form of its own                             *)

\* What is legal, what is sealed and what is sent, kind by kind.
LEMMA LegalIs ==
  ASSUME NEW r
  PROVE  /\ LobbyRequest(r) => (Legal(r) <=> LegalLobby(r))
         /\ r.kind = "account" =>
              (Legal(r) <=> /\ Len(r.username) \in 1..UsernameSize
                            /\ \A i \in DOMAIN r.username : Printable(r.username[i]))
         /\ r.kind \in {"mmp", "login", "binding"} => Legal(r)
<1>1. CASE LobbyRequest(r)
  <2>1. r.kind # "account" /\ r.kind \notin {"mmp", "login", "binding"}
    BY <1>1, NoLobbyKind DEF LobbyRequest
  <2>2. Legal(r) <=> LegalLobby(r)
    BY <1>1, <2>1 DEF Legal
  <2> QED BY <2>1, <2>2
<1>2. CASE r.kind = "account"
  <2>1. ~LobbyRequest(r) /\ r.kind \notin {"mmp", "login", "binding"}
    BY <1>2, NoLobbyKind DEF LobbyRequest
  <2>2. Legal(r) <=> /\ Len(r.username) \in 1..UsernameSize
                     /\ \A i \in DOMAIN r.username : Printable(r.username[i])
    BY <1>2, <2>1 DEF Legal
  <2> QED BY <2>1, <2>2
<1>3. CASE ~LobbyRequest(r) /\ r.kind # "account"
  <2>1. Legal(r)
    BY <1>3 DEF Legal
  <2> QED BY <1>3, <2>1
<1> QED BY <1>1, <1>2, <1>3

LEMMA SentIs ==
  ASSUME NEW r, NEW p
  PROVE  /\ LobbyRequest(r) => PlainOf(r) = Payload(r) /\ BodyOf(r, p) = Sealed(r, p)
         /\ r.kind \in AuthKinds => PlainOf(r) = InsideOf(r) /\ BodyOf(r, p) = AuthBody(r, p)
         /\ r.kind = "binding" => BodyOf(r, p) = BindingPacket(r)
<1>1. CASE LobbyRequest(r)
  <2>1. r.kind # "account" /\ r.kind # "binding" /\ r.kind \notin AuthKinds
    BY <1>1, NoLobbyKind DEF LobbyRequest, AuthKinds
  <2>2. PlainOf(r) = Payload(r)
    BY <1>1, <2>1 DEF PlainOf
  <2>3. BodyOf(r, p) = Sealed(r, p)
    BY <1>1, <2>1 DEF BodyOf
  <2> QED BY <2>1, <2>2, <2>3
<1>2. CASE r.kind \in AuthKinds
  <2>1. ~LobbyRequest(r) /\ r.kind # "binding"
    BY <1>2, NoLobbyKind DEF LobbyRequest, AuthKinds
  <2>2. PlainOf(r) = InsideOf(r)
    BY <2>1 DEF PlainOf, InsideOf
  <2>3. BodyOf(r, p) = AuthBody(r, p)
    BY <2>1 DEF BodyOf
  <2> QED BY <2>1, <2>2, <2>3
<1>3. CASE r.kind = "binding"
  <2>1. ~LobbyRequest(r) /\ r.kind \notin AuthKinds
    BY <1>3, NoLobbyKind DEF LobbyRequest, AuthKinds
  <2>2. BodyOf(r, p) = BindingPacket(r)
    BY <1>3, <2>1 DEF BodyOf
  <2> QED BY <2>1, <2>2
<1> QED BY <1>1, <1>2, <1>3

-----------------------------------------------------------------------------
(* What is understood is legal and has no other form                       *)

\* A service knows how to answer it.
Answerable(v) ==
  \/ LobbyRequest(v) \/ v.kind \in AuthKinds
  \/ v.kind = "binding" /\ v.transaction \in Seq(Byte) /\ Len(v.transaction) = 16

LEMMA LobbyCanonical ==
  ASSUME NEW b \in Seq(Byte), NEW v, v = ParseLobbyBody(b), v.kind # "refused"
  PROVE  Legal(v) /\ Answerable(v) /\ b = BodyOf(v, PlainOf(v))
<1>1. v # Refused
  BY DEF Refused
<1>2. PICK k, values, seed :
        /\ k \in LobbyKinds /\ v = [kind |-> k, seed |-> seed, values |-> values]
        /\ FitsAll(Fields[k], values) /\ Supported(k, values) /\ b = Sealed(v, Payload(v))
  BY <1>1, LobbyGives
<1>3. v.kind = k /\ v.values = values /\ LobbyRequest(v)
  BY <1>2 DEF LobbyRequest
<1>4. LegalLobby(v)
  <2>1. PICK fields \in Seq(LobbyField) : fields = Fields[k]
    BY <1>2, KindFields
  <2>2. ASSUME NEW i \in DOMAIN fields, fields[i].type \in {"string", "blob"}
        PROVE  Len(values[i]) <= fields[i].max
    <3>1. Fits(fields[i], values[i])
      BY <1>2, <2>1 DEF FitsAll
    <3> QED BY <2>2, <3>1 DEF Fits
  <2> QED BY <1>2, <1>3, <2>1, <2>2 DEF LegalLobby, WithinLimits
<1> QED BY <1>2, <1>3, <1>4, LegalIs, SentIs DEF Answerable

LEMMA ClearCanonical ==
  ASSUME NEW k \in AuthKinds, NEW b \in Seq(Byte), NEW v, v = ParseAuthBody(k, b),
         v.kind # "refused"
  PROVE  Legal(v) /\ Answerable(v) /\ b = BodyOf(v, PlainOf(v))
<1>1. v # Malformed
  BY DEF Malformed
<1>2. ClearRequest(k, v) /\ b = AuthBody(v, InsideOf(v))
  BY <1>1, AuthGives
<1>3. v.kind = k
  BY <1>2, AuthThere
<1>4. Legal(v)
  <2>1. CASE k = "account"
    <3>1. PICK x, u, w : AccountFits(u, w) /\ v = AccountOf(x, u, w)
      BY <1>2, <2>1 DEF ClearRequest
    <3>2. v.username = u
      BY <3>1, RequestParts
    <3>3. u \in Seq(Byte) /\ Len(u) > 0 /\ Len(u) <= UsernameSize
            /\ \A i \in 1..Len(u) : Printable(u[i])
      BY <3>1 DEF AccountFits, Letters
    <3>4. Len(u) \in 1..UsernameSize /\ \A i \in DOMAIN u : Printable(u[i])
      BY <3>3, AuthSizes
    <3> QED BY <1>3, <2>1, <3>2, <3>4, LegalIs
  <2>2. CASE k # "account"
    BY <1>3, <2>2, LegalIs DEF AuthKinds
  <2> QED BY <2>1, <2>2
<1> QED BY <1>2, <1>3, <1>4, SentIs DEF Answerable

LEMMA BindingCanonical ==
  ASSUME NEW b \in Seq(Byte), NEW v, v = ParseBindingRequest(b), v.kind # "refused"
  PROVE  Legal(v) /\ Answerable(v) /\ b = BodyOf(v, PlainOf(v))
<1>1. v # NotBinding
  BY DEF NotBinding
<1>2. PICK t \in Seq(Byte), c \in DOMAIN FlagBytes :
        Len(t) = 16 /\ v = Binding(t, c) /\ b = BindingPacket(Binding(t, c))
  BY <1>1, BindingGives
<1>3. v.kind = "binding" /\ v.transaction = t /\ b = BindingPacket(v)
  BY <1>2 DEF Binding
<1>4. Answerable(v)
  BY <1>2, <1>3 DEF Answerable
<1> QED BY <1>3, <1>4, LegalIs, SentIs

-----------------------------------------------------------------------------
(* What is legal is understood                                             *)

\* Values of their types, within the limits, fit their fields.
LEMMA FormFits ==
  ASSUME NEW fields \in Seq(LobbyField), NEW values \in Seq(Seq(Byte)),
         Len(values) = Len(fields), WithinLimits(fields, values),
         \A i \in DOMAIN values : InType(fields[i], values[i])
  PROVE  FitsAll(fields, values)
<1>1. DOMAIN fields = 1..Len(fields) /\ DOMAIN values = 1..Len(fields)
  OBVIOUS
<1>2. ASSUME NEW i \in 1..Len(fields)
      PROVE  Fits(fields[i], values[i])
  <2>1. PICK field, value : field = fields[i] /\ value = values[i]
    OBVIOUS
  <2>2. InType(field, value)
    BY <1>1, <2>1
  <2>3. field.type \in {"string", "blob"} => Len(value) <= field.max
    BY <1>1, <2>1 DEF WithinLimits
  <2>4. field.type \in FieldTypes
    <3>1. fields[i] \in LobbyField
      BY <1>1
    <3> QED BY <2>1, <3>1 DEF LobbyField
  <2>5. CASE field.type = "string"
    BY <2>1, <2>2, <2>3, <2>5 DEF Fits, InType
  <2>6. CASE field.type = "blob"
    BY <2>1, <2>2, <2>3, <2>6 DEF Fits, InType, Byte
  <2>7. CASE field.type # "string" /\ field.type # "blob"
    <3>1. field.type \in DOMAIN Size
      BY <2>4, <2>7 DEF FieldTypes, Size
    <3> QED BY <2>1, <2>2, <2>7, <3>1 DEF Fits, InType, Byte
  <2> QED BY <2>5, <2>6, <2>7
<1> QED BY <1>2 DEF FitsAll

LEMMA LobbyUnderstood ==
  ASSUME NEW r, LobbyRequest(r), LobbyForm(r), Legal(r)
  PROVE  ParseLobbyBody(BodyOf(r, PlainOf(r))) = r
<1>1. PICK k, seed, values : k = r.kind /\ seed = r.seed /\ values = r.values
  OBVIOUS
<1>2. k \in LobbyKinds /\ r = [kind |-> k, seed |-> seed, values |-> values]
  BY <1>1 DEF LobbyRequest, LobbyForm
<1>3. Seed4(seed)
  BY <1>1 DEF LobbyForm, FourBytes, Byte, Seed4
<1>4. PICK fields \in Seq(LobbyField) : fields = Fields[k] /\ DOMAIN fields = 1..Len(fields)
  BY <1>2, KindFields
<1>5. LegalLobby(r)
  BY LegalIs
<1>6. Supported(k, values)
  BY <1>1, <1>5 DEF LegalLobby
<1>7. values \in Seq(Seq(Byte)) /\ Len(values) = Len(fields)
  BY <1>1, <1>4 DEF LobbyForm, Byte
<1>8. \A i \in DOMAIN values : InType(fields[i], values[i])
  BY <1>1, <1>4 DEF LobbyForm
<1>9. FitsAll(fields, values)
  <2>1. WithinLimits(fields, values)
    BY <1>1, <1>4, <1>5 DEF LegalLobby
  <2> QED BY <1>7, <1>8, <2>1, FormFits
<1>10. ParseLobbyBody(Sealed(r, Payload(r))) = r
  BY <1>2, <1>3, <1>4, <1>6, <1>9, LobbyThere
<1> QED BY <1>10, SentIs

LEMMA ClearUnderstood ==
  ASSUME NEW k \in AuthKinds, NEW r, r.kind = k, Legal(r),
         \/ k = "account" /\ AccountForm(r)
         \/ k = "mmp" /\ MmpForm(r)
         \/ k = "login" /\ LoginForm(r)
  PROVE  /\ BodyOf(r, PlainOf(r)) \in Seq(Byte)
         /\ ParseAuthBody(k, BodyOf(r, PlainOf(r))) = r
<1>1. PICK x : x = r.seed /\ Seed4(x)
  BY DEF AccountForm, MmpForm, LoginForm, FourBytes, Byte, Seed4
<1>2. ClearRequest(k, r)
  <2>1. CASE k = "account"
    <3>1. PICK u, w : /\ u = r.username /\ w = r.password
                      /\ r = [kind |-> "account", seed |-> x, username |-> u, password |-> w]
                      /\ u \in Seq(Byte) /\ w \in Seq(Byte) /\ Len(w) = PasswordSize
      BY <1>1, <2>1 DEF AccountForm, MmpForm, LoginForm, Byte
    <3>2. Len(u) \in 1..UsernameSize /\ \A i \in DOMAIN u : Printable(u[i])
      BY <2>1, <3>1, LegalIs
    <3>3. AccountFits(u, w)
      <4>1. UsernameSize \in Nat
        BY AuthSizes
      <4>2. DOMAIN u = 1..Len(u)
        BY <3>1
      <4> QED BY <3>1, <3>2, <4>1, <4>2 DEF AccountFits, Letters
    <3>4. r = AccountOf(x, u, w)
      BY <3>1 DEF AccountOf
    <3> QED BY <1>1, <2>1, <3>3, <3>4 DEF ClearRequest
  <2>2. CASE k = "mmp"
    <3>1. PICK h : h = r.hash /\ r = MmpOf(x, h) /\ h \in Seq(Byte) /\ Len(h) = 8
      BY <1>1, <2>2 DEF AccountForm, MmpForm, LoginForm, Byte, MmpOf
    <3> QED BY <1>1, <2>2, <3>1 DEF ClearRequest
  <2>3. CASE k = "login"
    <3>1. r = LoginOf(x)
      BY <1>1, <2>3 DEF AccountForm, MmpForm, LoginForm, LoginOf
    <3> QED BY <1>1, <2>3, <3>1 DEF ClearRequest
  <2> QED BY <2>1, <2>2, <2>3 DEF AuthKinds
<1> QED BY <1>2, AuthThere, SentIs

LEMMA BindingUnderstood ==
  ASSUME NEW r, r.kind = "binding", BindingForm(r)
  PROVE  ParseBindingRequest(BodyOf(r, PlainOf(r))) = r
<1>1. PICK t \in Seq(Byte), c \in DOMAIN FlagBytes :
        t = r.transaction /\ c = r.change /\ Len(t) = 16
  BY DEF BindingForm, Byte
<1>2. r = Binding(t, c)
  BY <1>1 DEF BindingForm, Binding
<1> QED BY <1>1, <1>2, BindingThere, SentIs

-----------------------------------------------------------------------------
(* What a client reads out of a task reply                                 *)

LEMMA AllThere ==
  ASSUME NEW fields \in Seq(LobbyField), NEW values, FitsAll(fields, values)
  PROVE  /\ WriteFields(fields, values) \in Seq(Byte)
         /\ \A bytes \in Seq(Byte), at \in Nat :
              At(bytes, at, WriteFields(fields, values)) =>
                ReadFields(bytes, at, fields) = Got(values, at + Len(WriteFields(fields, values)))
<1>1. /\ values \in Seq(Seq(Byte)) /\ Len(values) = Len(fields)
      /\ \A i \in 1..Len(fields) : Fits(fields[i], values[i])
  BY DEF FitsAll
<1>2. PICK put : Laid(fields, values, put) /\ WriteFields(fields, values) = put[Len(fields)]
  BY <1>1, LaidExists
<1>3. put[Len(fields)] \in Seq(Byte)
  BY <1>1, <1>2, FieldsWritten
<1>4. ASSUME NEW bytes \in Seq(Byte), NEW at \in Nat, At(bytes, at, put[Len(fields)])
      PROVE  ReadFields(bytes, at, fields) = Got(values, at + Len(put[Len(fields)]))
  BY <1>1, <1>2, <1>3, <1>4, FieldsThere
<1> QED BY <1>1, <1>2, <1>3, <1>4, Zenon

LEMMA HeadFits ==
  ASSUME NEW t \in Byte, NEW c \in Nat
  PROVE  /\ ReplyFields \in Seq(LobbyField)
         /\ FitsAll(ReplyFields, <<Transaction, Word(0), <<t>>, Word(c)>>)
<1>1. PICK a, b, d : a = Field("uint64") /\ b = Field("uint32") /\ d = Field("uint8")
  OBVIOUS
<1>2. a \in LobbyField /\ b \in LobbyField /\ d \in LobbyField
  <2>1. {"uint64", "uint32", "uint8"} \subseteq FieldTypes
    BY DEF FieldTypes
  <2> QED BY <1>1, <2>1, FieldsTyped
<1>3. PICK fields : fields = <<a, b, d, b>>
  OBVIOUS
<1>4. /\ fields \in Seq(LobbyField) /\ Len(fields) = 4
      /\ fields[1] = a /\ fields[2] = b /\ fields[3] = d /\ fields[4] = b
  BY <1>2, <1>3
<1>5. PICK x \in Seq(Byte), y \in Seq(Byte), z \in Seq(Byte), w \in Seq(Byte) :
        /\ x = Transaction /\ y = Word(0) /\ z = <<t>> /\ w = Word(c)
        /\ Len(x) = 8 /\ Len(y) = 4 /\ Len(z) = 1 /\ Len(w) = 4
  <2>1. Transaction \in Seq(Byte) /\ Len(Transaction) = 8
    BY OutcomeForms DEF Byte
  <2>2. Word(0) \in Seq(Byte) /\ Len(Word(0)) = 4
    <3>1. PICK n \in Nat : n = 0
      OBVIOUS
    <3> QED BY <3>1, WordBytes
  <2>3. Word(c) \in Seq(Byte) /\ Len(Word(c)) = 4
    BY WordBytes
  <2>4. <<t>> \in Seq(Byte) /\ Len(<<t>>) = 1
    BY Single
  <2>5. PICK x, y, z, w : x = Transaction /\ y = Word(0) /\ z = <<t>> /\ w = Word(c)
    OBVIOUS
  <2> QED BY <2>1, <2>2, <2>3, <2>4, <2>5
<1>6. PICK values : values = <<x, y, z, w>>
  OBVIOUS
<1>7. /\ values \in Seq(Seq(Byte)) /\ Len(values) = 4
      /\ values[1] = x /\ values[2] = y /\ values[3] = z /\ values[4] = w
  BY <1>6
<1>8. Fits(a, x) /\ Fits(b, y) /\ Fits(d, z) /\ Fits(b, w)
  BY <1>1, <1>5 DEF Fits, Field, Size
<1>9. \A i \in 1..4 : i = 1 \/ i = 2 \/ i = 3 \/ i = 4
  OBVIOUS
<1>10. \A i \in 1..4 : Fits(fields[i], values[i])
  BY <1>4, <1>7, <1>8, <1>9
<1>11. FitsAll(fields, values)
  BY <1>4, <1>7, <1>10 DEF FitsAll
<1> QED BY <1>1, <1>3, <1>4, <1>5, <1>6, <1>11 DEF ReplyFields

LEMMA ResultTyped == ResultFields \in Seq(LobbyField)
<1>1. {"uint32", "blob"} \subseteq FieldTypes /\ MaxHost \in Limits /\ SessionIDSize \in Limits
  <2>1. SessionIDSize \in Limits
    BY SMT DEF SessionIDSize, Limits, MaxInt32
  <2> QED BY <2>1, LobbyLimits DEF FieldTypes, Limits
<1>2. PICK a, d, e : a = Field("uint32") /\ d = Limited("blob", MaxHost) /\ e = SessionIDField
  OBVIOUS
<1>3. a \in LobbyField /\ d \in LobbyField /\ e \in LobbyField
  BY <1>1, <1>2, FieldsTyped DEF SessionIDField
<1>4. ResultFields = <<d, e, a, a, a>> \o AttributeFields
  BY <1>2 DEF ResultFields
<1>5. <<d, e, a, a, a>> \in Seq(LobbyField)
  BY <1>3
<1> QED BY <1>4, <1>5, AttributesTyped

\* The head of a task reply, and the total behind it.
HeadOf(t, c)  == WriteFields(ReplyFields, <<Transaction, Word(0), <<t>>, Word(c)>>)
TotalOf(c, n) == IF c = 0 THEN <<>> ELSE WriteFixed("uint32", Word(n))

LEMMA TaskReplyIs ==
  ASSUME NEW t \in Byte, NEW c \in Nat, NEW n \in Nat
  PROVE  /\ TaskReply(Transaction, t, c, n) \in Seq(Byte)
         /\ HeadOf(t, c) \in Seq(Byte) /\ TotalOf(c, n) \in Seq(Byte)
         /\ Len(TotalOf(c, n)) = IF c = 0 THEN 0 ELSE 5
         /\ TaskReply(Transaction, t, c, n) = (ReplyMark \o HeadOf(t, c)) \o TotalOf(c, n)
         /\ ReplyMark \o HeadOf(t, c) \in Seq(Byte)
         /\ Len(ReplyMark \o HeadOf(t, c)) = 1 + Len(HeadOf(t, c))
         /\ ReplyMark \in Seq(Byte) /\ Len(ReplyMark) = 1
<1>1. PICK head \in Seq(Byte) : head = HeadOf(t, c)
  BY HeadFits, AllThere DEF HeadOf
<1>2. PICK total : total = TotalOf(c, n)
  OBVIOUS
<1>3. total \in Seq(Byte) /\ Len(total) = IF c = 0 THEN 0 ELSE 5
  <2>1. CASE c = 0
    BY <1>2, <2>1 DEF TotalOf
  <2>2. CASE c # 0
    BY <1>2, <2>2, WordBytes, NumberWritten DEF TotalOf
  <2> QED BY <2>1, <2>2
<1>4. PICK mark \in Seq(Byte) : mark = ReplyMark /\ Len(mark) = 1
  <2>1. PICK b \in Byte : b = 1
    BY DEF Byte
  <2>2. <<b>> \in Seq(Byte) /\ Len(<<b>>) = 1
    BY Single
  <2> QED BY <2>1, <2>2 DEF ReplyMark
<1>5. PICK front \in Seq(Byte) : front = mark \o head /\ Len(front) = 1 + Len(head)
  <2>1. mark \o head \in Seq(Byte) /\ Len(mark \o head) = Len(mark) + Len(head)
    BY Joined
  <2> QED BY <1>4, <2>1
<1>6. TaskReply(Transaction, t, c, n) = front \o total
  BY <1>1, <1>2, <1>4, <1>5, Zenon DEF TaskReply, HeadOf, TotalOf
<1>7. TaskReply(Transaction, t, c, n) \in Seq(Byte)
  BY <1>3, <1>6, Joined
<1> QED BY <1>1, <1>2, <1>3, <1>4, <1>5, <1>6, <1>7, Zenon

\* Where a task reply stands, its head is read, and its total behind the head.
LEMMA TaskReplyThere ==
  ASSUME NEW t \in Byte, NEW c \in Nat, NEW n \in Nat, NEW bytes \in Seq(Byte),
         At(bytes, 1, TaskReply(Transaction, t, c, n))
  PROVE  \E h \in Nat :
           /\ ReadFields(bytes, 2, ReplyFields)
                = Got(<<Transaction, Word(0), <<t>>, Word(c)>>, h)
           /\ c # 0 => /\ ReadFixed(bytes, h, "uint32") = Got(Word(n), h + 5)
                       /\ h + 5 = 1 + Len(TaskReply(Transaction, t, c, n))
<1>0. PICK values : values = <<Transaction, Word(0), <<t>>, Word(c)>>
  OBVIOUS
<1>1. PICK head \in Seq(Byte), total \in Seq(Byte) :
        /\ head = WriteFields(ReplyFields, values)
        /\ total = IF c = 0 THEN <<>> ELSE WriteFixed("uint32", Word(n))
        /\ Len(total) = IF c = 0 THEN 0 ELSE 5
        /\ TaskReply(Transaction, t, c, n) = (ReplyMark \o head) \o total
        /\ ReplyMark \o head \in Seq(Byte) /\ Len(ReplyMark \o head) = 1 + Len(head)
        /\ ReplyMark \in Seq(Byte) /\ Len(ReplyMark) = 1
  <2>1. PICK head \in Seq(Byte) : head = HeadOf(t, c)
    BY TaskReplyIs
  <2>2. PICK total \in Seq(Byte) : total = TotalOf(c, n)
    BY TaskReplyIs
  <2>3. /\ Len(total) = IF c = 0 THEN 0 ELSE 5
        /\ TaskReply(Transaction, t, c, n) = (ReplyMark \o head) \o total
        /\ ReplyMark \o head \in Seq(Byte) /\ Len(ReplyMark \o head) = 1 + Len(head)
        /\ ReplyMark \in Seq(Byte) /\ Len(ReplyMark) = 1
    BY <2>1, <2>2, TaskReplyIs
  <2> QED BY <1>0, <2>1, <2>2, <2>3, Zenon DEF HeadOf, TotalOf
<1>2. PICK mark \in Seq(Byte), front \in Seq(Byte) :
        /\ mark = ReplyMark /\ Len(mark) = 1 /\ front = mark \o head /\ Len(front) = 1 + Len(head)
        /\ front \o total = TaskReply(Transaction, t, c, n)
  <2>1. PICK mark : mark = ReplyMark
    OBVIOUS
  <2>2. PICK front : front = mark \o head
    OBVIOUS
  <2>4. /\ mark \in Seq(Byte) /\ Len(mark) = 1
        /\ front \in Seq(Byte) /\ Len(front) = 1 + Len(head)
        /\ front \o total = TaskReply(Transaction, t, c, n)
    BY <1>1, <2>1, <2>2, Zenon
  <2> QED BY <2>1, <2>2, <2>4, Zenon
<1>3. PICK one \in Nat, two \in Nat, h \in Nat : one = 1 /\ two = 2 /\ h = 2 + Len(head)
  <2>1. Len(head) \in Nat
    OBVIOUS
  <2>2. PICK m \in Nat : m = Len(head)
    BY <2>1
  <2>3. PICK h \in Nat : h = 2 + m
    OBVIOUS
  <2>4. PICK one \in Nat : one = 1
    OBVIOUS
  <2>5. PICK two \in Nat : two = 2
    OBVIOUS
  <2>6. one = 1 /\ two = 2 /\ h = 2 + Len(head)
    BY <2>2, <2>3, <2>4, <2>5, Zenon
  <2> QED BY <2>6, Zenon
<1>4. At(bytes, one, front) /\ At(bytes, one + Len(front), total)
  <2>1. At(bytes, one, front \o total)
    BY <1>2, <1>3, Zenon
  <2> QED BY <2>1, AtConcat
<1>5. At(bytes, one + Len(mark), head)
  BY <1>2, <1>4, AtConcat
<1>6. one + Len(mark) = two /\ one + Len(front) = h
  <2>1. PICK m \in Nat : m = Len(head)
    OBVIOUS
  <2>2. Len(mark) = 1 /\ Len(front) = 1 + m /\ one = 1 /\ two = 2 /\ h = 2 + m
    BY <1>2, <1>3, <2>1, Zenon
  <2> QED BY <2>2
<1>7. ReadFields(bytes, two, ReplyFields) = Got(values, two + Len(head))
  <2>1. ReplyFields \in Seq(LobbyField) /\ FitsAll(ReplyFields, values)
    BY <1>0, HeadFits
  <2>2. At(bytes, two, WriteFields(ReplyFields, values))
    BY <1>0, <1>1, <1>5, <1>6, Zenon
  <2>3. ReadFields(bytes, two, ReplyFields)
          = Got(values, two + Len(WriteFields(ReplyFields, values)))
    BY <2>1, <2>2, AllThere
  <2> QED BY <1>0, <1>1, <2>3, Zenon
<1>8. ASSUME c # 0
      PROVE  /\ ReadFixed(bytes, h, "uint32") = Got(Word(n), h + 5)
             /\ h + 5 = 1 + Len(TaskReply(Transaction, t, c, n))
  <2>1. At(bytes, h, WriteFixed("uint32", Word(n)))
    <3>1. total = WriteFixed("uint32", Word(n))
      BY <1>1, <1>8, Zenon
    <3>2. At(bytes, h, total)
      BY <1>4, <1>6, Zenon
    <3> QED BY <3>1, <3>2, Zenon
  <2>2. ReadFixed(bytes, h, "uint32") = Got(Word(n), h + 5)
    <3>1. PICK w \in Seq(Byte) : w = Word(n) /\ Len(w) = 4
      BY WordBytes
    <3>2. At(bytes, h, WriteFixed("uint32", w))
      BY <2>1, <3>1
    <3> QED BY <3>1, <3>2, NumberWritten
  <2>3. Len(front \o total) = Len(front) + Len(total)
    BY Joined
  <2>4. Len(TaskReply(Transaction, t, c, n)) = Len(front) + 5
    BY <1>1, <1>2, <1>8, <2>3
  <2> QED BY <1>2, <1>3, <2>2, <2>4
<1> QED BY <1>0, <1>3, <1>7, <1>8

-----------------------------------------------------------------------------
(* The matches of a page                                                   *)

MatchesOf(n, read) ==
  read = [i \in 0..n |->
            IF i = 0 THEN TaskTotal ELSE ReadFields(answer, read[i - 1].next, ResultFields)]

LEMMA MatchesThere ==
  ASSUME answer \in Seq(Byte), NEW results, NEW n \in Nat,
         \A i \in 1..n : FitsAll(ResultFields, results[i]),
         NEW seqs \in Seq(Seq(Byte)), Len(seqs) = n,
         \A i \in 1..n : seqs[i] = WriteFields(ResultFields, results[i]),
         NEW at \in Nat, TaskTotal.next = at, At(answer, at, FlattenSeq(seqs))
  PROVE  Matches(n) = [i \in 1..n |-> results[i]]
<1>1. PICK put : Piled(seqs, put) /\ FlattenSeq(seqs) = put[n]
  BY PiledExists
<1>2. /\ put \in [0..n -> Seq(Byte)] /\ put[0] = <<>>
      /\ \A i \in 1..n : put[i] = put[i - 1] \o seqs[i]
      /\ \A i \in 1..n : At(answer, at + Len(put[i - 1]), seqs[i])
  BY <1>1, PiledThere DEF Piled
<1> DEFINE sol == [i \in 0..n |->
                     IF i = 0 THEN TaskTotal ELSE Got(results[i], at + Len(put[i]))]
<1>3. DOMAIN sol = 0..n /\ sol[0] = TaskTotal
  OBVIOUS
<1>4. \A i \in 1..n : sol[i] = Got(results[i], at + Len(put[i]))
  OBVIOUS
<1> HIDE DEF sol
<1>5. ASSUME NEW i \in 1..n
      PROVE  sol[i] = ReadFields(answer, sol[i - 1].next, ResultFields)
  <2>1. i - 1 \in 0..n
    OBVIOUS
  <2>2. PICK before \in Seq(Byte), this \in Seq(Byte) : before = put[i - 1] /\ this = seqs[i]
    <3>1. put[i - 1] \in Seq(Byte)
      BY <1>2, <2>1
    <3>2. seqs[i] \in Seq(Byte)
      OBVIOUS
    <3> QED BY <3>1, <3>2, Zenon
  <2>3. PICK from \in Nat : from = at + Len(before)
    BY <2>2
  <2>4. sol[i - 1].next = from
    <3>1. CASE i = 1
      <4>1. i - 1 = 0 /\ before = <<>>
        BY <1>2, <2>2, <3>1
      <4>2. from = at
        BY <2>3, <4>1
      <4> QED BY <1>3, <4>1, <4>2
    <3>2. CASE i # 1
      <4>1. i - 1 \in 1..n
        BY <3>2
      <4>2. sol[i - 1] = Got(results[i - 1], from)
        BY <1>4, <2>2, <2>3, <4>1
      <4> QED BY <4>2, ReadIs
    <3> QED BY <3>1, <3>2
  <2>5. this = WriteFields(ResultFields, results[i]) /\ At(answer, from, this)
    BY <1>2, <2>2, <2>3
  <2>6. ReadFields(answer, from, ResultFields) = Got(results[i], from + Len(this))
    BY <2>5, ResultTyped, AllThere
  <2>7. from + Len(this) = at + Len(put[i])
    <3>1. put[i] = before \o this /\ Len(before \o this) = Len(before) + Len(this)
      BY <1>2, <2>2, Joined
    <3> QED BY <2>2, <2>3, <3>1
  <2> QED BY <1>4, <2>4, <2>6, <2>7
<1>6. MatchesOf(n, sol)
  <2>1. sol = [i \in 0..n |-> sol[i]]
    BY DEF sol
  <2>2. \A i \in 0..n : i = 0 \/ i \in 1..n
    OBVIOUS
  <2>3. \A i \in 0..n :
          sol[i] = IF i = 0 THEN TaskTotal
                   ELSE ReadFields(answer, sol[i - 1].next, ResultFields)
    BY <1>3, <1>5, <2>2
  <2>4. sol = [i \in 0..n |->
                IF i = 0 THEN TaskTotal
                ELSE ReadFields(answer, sol[i - 1].next, ResultFields)]
    BY <2>1, <2>3, Zenon
  <2> QED BY <2>4 DEF MatchesOf
<1>7. PICK read : read = CHOOSE r : MatchesOf(n, r)
  OBVIOUS
<1>8. MatchesOf(n, read)
  BY <1>6, <1>7
<1>9. /\ read[0] = TaskTotal
      /\ \A i \in 1..n : read[i] = ReadFields(answer, read[i - 1].next, ResultFields)
  <2>1. \A i \in 0..n : read[i] = IF i = 0 THEN TaskTotal
                                  ELSE ReadFields(answer, read[i - 1].next, ResultFields)
    BY <1>8, Zenon DEF MatchesOf
  <2>2. 0 \in 0..n /\ \A i \in 1..n : i \in 0..n /\ i # 0
    OBVIOUS
  <2> QED BY <2>1, <2>2, Zenon
<1> DEFINE T == {k \in 0..n : read[k] # sol[k]}
<1>10. T = {}
  <2>1. SUFFICES ASSUME T # {} PROVE FALSE
    OBVIOUS
  <2>2. PICK k \in T : \A m \in T : k <= m
    <3>1. T \in SUBSET Nat
      OBVIOUS
    <3> HIDE DEF T
    <3> QED BY <2>1, <3>1, LeastNumber
  <2>3. k \in 0..n /\ read[k] # sol[k] /\ k # 0
    BY <1>3, <1>9
  <2>4. k \in 1..n /\ k - 1 \in 0..n /\ ~(k <= k - 1)
    BY <2>3
  <2>5. read[k - 1] = sol[k - 1]
    BY <2>2, <2>4
  <2> QED BY <1>5, <1>9, <2>3, <2>4, <2>5
<1>11. \A i \in 1..n : read[i].value = results[i]
  <2>1. \A i \in 1..n : read[i] = sol[i]
    BY <1>10
  <2> HIDE DEF T
  <2> QED BY <1>4, <2>1, ReadIs
<1>12. Matches(n) = [i \in 1..n |-> read[i].value]
  BY <1>7 DEF Matches, MatchesOf
<1> QED BY <1>11, <1>12

-----------------------------------------------------------------------------
(* The replies of the lobby                                                *)

\* A reply stands behind the zero byte of its body, enlarged or not.
LEMMA ReplyThere ==
  ASSUME NEW logical \in Seq(Byte)
  PROVE  ReplyBody(logical) \in Seq(Byte) /\ At(ReplyBody(logical), 1, logical)
<1>1. PICK zero \in Byte : zero = 0
  BY DEF Byte
<1>2. PICK head \in Seq(Byte) : head = <<zero>> /\ Len(head) = 1
  BY Single
<1>3. PICK whole \in Seq(Byte) : whole = head \o logical
  BY Joined
<1>4. /\ Len(whole) = 1 + Len(logical) /\ Len(whole) \in Nat
      /\ \A i \in 1..Len(logical) : whole[1 + i] = logical[i]
  BY <1>2, <1>3, Joined
<1>5. PICK b \in Seq(Byte) : b = ReplyBody(logical) /\ (b = whole \/ b = Append(whole, zero))
  <2>1. Append(whole, zero) \in Seq(Byte)
    OBVIOUS
  <2>2. ReplyBody(logical) = IF Len(whole) = ReservedSize THEN Append(whole, zero) ELSE whole
    BY <1>1, <1>2, <1>3, Zenon DEF ReplyBody, Enlarged
  <2> QED BY <2>1, <2>2
<1>6. Len(whole) <= Len(b) /\ \A i \in 1..Len(whole) : b[i] = whole[i]
  <2>1. /\ Len(Append(whole, zero)) = Len(whole) + 1
        /\ \A i \in 1..Len(whole) : Append(whole, zero)[i] = whole[i]
    OBVIOUS
  <2>2. CASE b = whole
    BY <1>4, <2>2
  <2>3. CASE b = Append(whole, zero)
    BY <1>4, <2>1, <2>3
  <2> QED BY <1>5, <2>2, <2>3
<1>7. \A i \in 1..Len(logical) : b[1 + i] = logical[i]
  <2>1. \A i \in 1..Len(logical) : 1 + i \in 1..Len(whole)
    BY <1>4
  <2> QED BY <1>4, <1>6, <2>1
<1>8. 1 + Len(logical) <= Len(b)
  BY <1>4, <1>6
<1>9. At(b, 1, logical)
  BY <1>7, <1>8 DEF At
<1> QED BY <1>5, <1>9

\* Of an answer the client reads the head, the total, and is where the rest begins.
LEMMA ReplyRead ==
  ASSUME NEW t \in Byte, NEW c \in Nat, NEW n \in Nat, NEW rest \in Seq(Byte),
         answer = ReplyBody(TaskReply(Transaction, t, c, n) \o rest)
  PROVE  /\ answer \in Seq(Byte)
         /\ TaskHead.value = <<Transaction, Word(0), <<t>>, Word(c)>>
         /\ c # 0 => /\ TaskTotal.value = Word(n)
                     /\ \E at \in Nat : TaskTotal.next = at /\ At(answer, at, rest)
<1>1. PICK reply \in Seq(Byte) : reply = TaskReply(Transaction, t, c, n)
  BY TaskReplyIs
<1>2. PICK logical \in Seq(Byte) : logical = reply \o rest
  BY Joined
<1>3. PICK b \in Seq(Byte) : b = answer /\ At(b, 1, logical)
  BY <1>1, <1>2, ReplyThere
<1>4. PICK one \in Nat : one = 1
  OBVIOUS
<1>5. At(b, one, reply) /\ At(b, one + Len(reply), rest)
  <2>1. At(b, one, reply \o rest)
    BY <1>2, <1>3, <1>4, Zenon
  <2> QED BY <2>1, AtConcat
<1>6. PICK h \in Nat :
        /\ ReadFields(b, 2, ReplyFields) = Got(<<Transaction, Word(0), <<t>>, Word(c)>>, h)
        /\ c # 0 => /\ ReadFixed(b, h, "uint32") = Got(Word(n), h + 5)
                    /\ h + 5 = 1 + Len(TaskReply(Transaction, t, c, n))
  <2>1. At(b, 1, TaskReply(Transaction, t, c, n))
    BY <1>1, <1>4, <1>5, Zenon
  <2> QED BY <2>1, TaskReplyThere
<1>7. TaskHead = Got(<<Transaction, Word(0), <<t>>, Word(c)>>, h)
  BY <1>3, <1>6, Zenon DEF TaskHead
<1>8. TaskHead.value = <<Transaction, Word(0), <<t>>, Word(c)>> /\ TaskHead.next = h
  BY <1>7, ReadIs, Zenon
<1>9. ASSUME c # 0
      PROVE  /\ TaskTotal.value = Word(n)
             /\ \E at \in Nat : TaskTotal.next = at /\ At(answer, at, rest)
  <2>1. PICK at \in Nat : at = h + 5 /\ at = one + Len(reply)
    <3>1. h + 5 \in Nat
      OBVIOUS
    <3> QED BY <1>1, <1>4, <1>6, <1>9, <3>1
  <2>2. TaskTotal = Got(Word(n), at)
    BY <1>3, <1>6, <1>8, <1>9, <2>1, Zenon DEF TaskTotal
  <2>3. At(answer, at, rest)
    BY <1>3, <1>5, <2>1, Zenon
  <2> QED BY <2>2, <2>3, ReadIs, Zenon
<1> QED BY <1>3, <1>8, <1>9

LEMMA OtherSays ==
  ASSUME NEW r, LobbyRequest(r), r.kind # "create", r.kind # "find", NEW o,
         answer = LobbyReply(r.kind, Transaction, o.id, o.results, o.total)
  PROVE  SaysOfTask(r, o)
<1>1. PICK t \in Byte : t = Task[r.kind]
  BY KindTypes DEF LobbyRequest
<1>2. PICK none \in Nat : none = 0
  OBVIOUS
<1>3. answer = ReplyBody(TaskReply(Transaction, t, none, none))
  <2>1. answer = ReplyBody(TaskReply(Transaction, Task[r.kind], 0, 0))
    BY DEF LobbyReply
  <2> QED BY <1>1, <1>2, <2>1, Zenon
<1>4. PICK rest \in Seq(Byte) : rest = <<>>
  <2>1. <<>> \in Seq(Byte)
    OBVIOUS
  <2> QED BY <2>1
<1>5. answer = ReplyBody(TaskReply(Transaction, t, none, none) \o rest)
  <2>1. PICK reply \in Seq(Byte) : reply = TaskReply(Transaction, t, none, none)
    BY TaskReplyIs
  <2>2. reply \o rest = reply
    BY <1>4
  <2> QED BY <1>3, <2>1, <2>2, Zenon
<1>6. TaskHead.value = <<Transaction, Word(0), <<t>>, Word(none)>>
  BY <1>5, ReplyRead
<1> QED BY <1>1, <1>2, <1>6 DEF SaysOfTask

LEMMA CreateSays ==
  ASSUME NEW r, LobbyRequest(r), r.kind = "create", NEW o, PageForm(o),
         answer = LobbyReply(r.kind, Transaction, o.id, o.results, o.total)
  PROVE  SaysOfTask(r, o)
<1>1. PICK t \in Byte : t = Task[r.kind]
  BY KindTypes DEF LobbyRequest
<1>2. PICK one \in Nat : one = 1
  OBVIOUS
<1>3. PICK max \in Limits : max = SessionIDSize
  BY SMT DEF SessionIDSize, Limits, MaxInt32
<1>4. PICK id \in Seq(Byte) : id = o.id /\ Len(id) = max
  BY <1>3 DEF PageForm, Byte
<1>5. PICK rest \in Seq(Byte) : rest = WriteBlob(id)
  BY <1>4, BlobWritten
<1>6. answer = ReplyBody(TaskReply(Transaction, t, one, one) \o rest)
  BY <1>1, <1>2, <1>4, <1>5 DEF LobbyReply
<1>7. /\ answer \in Seq(Byte)
      /\ TaskHead.value = <<Transaction, Word(0), <<t>>, Word(one)>>
      /\ TaskTotal.value = Word(one)
      /\ \E at \in Nat : TaskTotal.next = at /\ At(answer, at, rest)
  <2>1. one # 0
    BY <1>2
  <2> QED BY <1>6, <2>1, ReplyRead
<1>8. PICK at \in Nat : TaskTotal.next = at /\ At(answer, at, WriteBlob(id))
  BY <1>5, <1>7
<1>9. ReadBlob(answer, at, max) = Got(id, at + 6 + Len(id))
  <2>1. PICK b \in Seq(Byte) : b = answer
    BY <1>7
  <2>2. Len(id) <= max
    BY <1>4 DEF Limits
  <2>3. At(b, at, WriteBlob(id))
    BY <1>8, <2>1, Zenon
  <2>4. ReadBlob(b, at, max) = Got(id, at + 6 + Len(id))
    BY <2>2, <2>3, BlobThere
  <2> QED BY <2>1, <2>4, Zenon
<1>10. ReadBlob(answer, TaskTotal.next, SessionIDSize).value = o.id
  <2>1. ReadBlob(answer, TaskTotal.next, SessionIDSize) = Got(id, at + 6 + Len(id))
    BY <1>3, <1>8, <1>9, Zenon
  <2>2. Got(id, at + 6 + Len(id)).value = id
    BY ReadIs
  <2> QED BY <1>4, <2>1, <2>2, Zenon
<1> QED BY <1>1, <1>2, <1>7, <1>10 DEF SaysOfTask

\* The matches of a page fit the fields in which they are written.
LEMMA PageFits ==
  ASSUME NEW o, PageForm(o), NEW i \in 1..Len(o.results)
  PROVE  FitsAll(ResultFields, o.results[i])
<1>1. DOMAIN o.results = 1..Len(o.results)
  BY DEF PageForm
<1>2. PICK values : values = o.results[i]
  OBVIOUS
<1>3. MatchForm(values)
  BY <1>1, <1>2 DEF PageForm
<1> QED BY <1>2, <1>3, ResultTyped, FormFits DEF MatchForm, Byte

LEMMA FindSays ==
  ASSUME NEW r, LobbyRequest(r), r.kind = "find", NEW o, PageForm(o),
         answer = LobbyReply(r.kind, Transaction, o.id, o.results, o.total)
  PROVE  SaysOfTask(r, o)
<1>1. PICK t \in Byte : t = Task[r.kind]
  BY KindTypes DEF LobbyRequest
<1>2. PICK results, total : results = o.results /\ total = o.total /\ total \in Nat
  BY DEF PageForm
<1>3. PICK n \in Limits : n = Len(results)
  <2>1. Len(results) \in Nat /\ Len(results) <= MaxFind /\ MaxFind \in Nat /\ MaxFind <= MaxInt32
    BY <1>2, LobbyLimits DEF PageForm
  <2>2. MaxInt32 \in Nat
    BY SMT DEF MaxInt32
  <2>3. Len(results) <= MaxInt32
    BY <2>1, <2>2
  <2> QED BY <2>1, <2>3 DEF Limits
<1>4. n \in Nat /\ DOMAIN results = 1..n /\ results = [i \in 1..n |-> results[i]]
  BY <1>2, <1>3 DEF PageForm, Limits
<1>5. \A i \in 1..n : FitsAll(ResultFields, results[i])
  BY <1>2, <1>3, PageFits
<1>6. PICK seqs : seqs = [i \in 1..n |-> WriteFields(ResultFields, results[i])]
  OBVIOUS
<1>7. seqs \in Seq(Seq(Byte)) /\ Len(seqs) = n
  <2>1. \A i \in 1..n : WriteFields(ResultFields, results[i]) \in Seq(Byte)
    BY <1>5, ResultTyped, AllThere
  <2>2. seqs \in [1..n -> Seq(Byte)]
    BY <1>6, <2>1
  <2> QED BY <1>4, <2>2, FunctionIsSeq
<1>8. \A i \in 1..n : seqs[i] = WriteFields(ResultFields, results[i])
  BY <1>6
<1>9. PICK rest \in Seq(Byte) : rest = FlattenSeq(seqs)
  <2>1. PICK put : Piled(seqs, put) /\ FlattenSeq(seqs) = put[Len(seqs)]
    BY <1>7, PiledExists
  <2>2. put \in [0..n -> Seq(Byte)] /\ n \in 0..n
    BY <1>4, <1>7, <2>1 DEF Piled
  <2> QED BY <1>7, <2>1, <2>2
<1>10. answer = ReplyBody(TaskReply(Transaction, t, n, total) \o rest)
  <2>1. answer = ReplyBody(TaskReply(Transaction, Task[r.kind], Len(o.results), o.total)
                   \o FlattenSeq([i \in DOMAIN o.results |-> WriteFields(ResultFields, o.results[i])]))
    BY DEF LobbyReply
  <2> QED BY <1>1, <1>2, <1>3, <1>4, <1>6, <1>9, <2>1, Zenon
<1>11. /\ answer \in Seq(Byte)
       /\ TaskHead.value = <<Transaction, Word(0), <<t>>, Word(n)>>
       /\ n # 0 => /\ TaskTotal.value = Word(total)
                   /\ \E at \in Nat : TaskTotal.next = at /\ At(answer, at, rest)
  <2>1. PICK c \in Nat, m \in Nat : c = n /\ m = total
    BY <1>2, <1>4
  <2>2. answer = ReplyBody(TaskReply(Transaction, t, c, m) \o rest)
    BY <1>10, <2>1, Zenon
  <2>3. /\ answer \in Seq(Byte)
        /\ TaskHead.value = <<Transaction, Word(0), <<t>>, Word(c)>>
        /\ c # 0 => /\ TaskTotal.value = Word(m)
                    /\ \E at \in Nat : TaskTotal.next = at /\ At(answer, at, rest)
    BY <2>2, ReplyRead
  <2> QED BY <2>1, <2>3, Zenon
<1>12. ASSUME n > 0
       PROVE  /\ TaskTotal.value = Word(o.total)
              /\ Matches(Number(TaskHead.value[4])) = o.results
  <2>1. n # 0
    BY <1>12
  <2>2. PICK at \in Nat : TaskTotal.next = at /\ At(answer, at, FlattenSeq(seqs))
    BY <1>9, <1>11, <2>1
  <2>3. Matches(n) = [i \in 1..n |-> results[i]]
    BY <1>4, <1>5, <1>7, <1>8, <1>11, <2>2, MatchesThere
  <2>4. Number(TaskHead.value[4]) = n
    <3>1. TaskHead.value[4] = Word(n)
      BY <1>11
    <3> QED BY <3>1, WordNumber
  <2> QED BY <1>2, <1>4, <1>11, <2>1, <2>3, <2>4
<1>13. SaysOfTask(r, o)
  <2>1. PICK count : count = Len(o.results) /\ count = n
    BY <1>2, <1>3
  <2> QED BY <1>1, <1>11, <1>12, <2>1 DEF SaysOfTask
<1> QED BY <1>13

LEMMA LobbySays ==
  ASSUME NEW r, LobbyRequest(r), NEW o, PageForm(o),
         answer = LobbyReply(r.kind, Transaction, o.id, o.results, o.total)
  PROVE  SaysOfTask(r, o)
BY OtherSays, CreateSays, FindSays

-----------------------------------------------------------------------------
(* The clear replies of the authentication service                         *)

LEMMA ReplyItemTypes ==
  /\ Tagged \in ItemType /\ Tagged.tag = TypeTags.uint32 /\ Tagged.width = 32
  /\ Tagged.tag # Untyped
  /\ Raw(AuthBlobSize) \in ItemType /\ Raw(AuthBlobSize).tag = Untyped
  /\ Raw(AuthBlobSize).width = 8 * AuthBlobSize
<1>1. TypeTags.uint32 \in Tags /\ Untyped \in Tags /\ TypeTags.uint32 # Untyped
  BY TagsAre DEF TypeTags, Untyped
<1>2. 8 * AuthBlobSize \in Nat
  BY AuthSizes
<1>3. /\ Tagged = [tag |-> TypeTags.uint32, width |-> 32]
      /\ Raw(AuthBlobSize) = [tag |-> Untyped, width |-> 8 * AuthBlobSize]
  BY DEF Tagged, Raw, ByteBits, Widths
<1> QED BY <1>1, <1>2, <1>3 DEF ItemType

LEMMA ReplyHead ==
  ASSUME NEW n \in Nat
  PROVE  /\ Bits(n, ByteBits) \o <<1>> \in Seq(Bit)
         /\ Len(Bits(n, ByteBits) \o <<1>>) = 9
<1>1. \A i \in 1..8 : BitOf(n, i - 1) \in Bit
  <2>1. \A i \in 1..8 : i - 1 \in 0..7
    OBVIOUS
  <2> QED BY <2>1, BitsOf
<1>2. Bits(n, ByteBits) = [i \in 1..8 |-> BitOf(n, i - 1)]
  BY DEF Bits, ByteBits, BitOf
<1>3. Bits(n, ByteBits) \in Seq(Bit) /\ Len(Bits(n, ByteBits)) = 8
  <2>1. [i \in 1..8 |-> BitOf(n, i - 1)] \in [1..8 -> Bit]
    BY <1>1
  <2>2. PICK eight \in Nat : eight = 8
    OBVIOUS
  <2>3. PICK f : f = [i \in 1..8 |-> BitOf(n, i - 1)]
    OBVIOUS
  <2>4. f \in [1..eight -> Bit]
    BY <2>1, <2>2, <2>3
  <2> QED BY <1>2, <2>2, <2>3, <2>4, FunctionIsSeq
<1>4. PICK a \in Seq(Bit), b \in Seq(Bit) :
        a = Bits(n, ByteBits) /\ b = <<1>> /\ Len(a) = 8 /\ Len(b) = 1
  <2>1. PICK a \in Seq(Bit) : a = Bits(n, ByteBits) /\ Len(a) = 8
    BY <1>3
  <2>2. PICK b \in Seq(Bit) : b = <<1>> /\ Len(b) = 1
    BY One
  <2> QED BY <2>1, <2>2
<1>5. a \o b \in Seq(Bit) /\ Len(a \o b) = 9
  <2>1. a \o b \in Seq(Bit) /\ Len(a \o b) = Len(a) + Len(b)
    BY BitsJoined
  <2>2. Len(a) + Len(b) = 9
    BY <1>4
  <2> QED BY <2>1, <2>2
<1> QED BY <1>4, <1>5, Zenon

\* The client finds the bits that were written.
LEMMA StreamIs ==
  ASSUME NEW c \in Seq(Bit), NEW d, Holds(d, c), answer = << 0 >> \o Packed(d)
  PROVE  Stream \in Seq(Bit) /\ At(Stream, 0, c)
<1>1. d \in Seq(Bit) /\ At(d, 0, c) /\ Len(d) = Padded(Len(c))
  BY DEF Holds, EndsAt
<1>2. PICK n \in Nat : Len(d) = 8 * n
  <2>1. PICK l \in Nat : l = Len(c)
    OBVIOUS
  <2>2. (l + 8 - 1) \div 8 \in Nat
    OBVIOUS
  <2> QED BY <1>1, <2>1, <2>2 DEF Padded, ByteBits
<1>3. PICK p \in Seq(Byte) : p = Packed(d)
  BY <1>1, <1>2, PackedIs
<1>4. Unpacked(p) = d
  BY <1>1, <1>2, <1>3, UnpackedPacked
<1>5. PICK zero \in Byte : zero = 0
  BY DEF Byte
<1>6. PICK head \in Seq(Byte) : head = <<zero>> /\ Len(head) = 1
  BY Single
<1>7. PICK b \in Seq(Byte) : b = head \o p
  BY Joined
<1>8. b = answer /\ Len(b) = 1 + Len(p)
  BY <1>3, <1>5, <1>6, <1>7, Joined
<1>9. At(b, Len(head), p)
  <2>1. At(b, 0, b)
    BY AtWhole
  <2> QED BY <1>7, <2>1, AtStart
<1>10. SubSeq(b, 2, Len(b)) = p
  <2>1. PICK at \in Nat : at = 1
    OBVIOUS
  <2>2. At(b, at, p) /\ 2 = at + 1 /\ Len(b) = at + Len(p)
    BY <1>6, <1>8, <1>9, <2>1
  <2> QED BY <2>2, CutOut
<1>11. Stream = d
  BY <1>4, <1>8, <1>10 DEF Stream
<1> QED BY <1>1, <1>11

LEMMA ItemThere ==
  ASSUME NEW s \in Seq(Bit), NEW c \in Seq(Bit), NEW item \in ItemType,
         NEW v \in Seq(Byte), 8 * Len(v) = item.width, At(s, 0, c \o Coded(item, v))
  PROVE  At(s, 0, c) /\ Packed(Read(s, Len(c), item.tag, item.width).bits) = v
<1>1. PICK e \in Seq(Bit) : e = Coded(item, v)
  BY CodedIs
<1>2. At(s, 0, c) /\ At(s, Len(c), e)
  BY <1>1, AtStartBits
<1>3. PICK u \in Seq(Bit) : u = Unpacked(v) /\ Len(u) = item.width
  BY UnpackedIs
<1>4. PICK tag \in Tags, at \in Nat : tag = item.tag /\ at = Len(c)
  BY DEF ItemType
<1>5. At(s, at, TagOf(tag) \o u)
  BY <1>1, <1>2, <1>3, <1>4 DEF Coded
<1>6. Read(s, at, tag, Len(u)) = ReadBits(u, at + Len(TagOf(tag) \o u))
  BY <1>5, BitsThere
<1>7. Read(s, at, tag, Len(u)).bits = u
  BY <1>6, ReadBitsIs
<1> QED BY <1>2, <1>3, <1>4, <1>7, PackedUnpacked

LEMMA StatusSays ==
  ASSUME NEW k \in {"account", "mmp"}, NEW w \in Seq(Byte), Len(w) = 4,
         answer = StatusReply(k, w)
  PROVE  Item(9) = w
<1>1. PICK first \in Seq(Bit) : first = Bits(ReplyType[k], ByteBits) \o <<1>> /\ Len(first) = 9
  <2>1. ReplyType[k] \in Nat
    BY DEF ReplyType
  <2> QED BY <2>1, ReplyHead
<1>2. PICK list, values : list = <<Tagged>> /\ values = <<w>>
  OBVIOUS
<1>3. list[1] = Tagged /\ values[1] = w /\ Len(list) = 1
  BY <1>2
<1>4. PICK one \in Nat : one = 1
  OBVIOUS
<1>5. PICK f : PutSteps(first, list, values, one, f)
  <2>1. one = Len(list) /\ one <= 4
    BY <1>3, <1>4
  <2> QED BY <2>1, ItemsPut
<1>6. /\ WriteItems(first, list, values) = Packed(f[1].data)
      /\ f[0] = FirstPut(first) /\ f[1] = NextPut(f[0], Tagged, w)
  BY <1>3, <1>4, <1>5 DEF PutSteps
<1>7. 8 * Len(w) = Tagged.width /\ Tagged \in ItemType
  BY ReplyItemTypes
<1>8. WroteTo(f[1], first \o Coded(Tagged, w))
  BY <1>6, <1>7, FirstWrote, NextWrote
<1>9. answer = <<0>> \o Packed(f[1].data)
  BY <1>1, <1>2, <1>6, Zenon DEF StatusReply, MarshalReply, ReplyItems
<1>10. PICK c \in Seq(Bit) : c = first \o Coded(Tagged, w)
  BY <1>7, CodedIs, BitsJoined
<1>11. PICK s \in Seq(Bit) : s = Stream /\ At(s, 0, first \o Coded(Tagged, w))
  BY <1>8, <1>9, <1>10, StreamIs DEF WroteTo
<1>12. Packed(Read(s, Len(first), Tagged.tag, Tagged.width).bits) = w
  BY <1>7, <1>11, ItemThere
<1> QED BY <1>1, <1>11, <1>12, ReplyItemTypes DEF Item

LEMMA TicketSays ==
  ASSUME NEW w \in Seq(Byte), Len(w) = 4, NEW x \in Seq(Byte), Len(x) = 4,
         NEW y \in Seq(Byte), Len(y) = AuthBlobSize, answer = TicketReply(w, x, y)
  PROVE  /\ Item(9) = w /\ Item(46) = x
         /\ Packed(Read(Stream, 83, Untyped, ByteBits * AuthBlobSize).bits) = y
<1>1. PICK first \in Seq(Bit) :
        first = Bits(ReplyType["mmp"], ByteBits) \o <<1>> /\ Len(first) = 9
  <2>1. ReplyType["mmp"] \in Nat
    BY DEF ReplyType
  <2> QED BY <2>1, ReplyHead
<1>2. PICK t \in ItemType, l \in ItemType :
        /\ t = Tagged /\ l = Raw(AuthBlobSize) /\ t.tag = TypeTags.uint32 /\ t.tag # Untyped
        /\ t.width = 32 /\ l.tag = Untyped /\ l.width = 8 * AuthBlobSize
  BY ReplyItemTypes
<1>3. PICK list, values : list = <<t, t, l>> /\ values = <<w, x, y>>
  OBVIOUS
<1>4. /\ list[1] = t /\ list[2] = t /\ list[3] = l /\ Len(list) = 3
      /\ values[1] = w /\ values[2] = x /\ values[3] = y
  BY <1>3
<1>5. PICK n \in Nat : n = 3
  OBVIOUS
<1>6. PICK f : PutSteps(first, list, values, n, f)
  <2>1. n = Len(list) /\ n <= 4
    BY <1>4, <1>5
  <2> QED BY <2>1, ItemsPut
<1>7. /\ WriteItems(first, list, values) = Packed(f[3].data) /\ f[0] = FirstPut(first)
      /\ f[1] = NextPut(f[0], t, w) /\ f[2] = NextPut(f[1], t, x) /\ f[3] = NextPut(f[2], l, y)
  <2>1. 1 \in 1..n /\ 2 \in 1..n /\ 3 \in 1..n
    BY <1>5
  <2>2. /\ f[1] = NextPut(f[0], list[1], values[1]) /\ f[2] = NextPut(f[1], list[2], values[2])
        /\ f[3] = NextPut(f[2], list[3], values[3])
    BY <1>6, <2>1, PutSteps3
  <2> QED BY <1>4, <1>5, <1>6, <2>2 DEF PutSteps
<1>8. 8 * Len(w) = t.width /\ 8 * Len(x) = t.width /\ 8 * Len(y) = l.width
  BY <1>2
<1>9. PICK c1 \in Seq(Bit) : c1 = first \o Coded(t, w) /\ Len(c1) = 46
  <2>1. PICK e \in Seq(Bit) : e = Coded(t, w)
    BY <1>8, CodedIs
  <2>2. Len(e) = 5 + t.width
    <3>1. Len(Coded(t, w)) = (IF t.tag = Untyped THEN 0 ELSE 5) + t.width
      BY <1>8, CodedIs
    <3> QED BY <1>2, <2>1, <3>1
  <2>3. first \o e \in Seq(Bit) /\ Len(first \o e) = Len(first) + Len(e)
    BY BitsJoined
  <2>4. Len(first \o e) = 46
    BY <1>2, <1>1, <2>2, <2>3
  <2> QED BY <2>1, <2>3, <2>4, Zenon
<1>10. PICK c2 \in Seq(Bit) : c2 = c1 \o Coded(t, x) /\ Len(c2) = 83
  <2>1. PICK e \in Seq(Bit) : e = Coded(t, x)
    BY <1>8, CodedIs
  <2>2. Len(e) = 5 + t.width
    <3>1. Len(Coded(t, x)) = (IF t.tag = Untyped THEN 0 ELSE 5) + t.width
      BY <1>8, CodedIs
    <3> QED BY <1>2, <2>1, <3>1
  <2>3. c1 \o e \in Seq(Bit) /\ Len(c1 \o e) = Len(c1) + Len(e)
    BY BitsJoined
  <2>4. Len(c1 \o e) = 83
    BY <1>2, <1>9, <2>2, <2>3
  <2> QED BY <2>1, <2>3, <2>4, Zenon
<1>11. PICK c3 \in Seq(Bit) : c3 = c2 \o Coded(l, y)
  BY <1>8, CodedIs, BitsJoined
<1>12. WroteTo(f[3], c3)
  <2>1. WroteTo(f[1], c1)
    <3>1. WroteTo(f[0], first)
      BY <1>7, FirstWrote
    <3>2. WroteTo(NextPut(f[0], t, w), first \o Coded(t, w))
      BY <1>8, <3>1, NextWrote
    <3> QED BY <1>7, <1>9, <3>2
  <2>2. WroteTo(f[2], c2)
    <3>1. WroteTo(NextPut(f[1], t, x), c1 \o Coded(t, x))
      BY <1>8, <2>1, NextWrote
    <3> QED BY <1>7, <1>10, <3>1
  <2>3. WroteTo(NextPut(f[2], l, y), c2 \o Coded(l, y))
    BY <1>8, <2>2, NextWrote
  <2> QED BY <1>7, <1>11, <2>3
<1>13. answer = <<0>> \o Packed(f[3].data)
  BY <1>1, <1>2, <1>3, <1>7, Zenon DEF TicketReply, MarshalReply, ReplyItems
<1>14. PICK s \in Seq(Bit) : s = Stream /\ At(s, 0, c3)
  BY <1>12, <1>13, StreamIs DEF WroteTo
<1>15. At(s, 0, c2) /\ Packed(Read(s, Len(c2), l.tag, l.width).bits) = y
  BY <1>8, <1>11, <1>14, ItemThere
<1>16. At(s, 0, c1) /\ Packed(Read(s, Len(c1), t.tag, t.width).bits) = x
  BY <1>8, <1>10, <1>15, ItemThere
<1>17. Packed(Read(s, Len(first), t.tag, t.width).bits) = w
  BY <1>8, <1>9, <1>16, ItemThere
<1>18. Item(9) = w /\ Item(46) = x
  BY <1>1, <1>2, <1>9, <1>14, <1>16, <1>17 DEF Item
<1>19. Packed(Read(Stream, 83, Untyped, ByteBits * AuthBlobSize).bits) = y
  BY <1>2, <1>10, <1>14, <1>15 DEF ByteBits
<1> QED BY <1>18, <1>19

-----------------------------------------------------------------------------
(* The replies to a login and to a binding request                         *)

LEMMA LoginSays ==
  ASSUME NEW o \in Seq(Byte), Len(o) = 8, answer = ConnectionIDBody(o)
  PROVE  ReadFixed(answer, 2, "uint64").value = o
<1>1. PICK type \in FixedTypes : type = "uint64" /\ Size[type] = 8
  <2>1. "uint64" \in FixedTypes /\ Size["uint64"] = 8
    BY DEF FixedTypes, Size
  <2> QED BY <2>1
<1>2. PICK head \in Seq(Byte) : head = <<0, 4>> /\ Len(head) = 2
  BY Pairs
<1>3. PICK id \in Seq(Byte) : id = WriteFixed(type, o)
  BY <1>1, FixedWritten
<1>4. PICK b \in Seq(Byte) : b = head \o id
  BY Joined
<1>5. b = answer
  BY <1>1, <1>2, <1>3, <1>4 DEF ConnectionIDBody
<1>6. PICK two \in Nat : two = 2
  OBVIOUS
<1>7. At(b, two, WriteFixed(type, o))
  <2>1. At(b, 0, b)
    BY AtWhole
  <2>2. At(b, Len(head), id)
    BY <1>4, <2>1, AtStart
  <2>3. Len(head) = two
    BY <1>2, <1>6
  <2> QED BY <1>3, <2>2, <2>3, Zenon
<1>8. ReadFixed(b, two, type) = Got(o, two + 1 + Size[type])
  <2>1. Len(o) = Size[type]
    BY <1>1
  <2> QED BY <1>7, <2>1, FixedThere
<1>9. ReadFixed(b, two, type).value = o
  BY <1>8, ReadIs
<1> QED BY <1>1, <1>5, <1>6, <1>9, Zenon

\* The address and the port of an attribute stand behind its type, length and family.
LEMMA AddressIs ==
  ASSUME NEW type \in Seq(Byte), Len(type) = 2, NEW endpoint, NEW port \in Seq(Byte),
         NEW ip \in Seq(Byte), port = endpoint.port, ip = endpoint.ip,
         Len(port) = 2, Len(ip) = 4
  PROVE  /\ AddressAttribute(type, endpoint) \in Seq(Byte)
         /\ \A s \in Seq(Byte), at \in Nat : At(s, at, AddressAttribute(type, endpoint)) =>
              At(s, at + 6, port) /\ At(s, at + 8, ip)
<1>1. PICK l \in Seq(Byte), f \in Seq(Byte) : l = <<0, 8>> /\ f = <<0, 1>> /\ Len(l) = 2 /\ Len(f) = 2
  <2>1. PICK l \in Seq(Byte) : l = <<0, 8>> /\ Len(l) = 2
    BY Pairs
  <2>2. PICK f \in Seq(Byte) : f = <<0, 1>> /\ Len(f) = 2
    BY Pairs
  <2> QED BY <2>1, <2>2
<1>2. PICK a \in Seq(Byte) : a = type \o l /\ Len(a) = 4
  <2>1. type \o l \in Seq(Byte) /\ Len(type \o l) = Len(type) + Len(l)
    BY Joined
  <2>2. Len(type \o l) = 4
    BY <1>1, <2>1
  <2> QED BY <2>1, <2>2, Zenon
<1>3. PICK b \in Seq(Byte) : b = a \o f /\ Len(b) = 6
  <2>1. a \o f \in Seq(Byte) /\ Len(a \o f) = Len(a) + Len(f)
    BY Joined
  <2>2. Len(a \o f) = 6
    BY <1>1, <1>2, <2>1
  <2> QED BY <2>1, <2>2, Zenon
<1>4. PICK c \in Seq(Byte) : c = b \o port /\ Len(c) = 8
  <2>1. b \o port \in Seq(Byte) /\ Len(b \o port) = Len(b) + Len(port)
    BY Joined
  <2>2. Len(b \o port) = 8
    BY <1>3, <2>1
  <2> QED BY <2>1, <2>2, Zenon
<1>5. AddressAttribute(type, endpoint) = c \o ip
  BY <1>1, <1>2, <1>3, <1>4, Zenon DEF AddressAttribute
<1>6. ASSUME NEW s \in Seq(Byte), NEW at \in Nat, At(s, at, c \o ip)
      PROVE  At(s, at + 6, port) /\ At(s, at + 8, ip)
  <2>1. At(s, at, c) /\ At(s, at + Len(c), ip)
    BY <1>6, AtConcat
  <2>2. At(s, at + Len(b), port)
    BY <1>4, <2>1, AtConcat
  <2> QED BY <1>3, <1>4, <2>1, <2>2
<1> QED BY <1>5, <1>6, Joined

LEMMA SourceIs ==
  \E ip \in Seq(Byte), port \in Seq(Byte) :
    ip = StunSource.ip /\ port = StunSource.port /\ Len(ip) = 4 /\ Len(port) = 2
<1>0. PICK four \in Nat, two \in Nat : four = 4 /\ two = 2
  OBVIOUS
<1>1. PICK ip, port : ip = StunSource.ip /\ port = StunSource.port
  OBVIOUS
<1>2. ip \in [1..four -> Byte] /\ port \in [1..two -> Byte]
  BY <1>0, <1>1, StunAssumption DEF Byte
<1>3. ip \in Seq(Byte) /\ Len(ip) = four /\ port \in Seq(Byte) /\ Len(port) = two
  BY <1>2, FunctionIsSeq
<1> QED BY <1>0, <1>1, <1>3

LEMMA PeerSays ==
  ASSUME NEW r, r.transaction \in Seq(Byte), Len(r.transaction) = 16,
         NEW peer, EndpointForm(peer), answer = Response(r, peer)
  PROVE  SaysOfPeer(r, peer)
<1>0. PICK t \in Seq(Byte) : t = r.transaction /\ Len(t) = 16
  OBVIOUS
<1>1. PICK ip \in Seq(Byte), port \in Seq(Byte) :
        ip = peer.ip /\ port = peer.port /\ Len(ip) = 4 /\ Len(port) = 2
  BY DEF EndpointForm, Byte
<1>2. PICK m \in Seq(Byte), n \in Seq(Byte), k \in Seq(Byte) :
        /\ m = MappedAddress /\ n = SourceAddress /\ k = ChangedAddress
        /\ Len(m) = 2 /\ Len(n) = 2 /\ Len(k) = 2
  <2>1. PICK m \in Seq(Byte) : m = MappedAddress /\ Len(m) = 2
    BY Pairs DEF MappedAddress
  <2>2. PICK n \in Seq(Byte) : n = SourceAddress /\ Len(n) = 2
    BY Pairs DEF SourceAddress
  <2>3. PICK k \in Seq(Byte) : k = ChangedAddress /\ Len(k) = 2
    <3>1. 0 \in Byte /\ 5 \in Byte
      BY DEF Byte
    <3>2. \A x, y \in Byte : <<x, y>> \in Seq(Byte) /\ Len(<<x, y>>) = 2
      OBVIOUS
    <3> QED BY <3>1, <3>2 DEF ChangedAddress
  <2> QED BY <2>1, <2>2, <2>3
<1>3. PICK one \in Seq(Byte) : one = AddressAttribute(m, peer)
  BY <1>1, <1>2, AddressIs
<1>4. PICK two \in Seq(Byte), three \in Seq(Byte) :
        two = AddressAttribute(n, StunSource) /\ three = AddressAttribute(k, StunSource)
  BY <1>2, SourceIs, AddressIs
<1>5. PICK a \in Seq(Byte), b \in Seq(Byte) :
        a = BindingResponse /\ b = ResponseLength /\ Len(a) = 2 /\ Len(b) = 2
  <2>1. 0 \in Byte /\ 1 \in Byte /\ 36 \in Byte
    BY DEF Byte
  <2>2. \A x, y \in Byte : <<x, y>> \in Seq(Byte) /\ Len(<<x, y>>) = 2
    OBVIOUS
  <2> QED BY <2>1, <2>2 DEF BindingResponse, ResponseLength
<1>6. PICK c \in Seq(Byte) : c = a \o b /\ Len(c) = 4
  <2>1. a \o b \in Seq(Byte) /\ Len(a \o b) = Len(a) + Len(b)
    BY Joined
  <2>2. Len(a \o b) = 4
    BY <1>5, <2>1
  <2> QED BY <2>1, <2>2, Zenon
<1>7. PICK d \in Seq(Byte) : d = c \o t /\ Len(d) = 20
  <2>1. c \o t \in Seq(Byte) /\ Len(c \o t) = Len(c) + Len(t)
    BY Joined
  <2>2. Len(c \o t) = 20
    BY <1>0, <1>6, <2>1
  <2> QED BY <2>1, <2>2, Zenon
<1>8. PICK e \in Seq(Byte), f \in Seq(Byte) : e = d \o one /\ f = e \o two
  <2>1. PICK e \in Seq(Byte) : e = d \o one
    BY Joined
  <2>2. PICK f \in Seq(Byte) : f = e \o two
    BY Joined
  <2> QED BY <2>1, <2>2
<1>9. PICK s \in Seq(Byte) : s = f \o three
  BY Joined
<1>10. s = answer
  BY <1>0, <1>2, <1>3, <1>4, <1>5, <1>6, <1>7, <1>8, <1>9, Zenon DEF Response
<1>11. At(s, 0, d) /\ At(s, Len(d), one)
  <2>1. At(s, 0, s)
    BY AtWhole
  <2>2. At(s, 0, f)
    BY <1>9, <2>1, AtStart
  <2>3. At(s, 0, e)
    BY <1>8, <2>2, AtStart
  <2> QED BY <1>8, <2>3, AtStart
<1>12. At(s, Len(c), t)
  <2>1. At(s, 0, c \o t)
    BY <1>7, <1>11, Zenon
  <2> QED BY <2>1, AtStart
<1>13. At(s, Len(d) + 6, port) /\ At(s, Len(d) + 8, ip)
  <2>1. PICK there \in Nat : there = Len(d)
    OBVIOUS
  <2>2. At(s, there, AddressAttribute(m, peer))
    BY <1>3, <1>11, <2>1, Zenon
  <2>3. At(s, there + 6, port) /\ At(s, there + 8, ip)
    BY <1>1, <1>2, <2>2, AddressIs
  <2> QED BY <2>1, <2>3
<1>14. SubSeq(s, 5, 20) = t
  <2>1. PICK at \in Nat : at = 4
    OBVIOUS
  <2>2. at = Len(c) /\ 5 = at + 1 /\ 20 = at + Len(t)
    <3>1. at = Len(c) /\ 5 = at + 1
      BY <1>6, <2>1
    <3>2. PICK l : l = Len(t) /\ l = 16
      BY <1>0
    <3>3. 20 = at + l
      BY <2>1, <3>2
    <3> QED BY <3>1, <3>2, <3>3
  <2>3. At(s, at, t)
    BY <1>12, <2>2, Zenon
  <2>4. PICK from, to : from = 5 /\ to = 20
    OBVIOUS
  <2>5. from = at + 1 /\ to = at + Len(t)
    BY <2>2, <2>4
  <2>6. SubSeq(s, from, to) = t
    BY <2>1, <2>3, <2>5, CutOut, Zenon
  <2> QED BY <2>4, <2>6
<1>15. SubSeq(s, 27, 28) = port
  <2>1. PICK at \in Nat : at = 26
    OBVIOUS
  <2>2. at = Len(d) + 6 /\ 27 = at + 1 /\ 28 = at + Len(port)
    BY <1>1, <1>7, <2>1
  <2>3. At(s, at, port)
    BY <1>13, <2>2, Zenon
  <2>4. PICK from, to : from = 27 /\ to = 28
    OBVIOUS
  <2>5. from = at + 1 /\ to = at + Len(port)
    BY <2>2, <2>4
  <2>6. SubSeq(s, from, to) = port
    BY <2>1, <2>3, <2>5, CutOut, Zenon
  <2> QED BY <2>4, <2>6
<1>16. SubSeq(s, 29, 32) = ip
  <2>1. PICK at \in Nat : at = 28
    OBVIOUS
  <2>2. at = Len(d) + 8 /\ 29 = at + 1 /\ 32 = at + Len(ip)
    BY <1>1, <1>7, <2>1
  <2>3. At(s, at, ip)
    BY <1>13, <2>2, Zenon
  <2>4. PICK from, to : from = 29 /\ to = 32
    OBVIOUS
  <2>5. from = at + 1 /\ to = at + Len(ip)
    BY <2>2, <2>4
  <2>6. SubSeq(s, from, to) = ip
    BY <2>1, <2>3, <2>5, CutOut, Zenon
  <2> QED BY <2>4, <2>6
<1> QED BY <1>0, <1>1, <1>10, <1>14, <1>15, <1>16, Zenon DEF SaysOfPeer

-----------------------------------------------------------------------------
(* Whatever is answered says what the service had to say                   *)

LEMMA AnswerIs ==
  ASSUME NEW r, NEW o
  PROVE  /\ LobbyRequest(r) =>
              /\ Answer(r, o) = LobbyReply(r.kind, Transaction, o.id, o.results, o.total)
              /\ AnswerSays(r, o) = SaysOfTask(r, o)
         /\ r.kind = "account" =>
              Answer(r, o) = StatusReply(r.kind, o) /\ AnswerSays(r, o) = SaysOfAccount(o)
         /\ r.kind = "mmp" =>
              /\ Answer(r, o) = IF o.status = NoError
                                THEN TicketReply(NoError, o.seed, o.ticket)
                                ELSE StatusReply(r.kind, o.status)
              /\ AnswerSays(r, o) = SaysOfTicket(o)
         /\ r.kind = "login" =>
              /\ Answer(r, o) = ConnectionIDBody(o)
              /\ AnswerSays(r, o) = (ReadFixed(answer, 2, "uint64").value = o)
         /\ r.kind = "binding" =>
              /\ Answer(r, o) = IF Responds(r, o) THEN Response(r, o) ELSE <<>>
              /\ AnswerSays(r, o) = SaysOfPeer(r, o)
<1>1. CASE LobbyRequest(r)
  <2>1. r.kind # "account" /\ r.kind # "mmp" /\ r.kind # "login" /\ r.kind # "binding"
    BY <1>1, NoLobbyKind DEF LobbyRequest
  <2> QED BY <1>1, <2>1, Zenon DEF Answer, AnswerSays
<1>2. CASE ~LobbyRequest(r)
  BY <1>2 DEF Answer, AnswerSays
<1> QED BY <1>1, <1>2

LEMMA AnsweredSays ==
  ASSUME NEW v, Answerable(v), NEW o \in Outcomes[v.kind], answer = Answer(v, o)
  PROVE  AnswerSays(v, o)
<1>1. CASE LobbyRequest(v)
  <2>1. PageForm(o)
    BY <1>1, OutcomeForms DEF LobbyRequest
  <2>2. SaysOfTask(v, o)
    BY <1>1, <2>1, AnswerIs, LobbySays
  <2> QED BY <1>1, <2>2, AnswerIs
<1>2. CASE v.kind = "account"
  <2>1. o \in Seq(Byte) /\ Len(o) = 4
    BY <1>2, OutcomeForms DEF FourBytes, Byte
  <2>2. PICK k \in {"account", "mmp"} : k = v.kind /\ answer = StatusReply(k, o)
    BY <1>2, AnswerIs
  <2>3. Item(9) = o
    BY <2>1, <2>2, StatusSays
  <2> QED BY <1>2, <2>3, AnswerIs DEF SaysOfAccount
<1>3. CASE v.kind = "mmp"
  <2>1. TicketForm(o)
    BY <1>3, OutcomeForms
  <2>2. PICK w \in Seq(Byte) : w = o.status /\ Len(w) = 4
    BY <2>1 DEF TicketForm, FourBytes, Byte
  <2>3. CASE w = NoError
    <3>1. PICK x \in Seq(Byte), y \in Seq(Byte) :
            x = o.seed /\ y = o.ticket /\ Len(x) = 4 /\ Len(y) = AuthBlobSize
      BY <2>1, <2>2, <2>3 DEF TicketForm, FourBytes, Byte
    <3>2. answer = TicketReply(w, x, y)
      <4>1. answer = TicketReply(NoError, o.seed, o.ticket)
        <5>1. o.status = NoError
          BY <2>2, <2>3
        <5>2. Answer(v, o) = IF o.status = NoError
                             THEN TicketReply(NoError, o.seed, o.ticket)
                             ELSE StatusReply(v.kind, o.status)
          BY <1>3, AnswerIs
        <5> QED BY <5>1, <5>2, Zenon
      <4> QED BY <2>3, <3>1, <4>1, Zenon
    <3>3. /\ Item(9) = w /\ Item(46) = x
          /\ Packed(Read(Stream, 83, Untyped, ByteBits * AuthBlobSize).bits) = y
      BY <2>2, <3>1, <3>2, TicketSays
    <3>4. SaysOfTicket(o)
      BY <2>2, <3>1, <3>3, Zenon DEF SaysOfTicket
    <3> QED BY <1>3, <3>4, AnswerIs
  <2>4. CASE w # NoError
    <3>1. PICK k \in {"account", "mmp"} : k = v.kind /\ answer = StatusReply(k, w)
      BY <1>3, <2>2, <2>4, AnswerIs
    <3>2. Item(9) = w
      BY <2>2, <3>1, StatusSays
    <3>3. SaysOfTicket(o)
      BY <2>2, <2>4, <3>2, Zenon DEF SaysOfTicket
    <3> QED BY <1>3, <3>3, AnswerIs
  <2> QED BY <2>3, <2>4
<1>4. CASE v.kind = "login"
  <2>1. o \in Seq(Byte) /\ Len(o) = 8
    BY <1>4, OutcomeForms DEF Byte
  <2>2. answer = ConnectionIDBody(o)
    BY <1>4, AnswerIs
  <2>3. ReadFixed(answer, 2, "uint64").value = o
    BY <2>1, <2>2, LoginSays
  <2> QED BY <1>4, <2>3, AnswerIs
<1>5. CASE /\ v.kind = "binding" /\ v.transaction \in Seq(Byte)
           /\ Len(v.transaction) = 16
  <2>1. EndpointForm(o)
    BY <1>5, OutcomeForms
  <2>2. CASE Responds(v, o)
    <3>1. answer = Response(v, o)
      BY <1>5, <2>2, AnswerIs
    <3>2. SaysOfPeer(v, o)
      BY <1>5, <2>1, <3>1, PeerSays
    <3> QED BY <1>5, <3>2, AnswerIs
  <2>3. CASE ~Responds(v, o)
    <3>1. answer = <<>>
      BY <1>5, <2>3, AnswerIs
    <3>2. SaysOfPeer(v, o)
      BY <3>1, Zenon DEF SaysOfPeer
    <3> QED BY <1>5, <3>2, AnswerIs
  <2> QED BY <2>2, <2>3
<1> QED BY <1>1, <1>2, <1>3, <1>4, <1>5 DEF Answerable, AuthKinds

-----------------------------------------------------------------------------
(* A request on its way                                                    *)

\* The second byte of a body to the authentication service names its kind.
LEMMA Dispatched ==
  ASSUME AuthDispatch.kind # "refused"
  PROVE  \E k \in {"account", "mmp"} : AuthDispatch = ParseAuthBody(k, body)
<1>1. PICK kinds : kinds = {k \in {"account", "mmp"} : MessageType[k] = body[2]}
  OBVIOUS
<1>2. kinds # {} /\ AuthDispatch = ParseAuthBody(CHOOSE k \in kinds : TRUE, body)
  BY <1>1 DEF AuthDispatch, Malformed
<1>3. (CHOOSE k \in kinds : TRUE) \in kinds
  BY <1>2
<1> QED BY <1>1, <1>2, <1>3

LEMMA DispatchedTo ==
  ASSUME NEW k \in {"account", "mmp"}, body \in Seq(Byte), ParseAuthBody(k, body).kind = k
  PROVE  AuthDispatch = ParseAuthBody(k, body)
<1>1. Len(body) = BodySize[k] /\ body[2] = MessageType[k]
  BY DEF ParseAuthBody, Malformed
<1>2. Len(body) >= 2
  <2>1. AccountBlockSize \in Nat
    BY SizesAre
  <2> QED BY <1>1, <2>1 DEF BodySize
<1>3. PICK kinds : kinds = {l \in {"account", "mmp"} : MessageType[l] = body[2]}
  OBVIOUS
<1>4. kinds = {k}
  BY <1>1, <1>3 DEF MessageType
<1>5. (CHOOSE l \in kinds : TRUE) = k
  BY <1>4
<1> QED BY <1>2, <1>3, <1>4, <1>5 DEF AuthDispatch

\* For whichever service a body is, what is understood of it is canonical.
LEMMA ParsedCanonical ==
  ASSUME request \in Requests, body \in Seq(Byte), Parsed.kind # "refused"
  PROVE  /\ Legal(Parsed) /\ Answerable(Parsed)
         /\ body = BodyOf(Parsed, PlainOf(Parsed))
<1>1. CASE LobbyRequest(request)
  <2>1. Parsed = ParseLobbyBody(body)
    BY <1>1, NoLobbyKind DEF Parsed, LobbyRequest, AuthRequest
  <2> QED BY <2>1, LobbyCanonical
<1>2. CASE AuthRequest(request)
  <2>1. Parsed = AuthDispatch
    BY <1>2, NoLobbyKind DEF Parsed, LobbyRequest, AuthRequest
  <2>2. PICK k \in AuthKinds : AuthDispatch = ParseAuthBody(k, body)
    BY <2>1, Dispatched DEF AuthKinds
  <2> QED BY <2>1, <2>2, ClearCanonical
<1>3. CASE request.kind = "login"
  <2>1. Parsed = ParseAuthBody("login", body)
    BY <1>3, NoLobbyKind DEF Parsed, LobbyRequest, AuthRequest
  <2>2. PICK k \in AuthKinds : k = "login"
    BY DEF AuthKinds
  <2> QED BY <2>1, <2>2, ClearCanonical
<1>4. CASE request.kind = "binding"
  <2>1. Parsed = ParseBindingRequest(body)
    BY <1>4, NoLobbyKind DEF Parsed, LobbyRequest, AuthRequest
  <2> QED BY <2>1, BindingCanonical
<1> QED BY <1>1, <1>2, <1>3, <1>4, RequestForms DEF AuthRequest

\* And a legal request that arrives as it was written is understood.
LEMMA ParsedUnderstood ==
  ASSUME request \in Requests, Legal(request), body = BodyOf(request, PlainOf(request))
  PROVE  Parsed = request
<1>1. CASE LobbyRequest(request) /\ LobbyForm(request)
  <2>1. Parsed = ParseLobbyBody(body)
    BY <1>1, NoLobbyKind DEF Parsed, LobbyRequest, AuthRequest
  <2> QED BY <1>1, <2>1, LobbyUnderstood
<1>2. CASE \/ request.kind = "account" /\ AccountForm(request)
           \/ request.kind = "mmp" /\ MmpForm(request)
  <2>1. Parsed = AuthDispatch
    BY <1>2, NoLobbyKind DEF Parsed, LobbyRequest, AuthRequest
  <2>2. PICK k \in {"account", "mmp"} : k = request.kind
    BY <1>2
  <2>3. k \in AuthKinds
    BY DEF AuthKinds
  <2>4. body \in Seq(Byte) /\ ParseAuthBody(k, body) = request
    BY <1>2, <2>2, <2>3, ClearUnderstood
  <2> QED BY <2>1, <2>2, <2>4, DispatchedTo
<1>3. CASE request.kind = "login" /\ LoginForm(request)
  <2>1. Parsed = ParseAuthBody("login", body)
    BY <1>3, NoLobbyKind DEF Parsed, LobbyRequest, AuthRequest
  <2>2. PICK k \in AuthKinds : k = "login"
    BY DEF AuthKinds
  <2> QED BY <1>3, <2>1, <2>2, ClearUnderstood
<1>4. CASE request.kind = "binding" /\ BindingForm(request)
  <2>1. Parsed = ParseBindingRequest(body)
    BY <1>4, NoLobbyKind DEF Parsed, LobbyRequest, AuthRequest
  <2> QED BY <1>4, <2>1, BindingUnderstood
<1> QED BY <1>1, <1>2, <1>3, <1>4, RequestForms

-----------------------------------------------------------------------------
\* The verdict is what the parser makes of the body as it arrived, without an
\* alteration that is the body of the request, and the answer is the one that
\* belongs to the verdict.
UnderWay ==
  /\ request \in Requests /\ alterations \in Nat
  /\ plain \in Seq(Byte) /\ body \in Seq(Byte)
  /\ stage \in {"parsed", "answered"} => verdict = Parsed
  /\ stage = "answered" => /\ verdict.kind # "refused"
                           /\ outcome \in Outcomes[verdict.kind]
                           /\ answer = Answer(verdict, outcome)
  /\ stage = "written" /\ alterations = 0 => plain = PlainOf(request)
  /\ stage \in {"sealed", "parsed"} /\ alterations = 0 =>
       body = BodyOf(request, PlainOf(request))

LEMMA RequestStarts == RequestInit => UnderWay
<1>1. <<>> \in Seq(Byte) /\ 0 \in Nat
  OBVIOUS
<1> QED BY <1>1 DEF RequestInit, UnderWay

LEMMA RequestMoves == UnderWay /\ [RequestNext]_requestVars => UnderWay'
<1> SUFFICES ASSUME UnderWay, [RequestNext]_requestVars
             PROVE  UnderWay'
  OBVIOUS
<1>0. /\ request \in Requests /\ alterations \in Nat
      /\ plain \in Seq(Byte) /\ body \in Seq(Byte)
  BY DEF UnderWay
<1>1. CASE Write
  <2>1. PlainOf(request) \in Seq(Byte)
    BY <1>0, PlainBytes
  <2>2. stage' = "written" /\ plain' = PlainOf(request)
    BY <1>1 DEF Write
  <2>3. request' = request /\ body' = body /\ alterations' = alterations
    BY <1>1 DEF Write
  <2>4. PlainOf(request') = PlainOf(request)
    BY <2>3
  <2> QED BY <1>0, <2>1, <2>2, <2>3, <2>4 DEF UnderWay
<1>2. CASE Slip
  <2>1. /\ stage' = "written" /\ request' = request /\ body' = body
        /\ alterations' = alterations + 1 /\ plain' \in Altered(plain)
    BY <1>2 DEF Slip
  <2>2. plain' \in Seq(Byte)
    BY <1>0, <2>1, AlteredBytes
  <2>3. alterations' \in Nat /\ alterations' # 0
    BY <1>0, <2>1
  <2> QED BY <1>0, <2>1, <2>2, <2>3 DEF UnderWay
<1>3. CASE Seal
  <2>1. /\ stage = "written" /\ stage' = "sealed" /\ body' = BodyOf(request, plain)
        /\ request' = request /\ plain' = plain /\ alterations' = alterations
    BY <1>3 DEF Seal
  <2>2. body' \in Seq(Byte)
    BY <1>0, <2>1, BodyBytes
  <2>3. alterations = 0 => plain = PlainOf(request)
    BY <2>1 DEF UnderWay
  <2>4. alterations' = 0 => body' = BodyOf(request, PlainOf(request))
    BY <2>1, <2>3
  <2>5. BodyOf(request', PlainOf(request')) = BodyOf(request, PlainOf(request))
    BY <2>1
  <2> QED BY <1>0, <2>1, <2>2, <2>4, <2>5 DEF UnderWay
<1>4. CASE Damage
  <2>1. /\ stage' = "sealed" /\ request' = request /\ plain' = plain
        /\ alterations' = alterations + 1 /\ body' \in Altered(body)
    BY <1>4 DEF Damage
  <2>2. body' \in Seq(Byte)
    BY <1>0, <2>1, AlteredBytes
  <2>3. alterations' \in Nat /\ alterations' # 0
    BY <1>0, <2>1
  <2> QED BY <1>0, <2>1, <2>2, <2>3 DEF UnderWay
<1>5. CASE Parse
  <2>1. /\ stage = "sealed" /\ stage' = "parsed" /\ verdict' = Parsed
        /\ request' = request /\ plain' = plain /\ body' = body /\ alterations' = alterations
    BY <1>5 DEF Parse
  <2>2. verdict' = Parsed'
    BY <2>1 DEF Parsed, AuthDispatch
  <2>3. alterations = 0 => body = BodyOf(request, PlainOf(request))
    BY <2>1 DEF UnderWay
  <2>4. BodyOf(request', PlainOf(request')) = BodyOf(request, PlainOf(request))
    BY <2>1
  <2> QED BY <1>0, <2>1, <2>2, <2>3, <2>4 DEF UnderWay
<1>6. CASE Reply
  <2>1. /\ stage = "parsed" /\ stage' = "answered" /\ verdict' = verdict
        /\ request' = request /\ plain' = plain /\ body' = body /\ alterations' = alterations
    BY <1>6 DEF Reply
  <2>2. /\ verdict.kind # "refused" /\ outcome' \in Outcomes[verdict.kind]
        /\ answer' = Answer(verdict, outcome')
    BY <1>6 DEF Reply
  <2>3. verdict = Parsed /\ Parsed' = Parsed
    <3>1. verdict = Parsed
      BY <2>1 DEF UnderWay
    <3>2. Parsed' = Parsed
      BY <2>1 DEF Parsed, AuthDispatch
    <3> QED BY <3>1, <3>2
  <2>4. Answer(verdict', outcome') = Answer(verdict, outcome')
    BY <2>1
  <2> QED BY <1>0, <2>1, <2>2, <2>3, <2>4 DEF UnderWay
<1>7. CASE UNCHANGED requestVars
  <2>1. /\ stage' = stage /\ request' = request /\ plain' = plain /\ body' = body
        /\ alterations' = alterations /\ verdict' = verdict
        /\ outcome' = outcome /\ answer' = answer
    BY <1>7 DEF requestVars
  <2>2. Parsed' = Parsed
    BY <2>1 DEF Parsed, AuthDispatch
  <2>3. /\ PlainOf(request') = PlainOf(request)
        /\ BodyOf(request', PlainOf(request')) = BodyOf(request, PlainOf(request))
        /\ Answer(verdict', outcome') = Answer(verdict, outcome)
    BY <2>1
  <2> QED BY <2>1, <2>2, <2>3 DEF UnderWay
<1> QED BY <1>1, <1>2, <1>3, <1>4, <1>5, <1>6, <1>7 DEF RequestNext

\* ParsedCanonical, ParsedUnderstood and AnsweredSays carried over to the verdict.
LEMMA VerdictStands == UnderWay => OnlyCanonical /\ Understood
<1> SUFFICES ASSUME UnderWay PROVE OnlyCanonical /\ Understood
  OBVIOUS
<1>1. OnlyCanonical
  <2>1. SUFFICES ASSUME Accepted
                 PROVE  Legal(verdict) /\ body = BodyOf(verdict, PlainOf(verdict))
    BY DEF OnlyCanonical
  <2>2. verdict = Parsed /\ Parsed.kind # "refused"
    BY <2>1 DEF Accepted, UnderWay
  <2>3. Legal(Parsed) /\ body = BodyOf(Parsed, PlainOf(Parsed))
    BY <2>2, ParsedCanonical DEF UnderWay
  <2> QED BY <2>2, <2>3
<1>2. RequestUnderstood
  <2>1. SUFFICES ASSUME stage = "parsed", alterations = 0, Legal(request)
                 PROVE  verdict = request
    BY DEF RequestUnderstood
  <2> QED BY <2>1, ParsedUnderstood DEF UnderWay
<1>3. AnswerUnderstood
  <2>1. SUFFICES ASSUME stage = "answered"
                 PROVE  AnswerSays(verdict, outcome)
    BY DEF AnswerUnderstood
  <2>2. /\ verdict = Parsed /\ verdict.kind # "refused"
        /\ outcome \in Outcomes[verdict.kind] /\ answer = Answer(verdict, outcome)
    BY <2>1 DEF UnderWay
  <2>3. Answerable(verdict)
    BY <2>2, ParsedCanonical DEF UnderWay
  <2> QED BY <2>2, <2>3, AnsweredSays
<1> QED BY <1>1, <1>2, <1>3 DEF Understood

-----------------------------------------------------------------------------
\* Whatever bits a client or a path altered, and however often: a body that
\* decryptRequestBody and the parsers of the three lobby services,
\* ParseCreateAccountBody, ParseAccountForMMPBody, ParseLSGLoginBody or
\* ParseBindingRequest accept is, byte by byte, the one that a client would write
\* for the request they return, and that request is within every limit.
THEOREM Canonical == RequestSpec => []OnlyCanonical
<1>1. RequestSpec => []UnderWay
  BY RequestStarts, RequestMoves, PTL DEF RequestSpec
<1> QED BY <1>1, VerdictStands, PTL

\* A request within the limits that arrives as it was written is returned by its
\* parser as the client meant it: none of them refuses or misreads a legal request.
\* And in what the handlers write back (marshalClearTaskReplyBody,
\* marshalStatusReplyBody, marshalAccountForMMPSuccessBody, writeConnectionID,
\* BuildBindingResponse) the client reads exactly what the service had to say.
THEOREM AllUnderstood == RequestSpec => []Understood
<1>1. RequestSpec => []UnderWay
  BY RequestStarts, RequestMoves, PTL DEF RequestSpec
<1> QED BY <1>1, VerdictStands, PTL
=============================================================================
