--------------------------- MODULE BitBuffer_proof ---------------------------
(***************************************************************************)
(* Proofs about the bit stream of the authentication messages: what is     *)
(* written is read back, and failed reads are free.                        *)
(***************************************************************************)
EXTENDS BitBuffer, SequenceTheorems, TLAPS

-----------------------------------------------------------------------------
(* The inductive invariant                                                 *)

Tags  == {Untyped} \cup {TypeTags[kind] : kind \in DOMAIN TypeTags}
Items == [at : Nat, tag : Tags, bits : Seq(Bit)]

\* a value on the stream
Encoded(item) == TagOf(item.tag) \o item.bits

Typed ==
  /\ data \in Seq(Bit) /\ writeOffset \in Nat /\ items \in Seq(Items)
  /\ received \in Seq(Bit) \cup {NotYet} /\ readOffset \in Nat
  /\ last.tag \in Tags /\ last.width \in Nat

\* The bytes end where the writer stands, in bits that are not set.
BlankBehind ==
  /\ Len(data) = Padded(writeOffset)
  /\ \A i \in DOMAIN data : i > writeOffset => data[i] = 0

\* The values are on the stream one behind the other.
Gapless ==
  \A k \in DOMAIN items :
    LET end == items[k].at + Len(Encoded(items[k]))
    IN  /\ end <= writeOffset
        /\ end = IF k = Len(items) THEN writeOffset ELSE items[k + 1].at

Kept ==
  \A k \in DOMAIN items : \A i \in DOMAIN Encoded(items[k]) :
    data[items[k].at + i] = Encoded(items[k])[i]

\* What arrived is what was written, as far as it goes.
Arrived ==
  ~Writing => /\ Len(received) <= Len(data)
              /\ \A i \in DOMAIN received : received[i] = data[i]

\* The result of the last call is that of reading where it was made.
LastRead ==
  Called =>
    /\ ~Writing
    /\ last.error = Read(received, last.at, last.tag, last.width).error
    /\ last.bits = Read(received, last.at, last.tag, last.width).bits

IInv == Typed /\ BlankBehind /\ Gapless /\ Kept /\ Arrived /\ LastRead /\ StaysInStep

-----------------------------------------------------------------------------
(* Bits                                                                    *)

LEMMA TagBitsAre ==
  /\ TagOf(0) = <<>>
  /\ TagOf(3) = <<1, 1, 0, 0, 0>>
  /\ TagOf(8) = <<0, 0, 0, 1, 0>>
  /\ TagOf(10) = <<0, 1, 0, 1, 0>>
<1>1. TagOf(0) = <<>>
  BY DEF TagOf, Untyped
<1>2. \A n \in Nat : Bits(n, 5) = [i \in 1..5 |-> (n \div 2^(i - 1)) % 2]
  BY DEF Bits
<1>3. \A i \in 1..5 : i = 1 \/ i = 2 \/ i = 3 \/ i = 4 \/ i = 5
  OBVIOUS
<1>4. 2^(1-1) = 1 /\ 2^(2-1) = 2 /\ 2^(3-1) = 4 /\ 2^(4-1) = 8 /\ 2^(5-1) = 16
  OBVIOUS
<1>5. Bits(3, 5) = <<1, 1, 0, 0, 0>>
  <2>1. Bits(3, 5) = [i \in 1..5 |-> <<1, 1, 0, 0, 0>>[i]]
    BY <1>2, <1>3, <1>4
  <2> QED BY <2>1
<1>6. Bits(8, 5) = <<0, 0, 0, 1, 0>>
  <2>1. Bits(8, 5) = [i \in 1..5 |-> <<0, 0, 0, 1, 0>>[i]]
    BY <1>2, <1>3, <1>4
  <2> QED BY <2>1
<1>7. Bits(10, 5) = <<0, 1, 0, 1, 0>>
  <2>1. Bits(10, 5) = [i \in 1..5 |-> <<0, 1, 0, 1, 0>>[i]]
    BY <1>2, <1>3, <1>4
  <2> QED BY <2>1
<1> QED BY <1>1, <1>5, <1>6, <1>7 DEF TagOf, Untyped, TagBits

LEMMA TagsAre == Tags = {0, 3, 8, 10}
BY DEF Tags, TypeTags, Untyped

\* A tag has five bits, and no two are the same.
LEMMA TagsDiffer ==
  /\ \A tag \in Tags : /\ TagOf(tag) \in Seq(Bit)
                       /\ Len(TagOf(tag)) = IF tag = Untyped THEN 0 ELSE 5
  /\ \A a, b \in Tags : TagOf(a) = TagOf(b) => a = b
<1>1. \A tag \in Tags : /\ TagOf(tag) \in Seq(Bit)
                        /\ Len(TagOf(tag)) = IF tag = Untyped THEN 0 ELSE 5
  <2>1. /\ <<>> \in Seq(Bit) /\ Len(<<>>) = 0
        /\ <<1, 1, 0, 0, 0>> \in Seq(Bit) /\ Len(<<1, 1, 0, 0, 0>>) = 5
        /\ <<0, 0, 0, 1, 0>> \in Seq(Bit) /\ Len(<<0, 0, 0, 1, 0>>) = 5
        /\ <<0, 1, 0, 1, 0>> \in Seq(Bit) /\ Len(<<0, 1, 0, 1, 0>>) = 5
    BY DEF Bit
  <2> QED BY <2>1, TagBitsAre, TagsAre DEF Untyped
<1>2. \A a, b \in Tags : TagOf(a) = TagOf(b) => a = b
  <2>1. /\ <<1, 1, 0, 0, 0>>[1] = 1 /\ <<0, 0, 0, 1, 0>>[1] = 0 /\ <<0, 1, 0, 1, 0>>[1] = 0
        /\ <<0, 0, 0, 1, 0>>[2] = 0 /\ <<0, 1, 0, 1, 0>>[2] = 1
        /\ Len(<<1, 1, 0, 0, 0>>) = 5 /\ Len(<<0, 0, 0, 1, 0>>) = 5
        /\ Len(<<0, 1, 0, 1, 0>>) = 5 /\ Len(<<>>) = 0
    OBVIOUS
  <2> QED BY <2>1, TagBitsAre, TagsAre
<1> QED BY <1>1, <1>2

LEMMA PaddedAre ==
  /\ \A n \in Nat : Padded(n) \in Nat /\ Padded(n) >= n
  /\ \A m, n \in Nat : Padded(n) <= Padded(n + m)
<1>1. \A n \in Nat : 8 * ((n + 8 - 1) \div 8) \in Nat /\ 8 * ((n + 8 - 1) \div 8) >= n
  OBVIOUS
<1>2. \A m, n \in Nat : 8 * ((n + 8 - 1) \div 8) <= 8 * ((n + m + 8 - 1) \div 8)
  OBVIOUS
<1> QED BY <1>1, <1>2 DEF Padded, ByteBits

\* What is written ends at the offset, and zeros pad it to whole bytes.
EndsAt(d, offset) ==
  Len(d) = Padded(offset) /\ \A i \in DOMAIN d : i > offset => d[i] = 0

Extends(put, d, offset, bits) ==
  /\ put \in Seq(Bit) /\ EndsAt(put, offset + Len(bits))
  /\ \A i \in 1..offset : put[i] = d[i]
  /\ \A i \in DOMAIN bits : put[offset + i] = bits[i]

\* A value put behind the written bits is there, and nothing before it changes.
LEMMA PutBehind ==
  ASSUME NEW d \in Seq(Bit), NEW offset \in Nat, NEW bits \in Seq(Bit), EndsAt(d, offset)
  PROVE  Extends(Put(d, offset, bits), d, offset, bits)
<1> USE DEF EndsAt
<1> DEFINE put == Put(d, offset, bits)
           new == Padded(offset + Len(bits))
           bit(i) == IF i > offset /\ i <= offset + Len(bits) /\ bits[i - offset] = 1
                     THEN 1 ELSE Stored(d, offset, i)
<1>1. /\ Len(bits) \in Nat /\ DOMAIN bits = 1..Len(bits)
      /\ Len(d) \in Nat /\ DOMAIN d = 1..Len(d) /\ offset <= Len(d)
      /\ new \in Nat /\ offset + Len(bits) <= new /\ Len(d) <= new
  <2>1. Len(bits) \in Nat /\ DOMAIN bits = 1..Len(bits) /\ offset + Len(bits) \in Nat
    OBVIOUS
  <2>2. /\ Padded(offset) >= offset
        /\ new \in Nat /\ new >= offset + Len(bits) /\ Padded(offset) <= new
    BY <2>1, PaddedAre
  <2> QED BY <2>1, <2>2
<1>2. put = [i \in 1..new |-> bit(i)]
  BY DEF Put
<1>3. \A i \in 1..new : bit(i) \in Bit
  BY <1>1 DEF Stored, Bit
<1>4. \A i \in 1..offset : bit(i) = d[i]
  BY <1>1 DEF Stored
<1>5. \A i \in DOMAIN bits : bit(offset + i) = bits[i] /\ offset + i \in 1..new
  <2> SUFFICES ASSUME NEW i \in DOMAIN bits
               PROVE  bit(offset + i) = bits[i] /\ offset + i \in 1..new
    OBVIOUS
  <2>1. /\ offset + i > offset /\ offset + i <= offset + Len(bits)
        /\ (offset + i) - offset = i /\ offset + i \in 1..new
    BY <1>1
  <2>2. bits[i] = 0 \/ bits[i] = 1
    BY DEF Bit
  <2>3. Stored(d, offset, offset + i) = 0
    BY <1>1, <2>1 DEF Stored
  <2> QED BY <2>1, <2>2, <2>3
<1>6. \A i \in 1..new : i > offset + Len(bits) => bit(i) = 0
  <2> SUFFICES ASSUME NEW i \in 1..new, i > offset + Len(bits) PROVE bit(i) = 0
    OBVIOUS
  <2>1. ~ (i <= offset + Len(bits)) /\ i > offset
    BY <1>1
  <2> QED BY <1>1, <2>1 DEF Stored
<1> HIDE DEF bit, new, put
<1>7. put \in [1..new -> Bit]
  BY <1>2, <1>3
<1>8. put \in Seq(Bit) /\ Len(put) = new /\ DOMAIN put = 1..new
  BY <1>1, <1>7
<1>9. \A i \in 1..offset : i \in 1..new
  BY <1>1
<1> QED BY <1>2, <1>4, <1>5, <1>6, <1>8, <1>9 DEF put, new, Extends

LEMMA EncodedAre ==
  ASSUME NEW tag \in Tags, NEW bits \in Seq(Bit)
  PROVE  LET encoded == TagOf(tag) \o bits
         IN  /\ encoded \in Seq(Bit) /\ DOMAIN encoded = 1..Len(encoded)
             /\ Len(encoded) = Len(TagOf(tag)) + Len(bits)
             /\ \A i \in 1..Len(TagOf(tag)) : encoded[i] = TagOf(tag)[i]
             /\ \A i \in 1..Len(bits) : encoded[Len(TagOf(tag)) + i] = bits[i]
<1>1. TagOf(tag) \in Seq(Bit)
  BY TagsDiffer
<1> DEFINE t == TagOf(tag)
<1> HIDE DEF t
<1>2. ASSUME t \in Seq(Bit)
      PROVE  /\ t \o bits \in Seq(Bit) /\ DOMAIN (t \o bits) = 1..Len(t \o bits)
             /\ Len(t \o bits) = Len(t) + Len(bits)
             /\ \A i \in 1..Len(t) : (t \o bits)[i] = t[i]
             /\ \A i \in 1..Len(bits) : (t \o bits)[Len(t) + i] = bits[i]
  BY <1>2
<1> QED BY <1>1, <1>2 DEF t

\* The part of a sequence that holds another one is that one.
LEMMA PartIs ==
  ASSUME NEW s \in Seq(Bit), NEW part \in Seq(Bit), NEW at \in Nat,
         at + Len(part) <= Len(s), \A i \in 1..Len(part) : s[at + i] = part[i]
  PROVE  SubSeq(s, at + 1, at + Len(part)) = part
<1> DEFINE cut == SubSeq(s, at + 1, at + Len(part))
<1>1. Len(part) \in Nat /\ Len(s) \in Nat /\ at + 1 \in Nat /\ at + Len(part) \in Nat
  OBVIOUS
<1>2. /\ cut \in Seq(Bit) /\ Len(cut) = Len(part)
      /\ \A i \in 1..Len(part) : cut[i] = s[at + i]
  BY <1>1
<1> HIDE DEF cut
<1>3. cut = part
  BY <1>2
<1> QED BY <1>3 DEF cut

-----------------------------------------------------------------------------
(* What a call of the reader gets                                          *)

\* A reader that fails stays, one that does not passes the tag and the value.
LEMMA ReadMoves ==
  ASSUME NEW d \in Seq(Bit), NEW at \in Nat, NEW tag \in Tags, NEW width \in Nat
  PROVE  LET read == Read(d, at, tag, width)
         IN  /\ read.next = IF read.error = "none" THEN at + Len(TagOf(tag)) + width ELSE at
             /\ read.next \in Nat
<1>1. Len(TagOf(tag)) \in Nat /\ Len(d) \in Nat
  BY TagsDiffer
<1> QED BY <1>1 DEF Read, Failed, RolledBack

\* Where a value begins, a call of its type gets it if it is there.
LEMMA ReadsValue ==
  ASSUME NEW d \in Seq(Bit), NEW at \in Nat, NEW tag \in Tags, NEW bits \in Seq(Bit),
         \A i \in 1..Len(TagOf(tag) \o bits) :
           at + i <= Len(d) => d[at + i] = (TagOf(tag) \o bits)[i]
  PROVE  LET read == Read(d, at, tag, Len(bits))
         IN  IF at + Len(TagOf(tag)) + Len(bits) <= Len(d)
             THEN read.error = "none" /\ read.bits = bits
             ELSE read.error = "eof"
<1> DEFINE t == TagOf(tag)
<1>1. /\ t \in Seq(Bit) /\ Len(t) \in Nat /\ Len(bits) \in Nat /\ Len(d) \in Nat
      /\ Len(t \o bits) = Len(t) + Len(bits)
      /\ \A i \in 1..Len(t) : (t \o bits)[i] = t[i]
      /\ \A i \in 1..Len(bits) : (t \o bits)[Len(t) + i] = bits[i]
  BY TagsDiffer, EncodedAre
<1> HIDE DEF t
<1>2. \A i \in 1..Len(t) + Len(bits) : at + i <= Len(d) => d[at + i] = (t \o bits)[i]
  BY <1>1 DEF t
<1>3. at + Len(t) <= Len(d) => SubSeq(d, at + 1, at + Len(t)) = t
  <2> SUFFICES ASSUME at + Len(t) <= Len(d) PROVE SubSeq(d, at + 1, at + Len(t)) = t
    OBVIOUS
  <2>1. \A i \in 1..Len(t) : d[at + i] = t[i]
    <3> SUFFICES ASSUME NEW i \in 1..Len(t) PROVE d[at + i] = t[i]
      OBVIOUS
    <3>1. i \in 1..Len(t) + Len(bits) /\ at + i <= Len(d)
      BY <1>1
    <3> QED BY <1>1, <1>2, <3>1
  <2>2. t \in Seq(Bit)
    BY <1>1
  <2> QED BY <2>1, <2>2, PartIs
<1>4. at + Len(t) + Len(bits) <= Len(d) =>
        SubSeq(d, at + Len(t) + 1, at + Len(t) + Len(bits)) = bits
  <2> SUFFICES ASSUME at + Len(t) + Len(bits) <= Len(d)
               PROVE  SubSeq(d, at + Len(t) + 1, at + Len(t) + Len(bits)) = bits
    OBVIOUS
  <2>1. \A i \in 1..Len(bits) : d[(at + Len(t)) + i] = bits[i]
    <3> SUFFICES ASSUME NEW i \in 1..Len(bits) PROVE d[(at + Len(t)) + i] = bits[i]
      OBVIOUS
    <3>1. Len(t) + i \in 1..Len(t) + Len(bits) /\ at + (Len(t) + i) = (at + Len(t)) + i
      BY <1>1
    <3> QED BY <1>1, <1>2, <3>1
  <2> QED BY <1>1, <2>1, PartIs
<1>5. CASE at + Len(t) > Len(d)
  BY <1>1, <1>5 DEF Read, Failed, t
<1>6. CASE ~ (at + Len(t) > Len(d))
  <2>1. SubSeq(d, at + 1, at + Len(t)) = t
    BY <1>1, <1>3, <1>6
  <2> QED BY <1>1, <1>4, <1>6, <2>1 DEF Read, Failed, t
<1> QED BY <1>5, <1>6

\* Where a tagged value begins, no call of another tagged type gets one.
LEMMA ReadsNoOther ==
  ASSUME NEW d \in Seq(Bit), NEW at \in Nat, NEW tag \in Tags, NEW bits \in Seq(Bit),
         \A i \in 1..Len(TagOf(tag) \o bits) :
           at + i <= Len(d) => d[at + i] = (TagOf(tag) \o bits)[i],
         NEW other \in Tags, other # tag, Untyped \notin {tag, other}, NEW width \in Nat
  PROVE  Read(d, at, other, width).error # "none"
<1> DEFINE t == TagOf(tag)
           u == TagOf(other)
<1>1. /\ t \in Seq(Bit) /\ Len(t) = 5 /\ u \in Seq(Bit) /\ Len(u) = 5 /\ t # u
      /\ Len(bits) \in Nat /\ Len(d) \in Nat
      /\ Len(t \o bits) = Len(t) + Len(bits)
      /\ \A i \in 1..Len(t) : (t \o bits)[i] = t[i]
  BY TagsDiffer, EncodedAre
<1> HIDE DEF t, u
<1>2. \A i \in 1..Len(t) + Len(bits) : at + i <= Len(d) => d[at + i] = (t \o bits)[i]
  BY <1>1 DEF t
<1>3. CASE at + Len(u) > Len(d)
  BY <1>1, <1>3 DEF Read, Failed, u
<1>4. CASE ~ (at + Len(u) > Len(d))
  <2>1. \A i \in 1..Len(t) : d[at + i] = t[i]
    BY <1>1, <1>2, <1>4
  <2>2. at + Len(t) \in Nat /\ at + Len(t) <= Len(d)
    BY <1>1, <1>4
  <2>3. SubSeq(d, at + 1, at + Len(t)) = t
    BY <1>1, <2>1, <2>2, PartIs
  <2>4. SubSeq(d, at + 1, at + Len(u)) # u
    <3>1. Len(u) = Len(t)
      BY <1>1
    <3> QED BY <1>1, <2>3, <3>1
  <2> QED BY <1>1, <1>4, <2>4 DEF Read, Failed, u
<1> QED BY <1>3, <1>4

-----------------------------------------------------------------------------
(* The steps                                                               *)

LEMMA InitIInv == Init => IInv
<1> SUFFICES ASSUME Init PROVE IInv
  OBVIOUS
<1>1. /\ data = <<>> /\ items = <<>> /\ writeOffset = 0 /\ received = NotYet
      /\ readOffset = 0 /\ last = NoCall /\ Writing /\ ~Called
  BY DEF Init, Writing, Called
<1>2. DOMAIN items = {} /\ DOMAIN data = {} /\ Len(data) = 0
  BY <1>1
<1>3. Typed
  <2>1. data \in Seq(Bit) /\ items \in Seq(Items)
    BY <1>1
  <2>2. NoCall.tag \in Tags /\ NoCall.width \in Nat
    BY TagsAre DEF NoCall, Untyped
  <2> QED BY <1>1, <2>1, <2>2 DEF Typed
<1>4. Padded(0) = 0
  BY DEF Padded, ByteBits
<1> QED BY <1>1, <1>2, <1>3, <1>4
        DEF IInv, BlankBehind, Gapless, Kept, Arrived, LastRead, StaysInStep, Boundaries

\* What the type-checked modes are has no part in it.
LEMMA ModesKeep ==
  ASSUME IInv, UNCHANGED <<data, writeOffset, items, received, readOffset, last, inStep>>
  PROVE  IInv'
<1>1. Typed' /\ BlankBehind' /\ Gapless' /\ Kept'
  BY DEF IInv, Typed, BlankBehind, Gapless, Kept
<1>2. (Writing' <=> Writing) /\ (Called' <=> Called) /\ Boundaries' = Boundaries
  BY DEF Writing, Called, Boundaries
<1>3. Arrived' /\ LastRead' /\ StaysInStep'
  BY <1>2 DEF IInv, Arrived, LastRead, StaysInStep
<1> QED BY <1>1, <1>3 DEF IInv

LEMMA ItemsAre ==
  ASSUME NEW item \in Items
  PROVE  /\ item.at \in Nat /\ item.tag \in Tags /\ item.bits \in Seq(Bit)
         /\ Encoded(item) \in Seq(Bit) /\ DOMAIN Encoded(item) = 1..Len(Encoded(item))
         /\ Len(Encoded(item)) = Len(TagOf(item.tag)) + Len(item.bits)
         /\ Len(Encoded(item)) \in Nat
<1>1. item.at \in Nat /\ item.tag \in Tags /\ item.bits \in Seq(Bit)
  BY DEF Items
<1>2. PICK tag \in Tags, bits \in Seq(Bit) : tag = item.tag /\ bits = item.bits
  BY <1>1
<1>3. Encoded(item) = TagOf(tag) \o bits
  BY <1>2 DEF Encoded
<1>4. /\ Encoded(item) \in Seq(Bit) /\ DOMAIN Encoded(item) = 1..Len(Encoded(item))
      /\ Len(Encoded(item)) = Len(TagOf(tag)) + Len(bits)
  BY <1>3, EncodedAre
<1>5. Len(Encoded(item)) \in Nat
  BY <1>4
<1> QED BY <1>1, <1>2, <1>4, <1>5

\* The values on the stream are in the written bits.
LEMMA ValuesAre ==
  ASSUME IInv, NEW k \in DOMAIN items
  PROVE  /\ k \in Nat /\ k >= 1 /\ k <= Len(items) /\ items[k] \in Items
         /\ items[k].at + Len(Encoded(items[k])) <= writeOffset
         /\ items[k].at + Len(Encoded(items[k])) \in Nat
         /\ \A i \in 1..Len(Encoded(items[k])) :
              /\ items[k].at + i \in 1..writeOffset
              /\ data[items[k].at + i] = Encoded(items[k])[i]
<1>1. PICK item \in Items : item = items[k]
  BY DEF IInv, Typed
<1>2. PICK encoded \in Seq(Bit) : encoded = Encoded(item)
  BY ItemsAre
<1>3. /\ k \in Nat /\ k >= 1 /\ k <= Len(items) /\ writeOffset \in Nat
      /\ item.at \in Nat /\ Len(encoded) \in Nat /\ DOMAIN encoded = 1..Len(encoded)
  <2>1. items \in Seq(Items) /\ writeOffset \in Nat
    BY DEF IInv, Typed
  <2>2. k \in Nat /\ k >= 1 /\ k <= Len(items)
    BY <2>1
  <2>3. Len(encoded) \in Nat /\ DOMAIN encoded = 1..Len(encoded)
    OBVIOUS
  <2>4. item.at \in Nat
    BY ItemsAre
  <2> QED BY <2>1, <2>2, <2>3, <2>4
<1>4. item.at + Len(encoded) <= writeOffset
  BY <1>1, <1>2 DEF IInv, Gapless
<1>5. \A i \in 1..Len(encoded) : data[item.at + i] = encoded[i]
  <2>1. \A i \in DOMAIN Encoded(items[k]) : data[items[k].at + i] = Encoded(items[k])[i]
    BY DEF IInv, Kept
  <2>2. Encoded(items[k]) = encoded
    BY <1>1, <1>2
  <2> QED BY <1>1, <1>3, <2>1, <2>2
<1>6. item.at + Len(encoded) \in Nat
  BY <1>3
<1>7. \A i \in 1..Len(encoded) : item.at + i \in 1..writeOffset
  BY <1>3, <1>4
<1> QED BY <1>1, <1>2, <1>3, <1>4, <1>5, <1>6, <1>7

\* A value written goes behind the others and disturbs none.
LEMMA WriteKeeps ==
  ASSUME IInv, NEW tag \in Tags, NEW bits \in Seq(Bit), Write(tag, bits)
  PROVE  IInv'
<1> DEFINE encoded == TagOf(tag) \o bits
           item == [at |-> writeOffset, tag |-> tag, bits |-> bits]
<1>1. /\ Writing /\ data' = Put(data, writeOffset, encoded)
      /\ writeOffset' = writeOffset + Len(encoded)
      /\ items' = Append(items, item)
      /\ UNCHANGED <<received, readOffset, last, inStep>>
  BY DEF Write, reader
<1>2. encoded \in Seq(Bit) /\ Len(encoded) \in Nat /\ DOMAIN encoded = 1..Len(encoded)
  BY EncodedAre
<1>3. /\ data \in Seq(Bit) /\ writeOffset \in Nat /\ items \in Seq(Items)
      /\ Len(data) = Padded(writeOffset)
      /\ \A i \in DOMAIN data : i > writeOffset => data[i] = 0
  BY DEF IInv, Typed, BlankBehind
<1> HIDE DEF encoded
<1>4. /\ data' \in Seq(Bit) /\ Len(data') = Padded(writeOffset + Len(encoded))
      /\ \A i \in 1..writeOffset : data'[i] = data[i]
      /\ \A i \in DOMAIN encoded : data'[writeOffset + i] = encoded[i]
      /\ \A i \in DOMAIN data' : i > writeOffset + Len(encoded) => data'[i] = 0
  <2>1. EndsAt(data, writeOffset)
    BY <1>3 DEF EndsAt
  <2>2. Extends(data', data, writeOffset, encoded)
    BY <1>1, <1>2, <1>3, <2>1, PutBehind
  <2> QED BY <2>2 DEF Extends, EndsAt
<1>5. item \in Items /\ item.at = writeOffset /\ Encoded(item) = encoded
  BY <1>3 DEF Items, Encoded, encoded
<1> HIDE DEF item
<1>6. /\ items' \in Seq(Items) /\ Len(items') = Len(items) + 1 /\ Len(items) \in Nat
      /\ DOMAIN items' = 1..Len(items) + 1 /\ DOMAIN items = 1..Len(items)
      /\ items'[Len(items) + 1] = item
      /\ \A k \in DOMAIN items : items'[k] = items[k]
  BY <1>1, <1>3, <1>5
<1>7. (Writing' <=> Writing) /\ (Called' <=> Called) /\ ~Called
  BY <1>1 DEF Writing, Called, IInv, LastRead
<1>8. Typed'
  BY <1>1, <1>2, <1>3, <1>4, <1>6 DEF IInv, Typed
<1>9. BlankBehind'
  BY <1>1, <1>4 DEF BlankBehind
<1>10. Gapless'
  <2> SUFFICES ASSUME NEW k \in DOMAIN items'
               PROVE  /\ items'[k].at + Len(Encoded(items'[k])) <= writeOffset'
                      /\ items'[k].at + Len(Encoded(items'[k]))
                           = IF k = Len(items') THEN writeOffset' ELSE items'[k + 1].at
    BY DEF Gapless, Encoded
  <2>1. CASE k \in DOMAIN items
    <3>1. /\ items'[k] = items[k] /\ k # Len(items')
          /\ k = Len(items) => items'[k + 1].at = writeOffset
          /\ k # Len(items) => items'[k + 1] = items[k + 1]
      BY <1>5, <1>6, <2>1
    <3>2. /\ items[k].at + Len(Encoded(items[k])) <= writeOffset
          /\ items[k].at + Len(Encoded(items[k]))
               = IF k = Len(items) THEN writeOffset ELSE items[k + 1].at
      BY <2>1 DEF IInv, Gapless
    <3>3. items[k].at + Len(Encoded(items[k])) \in Nat
      BY <2>1, ValuesAre
    <3> QED BY <1>1, <1>2, <1>3, <3>1, <3>2, <3>3
  <2>2. CASE k \notin DOMAIN items
    <3>1. k = Len(items') /\ items'[k] = item
      BY <1>6, <2>2
    <3> QED BY <1>1, <1>2, <1>3, <1>5, <3>1
  <2> QED BY <2>1, <2>2
<1>11. Kept'
  <2> SUFFICES ASSUME NEW k \in DOMAIN items', NEW i \in DOMAIN Encoded(items'[k])
               PROVE  data'[items'[k].at + i] = Encoded(items'[k])[i]
    BY DEF Kept, Encoded
  <2>1. CASE k \in DOMAIN items
    <3>1. items'[k] = items[k]
      BY <1>6, <2>1
    <3>2. i \in 1..Len(Encoded(items[k]))
      BY <2>1, <3>1, ValuesAre, ItemsAre
    <3>3. /\ items[k].at + i \in 1..writeOffset
          /\ data[items[k].at + i] = Encoded(items[k])[i]
      BY <2>1, <3>2, ValuesAre
    <3> QED BY <1>4, <3>1, <3>3
  <2>2. CASE k \notin DOMAIN items
    <3>1. items'[k] = item
      BY <1>6, <2>2
    <3> QED BY <1>4, <1>5, <3>1
  <2> QED BY <2>1, <2>2
<1>12. Arrived' /\ LastRead'
  BY <1>1, <1>7 DEF Arrived, LastRead
<1>13. StaysInStep'
  <2>1. Boundaries \subseteq Boundaries'
    <3>1. \A k \in DOMAIN items : items[k].at \in Boundaries'
      BY <1>6 DEF Boundaries
    <3>2. writeOffset \in Boundaries'
      BY <1>5, <1>6 DEF Boundaries
    <3> QED BY <3>1, <3>2 DEF Boundaries
  <2> QED BY <1>1, <2>1 DEF IInv, StaysInStep
<1> QED BY <1>8, <1>9, <1>10, <1>11, <1>12, <1>13 DEF IInv

LEMMA ReceiveKeeps ==
  ASSUME IInv, NEW n \in 0..Len(data) \div ByteBits, Receive(n)
  PROVE  IInv'
<1>1. /\ Writing /\ received' = SubSeq(data, 1, ByteBits * n)
      /\ UNCHANGED <<data, writeOffset, items, readOffset, last, inStep>>
  BY DEF Receive, writer
<1>2. data \in Seq(Bit) /\ Len(data) \in Nat
  BY DEF IInv, Typed
<1>3. ByteBits * n \in 0..Len(data)
  BY <1>2 DEF ByteBits
<1>4. /\ received' \in Seq(Bit) /\ Len(received') <= Len(data)
      /\ \A i \in DOMAIN received' : received'[i] = data[i]
  <2> DEFINE m == ByteBits * n
  <2>1. received' = SubSeq(data, 1, m) /\ m \in 0..Len(data)
    BY <1>1, <1>3
  <2> HIDE DEF m
  <2> QED BY <1>2, <2>1
<1>5. ~Called /\ ~Called'
  BY <1>1 DEF IInv, LastRead, Called
<1>6. Typed'
  BY <1>1, <1>4 DEF IInv, Typed
<1>7. Arrived' /\ LastRead'
  BY <1>1, <1>4, <1>5 DEF Arrived, LastRead
<1>8. BlankBehind' /\ Gapless' /\ Kept' /\ StaysInStep'
  BY <1>1 DEF IInv, BlankBehind, Gapless, Kept, StaysInStep, Boundaries
<1> QED BY <1>6, <1>7, <1>8 DEF IInv

\* A reader that gets a value where one was written stands behind it then.
LEMMA ReadKeeps ==
  ASSUME IInv, NEW tag \in Tags, NEW width \in Nat, ReadNext(tag, width)
  PROVE  IInv'
<1> DEFINE read == Read(received, readOffset, tag, width)
<1>1. /\ ~Writing /\ readOffset' = read.next
      /\ last' = [at |-> readOffset, tag |-> tag, width |-> width,
                  error |-> read.error, bits |-> read.bits]
      /\ inStep' = (inStep /\ (read.error = "none" => Written(readOffset, tag, width)))
      /\ UNCHANGED <<data, writeOffset, items, received>>
  BY DEF ReadNext, writer
<1>2. received \in Seq(Bit) /\ readOffset \in Nat
  BY <1>1 DEF IInv, Typed, Writing
<1>3. /\ read.next = IF read.error = "none" THEN readOffset + Len(TagOf(tag)) + width
                     ELSE readOffset
      /\ read.next \in Nat
  BY <1>2, ReadMoves
<1> HIDE DEF read
<1>4. Typed'
  BY <1>1, <1>3 DEF IInv, Typed
<1>5. BlankBehind' /\ Gapless' /\ Kept'
  BY <1>1 DEF IInv, BlankBehind, Gapless, Kept
<1>6. (Writing' <=> Writing) /\ Boundaries' = Boundaries
  BY <1>1 DEF Writing, Boundaries
<1>7. Arrived'
  BY <1>1, <1>6 DEF IInv, Arrived
<1>8. LastRead'
  <2>1. /\ last'.at = readOffset /\ last'.tag = tag /\ last'.width = width
        /\ last'.error = read.error /\ last'.bits = read.bits
    BY <1>1
  <2>2. received' = received
    BY <1>1
  <2>3. Read(received', last'.at, last'.tag, last'.width) = read
    BY <2>1, <2>2 DEF read
  <2> QED BY <1>1, <1>6, <2>1, <2>3 DEF LastRead
<1>9. StaysInStep'
  <2> SUFFICES ASSUME inStep' PROVE readOffset' \in Boundaries
    BY <1>6 DEF StaysInStep
  <2>1. readOffset \in Boundaries
    BY <1>1 DEF IInv, StaysInStep
  <2>2. CASE read.error = "none"
    <3>1. PICK k \in DOMAIN items :
            items[k].at = readOffset /\ items[k].tag = tag /\ Len(items[k].bits) = width
      BY <1>1, <2>2 DEF Written
    <3>2. readOffset' = items[k].at + Len(Encoded(items[k]))
      <4>1. items[k] \in Items
        BY ValuesAre
      <4>2. PICK item \in Items : item = items[k]
        BY <4>1
      <4>3. Len(Encoded(item)) = Len(TagOf(item.tag)) + Len(item.bits)
        BY ItemsAre
      <4>4. Len(Encoded(items[k])) = Len(TagOf(tag)) + width
        BY <3>1, <4>2, <4>3
      <4>5. Len(TagOf(tag)) \in Nat
        BY TagsDiffer
      <4> QED BY <1>1, <1>2, <1>3, <2>2, <3>1, <4>4, <4>5
    <3>3. readOffset' = IF k = Len(items) THEN writeOffset ELSE items[k + 1].at
      BY <3>2 DEF IInv, Gapless
    <3>4. k # Len(items) => k + 1 \in DOMAIN items
      BY DEF IInv, Typed
    <3> QED BY <3>3, <3>4 DEF Boundaries
  <2>3. CASE read.error # "none"
    BY <1>1, <1>3, <2>1, <2>3
  <2> QED BY <2>2, <2>3
<1> QED BY <1>4, <1>5, <1>7, <1>8, <1>9 DEF IInv

-----------------------------------------------------------------------------
(* The theorems                                                            *)

\* The values that the writer's methods write.
LEMMA ValuesWritten ==
  /\ \A p \in Patterns : \A n \in RawLengths :
       SubSeq(p, 1, ByteBits * n) \in Seq(Bit) /\ ByteBits * n \in Nat
  /\ \A p \in Patterns : \A kind \in DOMAIN Widths : SubSeq(p, 1, Widths[kind]) \in Seq(Bit)
  /\ \A kind \in DOMAIN Widths : Widths[kind] \in Nat /\ TypeTags[kind] \in Tags
<1>1. ASSUME NEW p \in Patterns, NEW m \in 0..64 PROVE SubSeq(p, 1, m) \in Seq(Bit)
  <2>1. p \in Seq(Bit) /\ Len(p) = 64
    BY BitBufferAssumption
  <2>2. m \in Int /\ \A i \in 1..m : i \in 1..64
    OBVIOUS
  <2>3. 1..64 = 1..Len(p)
    BY <2>1
  <2>4. \A i \in 1..Len(p) : p[i] \in Bit
    BY <2>1, ElementOfSeq
  <2>5. \A i \in 1..m : p[i] \in Bit
    BY <2>2, <2>3, <2>4
  <2> QED BY <2>2, <2>5, SubSeqProperties
<1>2. \A n \in RawLengths : ByteBits * n \in 0..64 /\ ByteBits * n \in Nat
  BY BitBufferAssumption DEF ByteBits
<1>3. \A kind \in DOMAIN Widths : Widths[kind] \in 0..64 /\ TypeTags[kind] \in Tags
  BY DEF Widths, TypeTags, Tags
<1> QED BY <1>1, <1>2, <1>3

LEMMA StepIInv == IInv /\ [Next]_vars => IInv'
<1> SUFFICES ASSUME IInv, [Next]_vars PROVE IInv'
  OBVIOUS
<1>1. Untyped \in Tags /\ \A b \in {0, 1} : <<b>> \in Seq(Bit)
  BY DEF Tags, Bit
<1>2. {"uint8", "uint32", "uint64"} \subseteq DOMAIN Widths
  BY DEF Widths
<1>3. CASE WriteTypeCheckedFlag
  BY <1>1, <1>3, WriteKeeps DEF WriteTypeCheckedFlag
<1>4. CASE SetWriterTypeChecked
  BY <1>4, ModesKeep DEF SetWriterTypeChecked, reader
<1>5. ASSUME NEW p \in Patterns, NEW n \in RawLengths, WriteRaw(p, n) PROVE IInv'
  BY <1>1, <1>5, ValuesWritten, WriteKeeps DEF WriteRaw
<1>6. ASSUME NEW p \in Patterns, NEW kind \in {"uint8", "uint32"}, WriteUint(kind, p)
      PROVE  IInv'
  <2>1. kind \in DOMAIN Widths
    BY <1>2
  <2>2. PICK tag \in Tags : Write(tag, SubSeq(p, 1, Widths[kind]))
    BY <1>1, <1>6, <2>1, ValuesWritten DEF WriteUint
  <2> QED BY <2>1, <2>2, ValuesWritten, WriteKeeps
<1>7. ASSUME NEW n \in 0..Len(data) \div ByteBits, Receive(n) PROVE IInv'
  BY <1>7, ReceiveKeeps
<1>8. CASE ReadTypeCheckedFlag
  BY <1>1, <1>8, ReadKeeps DEF ReadTypeCheckedFlag
<1>9. CASE SetReaderTypeChecked
  BY <1>9, ModesKeep DEF SetReaderTypeChecked, writer
<1>10. ASSUME NEW n \in RawLengths, ReadRaw(n) PROVE IInv'
  <2>1. ByteBits * n \in Nat
    BY BitBufferAssumption DEF ByteBits
  <2> QED BY <1>1, <1>10, <2>1, ReadKeeps DEF ReadRaw
<1>11. ASSUME NEW kind \in {"uint32", "uint64"}, ReadUint(kind) PROVE IInv'
  <2>1. kind \in DOMAIN Widths
    BY <1>2
  <2>2. PICK tag \in Tags : ReadNext(tag, Widths[kind])
    BY <1>1, <1>11, <2>1, ValuesWritten DEF ReadUint
  <2> QED BY <2>1, <2>2, ValuesWritten, ReadKeeps
<1>12. CASE UNCHANGED vars
  BY <1>12, ModesKeep DEF vars, writer, reader
<1> QED BY <1>3, <1>4, <1>5, <1>6, <1>7, <1>8, <1>9, <1>10, <1>11, <1>12 DEF Next

LEMMA Invariance == Spec => []IInv
<1> QED BY InitIInv, StepIInv, PTL DEF Spec

(* The Write and Read methods of bitdemon/bitbuffer.go: for all values, in  *)
(* any order and at any bit of a byte, a call where a value was written     *)
(* gets it if it asks for its type and all of it arrived, and an error if   *)
(* it asks for a tagged value of another type.                              *)
THEOREM WrittenIsRead == Spec => []ReadsBack
<1>1. ASSUME IInv PROVE ReadsBack
  <2> SUFFICES ASSUME NEW k \in DOMAIN items, Called, last.at = items[k].at
               PROVE  LET item == items[k]
                          end  == item.at + Len(TagOf(item.tag)) + Len(item.bits)
                      IN  /\ last.tag = item.tag /\ last.width = Len(item.bits) =>
                               IF end <= Len(received)
                               THEN last.error = "none" /\ last.bits = item.bits
                               ELSE last.error = "eof"
                          /\ Untyped \notin {last.tag, item.tag} /\ last.tag # item.tag =>
                               last.error # "none"
    BY DEF ReadsBack
  <2>1. PICK item \in Items : item = items[k]
    BY <1>1, ValuesAre
  <2>2. PICK at \in Nat, tag \in Tags, bits \in Seq(Bit) :
          at = item.at /\ tag = item.tag /\ bits = item.bits
    BY ItemsAre
  <2>3. PICK d \in Seq(Bit) : d = received
    BY <1>1 DEF IInv, LastRead, Typed, Writing
  <2>4. \A i \in 1..Len(TagOf(tag) \o bits) :
          at + i <= Len(d) => d[at + i] = (TagOf(tag) \o bits)[i]
    <3>1. Encoded(item) = TagOf(tag) \o bits
      BY <2>2 DEF Encoded
    <3> SUFFICES ASSUME NEW i \in 1..Len(Encoded(item)), at + i <= Len(d)
                 PROVE  d[at + i] = Encoded(item)[i]
      BY <3>1
    <3>2. at + i \in 1..writeOffset /\ data[at + i] = Encoded(item)[i]
      BY <1>1, <2>1, <2>2, ValuesAre
    <3>3. at + i \in DOMAIN d
      BY <3>2
    <3> QED BY <1>1, <2>3, <3>2, <3>3 DEF IInv, Arrived, LastRead
  <2>5. /\ last.tag \in Tags /\ last.width \in Nat
        /\ last.error = Read(d, at, last.tag, last.width).error
        /\ last.bits = Read(d, at, last.tag, last.width).bits
    BY <1>1, <2>1, <2>2, <2>3 DEF IInv, Typed, LastRead
  <2>6. last.tag = tag /\ last.width = Len(bits) =>
          IF at + Len(TagOf(tag)) + Len(bits) <= Len(d)
          THEN last.error = "none" /\ last.bits = bits
          ELSE last.error = "eof"
    <3> DEFINE read == Read(d, at, tag, Len(bits))
    <3>1. IF at + Len(TagOf(tag)) + Len(bits) <= Len(d)
          THEN read.error = "none" /\ read.bits = bits
          ELSE read.error = "eof"
      BY <2>4, ReadsValue
    <3>2. last.tag = tag /\ last.width = Len(bits) =>
            last.error = read.error /\ last.bits = read.bits
      BY <2>5
    <3> HIDE DEF read
    <3> QED BY <3>1, <3>2
  <2>7. Untyped \notin {last.tag, tag} /\ last.tag # tag => last.error # "none"
    BY <2>4, <2>5, ReadsNoOther
  <2> QED BY <2>1, <2>2, <2>3, <2>6, <2>7
<1> QED BY <1>1, Invariance, PTL

(* A call of the reader that fails puts bitOffset back to where it was      *)
(* before the tag: as long as what it got is what was written, value by     *)
(* value, it stands where a value begins.                                   *)
THEOREM FailuresAreFree == Spec => []StaysInStep
<1>1. IInv => StaysInStep
  BY DEF IInv
<1> QED BY <1>1, Invariance, PTL
=============================================================================
