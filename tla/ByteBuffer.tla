---------------------------- MODULE ByteBuffer ----------------------------
(***************************************************************************)
(* Values as the lobby protocol writes and reads them                      *)
(* (bitdemon/bytebuffer.go), in the type-checked mode that all messages of *)
(* the lobby use: a type byte, then the value.  Integers are the sequence  *)
(* of their bytes, least significant first, whatever their width.          *)
(*                                                                         *)
(* A field is a type with a limit, which strings and blobs have; fields    *)
(* follow one another.  A reader is bytes and an offset; a read returns    *)
(* the value, the offset behind it, and whether it succeeded.              *)
(***************************************************************************)
EXTENDS Integers, SequencesExt

DataType == [uint8 |-> 3, int32 |-> 7, uint32 |-> 8, uint64 |-> 10,
             string |-> 16, blob |-> 19]
Size     == [uint8 |-> 1, int32 |-> 4, uint32 |-> 4, uint64 |-> 8]

Field(type)       == [type |-> type, max |-> 0]
Limited(type, max) == [type |-> type, max |-> max]

Zeros(n) == [i \in 1..n |-> 0]

\* the four bytes of a number, and the number that four bytes are
Word(n)   == [i \in 1..4 |-> (n \div 256^(i - 1)) % 256]
Number(w) == w[1] + 256 * w[2] + 65536 * w[3] + 16777216 * w[4]

\* the largest number whose fourth byte is below 128
MaxInt32 == 2147483647

-----------------------------------------------------------------------------
(***************************************************************************)
(* Variant with a plausible bug.  Nothing uses it: it stands in for a      *)
(* definition below to show that a property notices the difference.        *)
(***************************************************************************)
\* the limit itself is refused
Below(w, max) == w[4] < 128 /\ Number(w) < max

-----------------------------------------------------------------------------
(* ByteWriter                                                              *)

WriteFixed(type, value) == <<DataType[type]>> \o value

\* of a string without a NUL, as the names of accounts are; others are refused
WriteString(value) == <<DataType.string>> \o value \o <<0>>

WriteBlob(value) ==
  <<DataType.blob>> \o WriteFixed("uint32", Word(Len(value))) \o value

WriteField(field, value) ==
  CASE field.type = "string" -> WriteString(value)
    [] field.type = "blob"   -> WriteBlob(value)
    [] OTHER                 -> WriteFixed(field.type, value)

WriteFields(fields, values) ==
  FlattenSeq([i \in DOMAIN fields |-> WriteField(fields[i], values[i])])

-----------------------------------------------------------------------------
(* ByteReader                                                              *)

\* a read that fails leaves the offset where it was
NoValue(at) == [ok |-> FALSE, value |-> <<>>, next |-> at]

ReadRaw(data, at, n) ==
  IF n > Len(data) - at THEN NoValue(at)
  ELSE [ok |-> TRUE, value |-> SubSeq(data, at + 1, at + n), next |-> at + n]

\* expect
Expected(data, at, type) == at < Len(data) /\ data[at + 1] = DataType[type]

ReadFixed(data, at, type) ==
  LET read == ReadRaw(data, at + 1, Size[type])
  IN  IF Expected(data, at, type) /\ read.ok THEN read ELSE NoValue(at)

ReadString(data, at, max) ==
  LET rest == SubSeq(data, at + 2, Len(data))
      nuls == {i \in DOMAIN rest : rest[i] = 0}
      end  == CHOOSE i \in nuls : \A j \in nuls : i <= j
  IN  IF Expected(data, at, "string") /\ nuls # {} /\ end - 1 <= max
      THEN [ok |-> TRUE, value |-> SubSeq(rest, 1, end - 1), next |-> at + 1 + end]
      ELSE NoValue(at)

\* an unsigned number is at most max
AtMost(w, max) == w[4] < 128 /\ Number(w) <= max

ReadBlob(data, at, max) ==
  LET length == ReadFixed(data, at + 1, "uint32")
  IN  IF /\ Expected(data, at, "blob") /\ length.ok /\ AtMost(length.value, max)
         /\ ReadRaw(data, length.next, Number(length.value)).ok
      THEN ReadRaw(data, length.next, Number(length.value))
      ELSE NoValue(at)

ReadField(data, at, field) ==
  CASE field.type = "string" -> ReadString(data, at, field.max)
    [] field.type = "blob"   -> ReadBlob(data, at, field.max)
    [] OTHER                 -> ReadFixed(data, at, field.type)

\* one field after the other, up to the first that fails
ReadFields(data, at, fields) ==
  LET read[i \in 0..Len(fields)] ==
        IF i = 0 THEN [ok |-> TRUE, value |-> <<>>, next |-> at]
        ELSE LET soFar == read[i - 1]
                 field == ReadField(data, soFar.next, fields[i])
             IN  IF ~soFar.ok THEN soFar
                 ELSE [ok |-> field.ok, value |-> Append(soFar.value, field.value),
                       next |-> field.next]
  IN  read[Len(fields)]
=============================================================================
