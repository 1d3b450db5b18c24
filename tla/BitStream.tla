----------------------------- MODULE BitStream -----------------------------
(***************************************************************************)
(* One call of a writer or a reader of the bit stream that carries the     *)
(* authentication messages (bitdemon/bitbuffer.go), as operators on its    *)
(* state.  A value is the sequence of its bits, least significant first;   *)
(* in type-checked mode it goes behind a tag of five bits.                 *)
(***************************************************************************)
EXTENDS Integers, Sequences

Bit      == {0, 1}
ByteBits == 8
TagBits  == 5                                            \* bitModeTypeWidth
Widths   == [uint8 |-> 8, uint32 |-> 32, uint64 |-> 64]
TypeTags == [uint8 |-> 3, uint32 |-> 8, uint64 |-> 10]   \* DataType
Untyped  == 0                                            \* no tag

\* the k low bits of n
Bits(n, k) == [i \in 1..k |-> (n \div 2^(i - 1)) % 2]

TagOf(tag) == IF tag = Untyped THEN <<>> ELSE Bits(tag, TagBits)

-----------------------------------------------------------------------------
(***************************************************************************)
(* Variants with a plausible bug.  Nothing uses them: each stands in for a *)
(* definition below to show that a property notices the difference.        *)
(***************************************************************************)
\* setting a bit assigns its byte instead of or-ing into it
ByteOverwritten(data, offset, i) ==
  IF i <= ByteBits * (offset \div ByteBits) THEN data[i] ELSE 0

\* the tag is consumed though the value behind it is not there
TagConsumed(at, tagged) == at + tagged

-----------------------------------------------------------------------------
(* The writer                                                              *)

\* the bits of as many bytes as n bits need
Padded(n) == ByteBits * ((n + ByteBits - 1) \div ByteBits)

\* bit i of the stream as far as it is written, as a fresh byte has it else
Stored(data, offset, i) == IF i <= Len(data) THEN data[i] ELSE 0

\* writeBits at an offset: bytes are appended as they are needed, and of them
\* the bits that are one are set
Put(data, offset, bits) ==
  [i \in 1..Padded(offset + Len(bits)) |->
     IF i > offset /\ i <= offset + Len(bits) /\ bits[i - offset] = 1
     THEN 1 ELSE Stored(data, offset, i)]

-----------------------------------------------------------------------------
(* The reader                                                              *)

\* where a call that fails leaves the offset
RolledBack(at, tagged) == at

Failed(at, tagged, error) ==
  [error |-> error, bits |-> <<>>, next |-> RolledBack(at, tagged)]

\* expect a tag, unless it is Untyped, and read width bits behind it
Read(data, at, tag, width) ==
  LET tagged == Len(TagOf(tag))
      value  == at + tagged
  IN  CASE value > Len(data) -> Failed(at, tagged, "eof")
        [] value <= Len(data) /\ SubSeq(data, at + 1, value) # TagOf(tag) ->
             Failed(at, tagged, "type")
        [] OTHER ->
             IF value + width > Len(data) THEN Failed(at, tagged, "eof")
             ELSE [error |-> "none", bits |-> SubSeq(data, value + 1, value + width),
                   next |-> value + width]
=============================================================================
