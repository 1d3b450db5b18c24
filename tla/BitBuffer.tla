----------------------------- MODULE BitBuffer -----------------------------
(***************************************************************************)
(* The bit stream of the authentication messages (bitdemon/bitbuffer.go):  *)
(* a writer packs values, least significant bit first, behind one another  *)
(* without regard to byte boundaries and, in type-checked mode, each value *)
(* behind a tag of five bits; a reader takes them out again from bytes of  *)
(* which the end may be missing.                                           *)
(*                                                                         *)
(* A value is the sequence of its bits.  A program of writes comes first;  *)
(* then some of its bytes are received and read by any calls in any order. *)
(***************************************************************************)
EXTENDS BitStream

CONSTANTS
  Patterns,    \* sequences of 64 bits whose prefixes are the values written
  RawLengths,  \* lengths in bytes of raw values
  MaxItems     \* bound: values a writer writes

ASSUME BitBufferAssumption ==
  /\ \A p \in Patterns : p \in Seq(Bit) /\ Len(p) = 64
  /\ RawLengths \subseteq 0..8 /\ MaxItems \in Nat

VARIABLES
  data,         \* the writer's bits, whole bytes of them
  writeOffset,  \* BitWriter.bitOffset
  writeTyped,   \* BitWriter.typeChecked
  items,        \* history: what was written, where, behind which tag
  received,     \* the bits the reader has, <<-1>> before
  readOffset,   \* BitReader.bitOffset
  readTyped,    \* BitReader.typeChecked
  last,         \* the result of the reader's last call
  inStep        \* history: what was read is what was written, value by value

writer == <<data, writeOffset, writeTyped, items>>
reader == <<received, readOffset, readTyped, last, inStep>>
vars   == <<writer, reader>>

NotYet == <<-1>>
NoCall == [at |-> 0, tag |-> Untyped, width |-> 0, error |-> "none", bits |-> <<>>]

Init ==
  /\ data = <<>> /\ writeOffset = 0 /\ writeTyped \in BOOLEAN /\ items = <<>>
  /\ received = NotYet /\ readOffset = 0 /\ readTyped = FALSE /\ last = NoCall
  /\ inStep = TRUE

-----------------------------------------------------------------------------
(* The writer                                                              *)

Writing == received = NotYet

Write(tag, bits) ==
  /\ Writing /\ Len(items) < MaxItems
  /\ data' = Put(data, writeOffset, TagOf(tag) \o bits)
  /\ writeOffset' = writeOffset + Len(TagOf(tag) \o bits)
  /\ items' = Append(items, [at |-> writeOffset, tag |-> tag, bits |-> bits])
  /\ UNCHANGED <<writeTyped, reader>>

WriteTypeCheckedFlag == Write(Untyped, <<IF writeTyped THEN 1 ELSE 0>>)

WriteRaw(p, n) == Write(Untyped, SubSeq(p, 1, ByteBits * n))

WriteUint(kind, p) ==
  Write(IF writeTyped THEN TypeTags[kind] ELSE Untyped, SubSeq(p, 1, Widths[kind]))

SetWriterTypeChecked ==
  /\ Writing /\ writeTyped' = ~writeTyped
  /\ UNCHANGED <<data, writeOffset, items, reader>>

-----------------------------------------------------------------------------
\* NewBitReader on the bytes that arrived, all or some
Receive(n) ==
  /\ Writing
  /\ received' = SubSeq(data, 1, ByteBits * n)
  /\ UNCHANGED <<writer, readOffset, readTyped, last, inStep>>

-----------------------------------------------------------------------------
(* The reader                                                              *)

\* a value of that shape was written at this place
Written(at, tag, width) ==
  \E k \in DOMAIN items :
    items[k].at = at /\ items[k].tag = tag /\ Len(items[k].bits) = width

ReadNext(tag, width) ==
  LET read == Read(received, readOffset, tag, width)
  IN /\ ~Writing
     /\ last' = [at |-> readOffset, tag |-> tag, width |-> width,
                 error |-> read.error, bits |-> read.bits]
     /\ inStep' = (inStep /\ (read.error = "none" => Written(readOffset, tag, width)))
     /\ readOffset' = read.next
     /\ UNCHANGED <<writer, received>>

ReadTypeCheckedFlag ==
  /\ ReadNext(Untyped, 1)
  /\ readTyped' = IF last'.error = "none" THEN last'.bits = <<1>> ELSE readTyped

ReadRaw(n) == ReadNext(Untyped, ByteBits * n) /\ UNCHANGED readTyped

ReadUint(kind) ==
  /\ ReadNext(IF readTyped THEN TypeTags[kind] ELSE Untyped, Widths[kind])
  /\ UNCHANGED readTyped

SetReaderTypeChecked ==
  /\ ~Writing /\ readTyped' = ~readTyped
  /\ UNCHANGED <<writer, received, readOffset, last, inStep>>

Next ==
  \/ WriteTypeCheckedFlag \/ SetWriterTypeChecked
  \/ \E p \in Patterns : \/ \E n \in RawLengths : WriteRaw(p, n)
                         \/ \E kind \in {"uint8", "uint32"} : WriteUint(kind, p)
  \/ \E n \in 0..Len(data) \div ByteBits : Receive(n)
  \/ ReadTypeCheckedFlag \/ SetReaderTypeChecked
  \/ \E n \in RawLengths : ReadRaw(n)
  \/ \E kind \in {"uint32", "uint64"} : ReadUint(kind)

Spec == Init /\ [][Next]_vars

-----------------------------------------------------------------------------
(* Properties                                                              *)

Called == last # NoCall

Boundaries == {items[k].at : k \in DOMAIN items} \cup {writeOffset}

\* A call that asks, at the place a value was written, for a value of its type
\* gets that value if all of it arrived, and the end of the stream otherwise; one
\* that asks for a tagged value of another type fails.
ReadsBack ==
  \A k \in DOMAIN items :
    LET item == items[k]
        end  == item.at + Len(TagOf(item.tag)) + Len(item.bits)
    IN  Called /\ last.at = item.at =>
          /\ last.tag = item.tag /\ last.width = Len(item.bits) =>
               IF end <= Len(received)
               THEN last.error = "none" /\ last.bits = item.bits
               ELSE last.error = "eof"
          /\ Untyped \notin {last.tag, item.tag} /\ last.tag # item.tag =>
               last.error # "none"

\* Failed calls are free: as long as what a reader got is what was written,
\* value by value, it stands where a value begins, whatever calls failed in
\* between for a wrong type or a missing end, and can go on from there.
StaysInStep == inStep => readOffset \in Boundaries
=============================================================================
