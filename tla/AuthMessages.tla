--------------------------- MODULE AuthMessages ---------------------------
(***************************************************************************)
(* The clear requests of the authentication service (auth/create_account.go*)
(* and auth/account_for_mmp.go) and of the lobby's login (lobby/lsg.go):   *)
(* two bytes, then a bit stream that begins with a flag and two tagged     *)
(* integers and ends in a raw block, five bits before the end of a byte.   *)
(***************************************************************************)
EXTENDS BitStream

CONSTANTS
  Title,         \* BOZTitleID, as four bytes
  UsernameSize,  \* accountUsernameSize
  PasswordSize,  \* accountPasswordSize
  AuthBlobSize   \* lsgAuthBlobSize, and authTicketSize

ASSUME AuthSizes ==
  /\ Title \in [1..4 -> 0..255]
  /\ {UsernameSize, PasswordSize, AuthBlobSize} \subseteq Nat

\* bytes to bits and back
Unpacked(bytes) ==
  [i \in 1..ByteBits * Len(bytes) |->
     (bytes[(i - 1) \div ByteBits + 1] \div 2^((i - 1) % ByteBits)) % 2]

ByteAt(bits, i) ==
  LET bit(k) == 2^(k - 1) * bits[ByteBits * (i - 1) + k]
  IN  bit(1) + bit(2) + bit(3) + bit(4) + bit(5) + bit(6) + bit(7) + bit(8)
Packed(bits) == [i \in 1..Len(bits) \div ByteBits |-> ByteAt(bits, i)]

ReservedBytes == 4
BlockSignature == <<222, 173, 189, 239>>   \* accountBlockSignature
\* createAccountBlockSize
AccountBlockSize == Len(BlockSignature) + UsernameSize + PasswordSize + ReservedBytes

\* MessageCreateAccountRequest, MessageAccountForMMPRequest, LSGServiceID
MessageType == [account |-> 0, mmp |-> 10, login |-> 7]

\* tags and widths of what follows the flag
Tagged  == [tag |-> TypeTags.uint32, width |-> Widths.uint32]
Hash    == [tag |-> Untyped, width |-> Widths.uint64]
Raw(n)  == [tag |-> Untyped, width |-> ByteBits * n]

Items == [account |-> <<Tagged, Tagged, Hash, Raw(AccountBlockSize)>>,
          mmp     |-> <<Tagged, Tagged, Hash>>,
          login   |-> <<Tagged, Tagged, Raw(AuthBlobSize)>>]

\* which of the items is the title
TitleItem == [account |-> 2, mmp |-> 2, login |-> 1]

UnusedBits == 5

\* createAccountBodySize, accountForMMPRequestBodySize, lsgLoginBodySize
BodySize == [account |-> 20 + AccountBlockSize, mmp |-> 20, login |-> 12 + AuthBlobSize]

-----------------------------------------------------------------------------
AllZero(bytes) == \A i \in DOMAIN bytes : bytes[i] = 0

\* flag, then the items, each from where the one before ended
ReadItems(kind, bits) ==
  LET n == Len(Items[kind])
      read[i \in 0..n] ==
        IF i = 0 THEN Read(bits, 0, Untyped, 1)
        ELSE IF read[i - 1].error # "none" THEN read[i - 1]
        ELSE Read(bits, read[i - 1].next, Items[kind][i].tag, Items[kind][i].width)
  IN  [i \in 1..n + 1 |-> read[i - 1]]

\* The checks that the three parsers share: sizes, envelope, flag, title, and no
\* bits set behind the last item.
WellFormed(kind, body, read) ==
  LET last == read[Len(read)]
  IN  /\ last.error = "none"
      /\ read[1].bits = <<1>>
      /\ Packed(read[TitleItem[kind] + 1].bits) = Title
      /\ ByteBits * (Len(body) - 2) - last.next = UnusedBits
      /\ body[Len(body)] < 2^(ByteBits - UnusedBits)

-----------------------------------------------------------------------------
(* The block of a new account, and its name                                *)

Ends(field)    == {i \in DOMAIN field : field[i] = 0}
NameLength(field) ==
  IF Ends(field) = {} THEN Len(field)
  ELSE (CHOOSE i \in Ends(field) : \A j \in Ends(field) : i <= j) - 1

NothingBehind(field) == AllZero(SubSeq(field, NameLength(field) + 1, Len(field)))

Printable(byte) == byte \in 32..126

\* parsePaddedUsername
ValidName(field) ==
  /\ NothingBehind(field)
  /\ NameLength(field) > 0
  /\ \A i \in 1..NameLength(field) : Printable(field[i])

\* Decrypt3DESCBC with createAccountKey: external, as the cipher of the lobby's
\* envelope a bijection that depends on the seed
BlockShift(seed, i) == seed[1] + 3 * seed[2] + 5 * seed[3] + 7 * seed[4] + 11 * i
OpenedBlock(seed, block) ==
  [i \in DOMAIN block |-> (block[i] - BlockShift(seed, i)) % 256]
SealedBlock(seed, block) ==
  [i \in DOMAIN block |-> (block[i] + BlockShift(seed, i)) % 256]

NameField(block)     == SubSeq(block, 5, 4 + UsernameSize)
PasswordField(block) == SubSeq(block, 5 + UsernameSize, 4 + UsernameSize + PasswordSize)

ValidBlock(block) ==
  /\ SubSeq(block, 1, 4) = BlockSignature
  /\ ValidName(NameField(block))
  /\ AllZero(SubSeq(block, Len(block) - ReservedBytes + 1, Len(block)))

-----------------------------------------------------------------------------
Malformed == [kind |-> "refused"]

\* what each kind of body says, once its items are read
Meaning(kind, item) ==
  CASE kind = "account" ->
         LET block == OpenedBlock(item[1], item[4])
             name  == NameField(block)
         IN  IF AllZero(item[3]) /\ ValidBlock(block)
             THEN [kind |-> kind, seed |-> item[1], password |-> PasswordField(block),
                   username |-> SubSeq(name, 1, NameLength(name))]
             ELSE Malformed
    [] kind = "mmp"   -> [kind |-> kind, seed |-> item[1], hash |-> item[3]]
    [] kind = "login" -> IF AllZero(item[3]) THEN [kind |-> kind, seed |-> item[2]]
                         ELSE Malformed

\* ParseCreateAccountBody, ParseAccountForMMPBody, and ParseLSGLoginBody with the
\* lobby's check of the blob
ParseAuthBody(kind, body) ==
  IF ~(Len(body) = BodySize[kind] /\ body[1] = 0 /\ body[2] = MessageType[kind])
  THEN Malformed
  ELSE LET read == ReadItems(kind, Unpacked(SubSeq(body, 3, Len(body))))
       IN  IF WellFormed(kind, body, read)
           THEN Meaning(kind, [i \in DOMAIN Items[kind] |-> Packed(read[i + 1].bits)])
           ELSE Malformed

-----------------------------------------------------------------------------
\* Values behind some first bits, through the bit writer.
WriteItems(first, items, values) ==
  LET stream[i \in 0..Len(items)] ==
        IF i = 0 THEN [data |-> Put(<<>>, 0, first), offset |-> Len(first)]
        ELSE LET bits == TagOf(items[i].tag) \o Unpacked(values[i])
                 so   == stream[i - 1]
             IN  [data |-> Put(so.data, so.offset, bits), offset |-> so.offset + Len(bits)]
  IN  Packed(stream[Len(items)].data)

\* The client's side, as the tests of src/ build requests.
AccountBlock(request) ==
  BlockSignature \o request.username
    \o [i \in 1..UsernameSize - Len(request.username) |-> 0]
    \o request.password \o [i \in 1..ReservedBytes |-> 0]

ItemValues(request, block) ==
  CASE request.kind = "account" ->
         <<request.seed, Title, [i \in 1..8 |-> 0], SealedBlock(request.seed, block)>>
    [] request.kind = "mmp"     -> <<request.seed, Title, request.hash>>
    [] request.kind = "login"   -> <<Title, request.seed, [i \in 1..AuthBlobSize |-> 0]>>

AuthBody(request, block) ==
  <<0, MessageType[request.kind]>>
    \o WriteItems(<<1>>, Items[request.kind], ItemValues(request, block))

-----------------------------------------------------------------------------
(* Replies: an untagged byte, the flag, a tagged status; after a login to  *)
(* the matchmaking service also the ticket's seed and the ticket.          *)

\* MessageCreateAccountReply, MessageAccountForMMPReply
ReplyType == [account |-> 1, mmp |-> 11]

ReplyItems == [status |-> <<Tagged>>, ticket |-> <<Tagged, Tagged, Raw(AuthBlobSize)>>]

MarshalReply(kind, items, values) ==
  <<0>> \o WriteItems(Bits(ReplyType[kind], ByteBits) \o <<1>>, items, values)

\* marshalStatusReplyBody
StatusReply(kind, status) == MarshalReply(kind, ReplyItems.status, <<status>>)

\* marshalAccountForMMPSuccessBody
TicketReply(noError, seed, ticket) ==
  MarshalReply("mmp", ReplyItems.ticket, <<noError, seed, ticket>>)
=============================================================================
