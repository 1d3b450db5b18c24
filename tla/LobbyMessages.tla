--------------------------- MODULE LobbyMessages ---------------------------
(***************************************************************************)
(* The messages of the lobby protocol: the encrypted envelope of a request *)
(* (lobby/envelope.go), the requests of the three services inside it       *)
(* (matchmaking.go, messaging.go, eventlog.go), and the clear replies to   *)
(* them.  Bodies are sequences of bytes at their real positions.           *)
(***************************************************************************)
EXTENDS ByteBuffer

CONSTANTS
  MaxHost,      \* maxHostAddressSize
  MaxText,      \* maxMatchmakingTextBytes
  MaxFind,      \* maxFindResults
  MaxMessage,   \* maxMessagingMessageBytes
  MaxEventBlob  \* defaultMaxEventBlob

ASSUME LobbyLimits ==
  \A limit \in {MaxHost, MaxText, MaxFind, MaxMessage, MaxEventBlob} :
    limit \in Nat /\ limit <= MaxInt32

HeaderSize    == 5   \* encryptedEnvelopeHeaderSize
BlockSize     == 8   \* TripleDESBlockSize
HMACSize      == 4   \* TruncatedHMACSize
SessionIDSize == 8   \* matchmakingSessionIDSize
ReservedSize  == 200 \* reservedClearTaskReplyBodySize

Refused == [kind |-> "refused"]

-----------------------------------------------------------------------------
(* Requests                                                                *)

Service == [log |-> 67, create |-> 21, update |-> 21, delete |-> 21, find |-> 21,
            message |-> 6]
Task    == [log |-> 2, create |-> 1, update |-> 2, delete |-> 3, find |-> 5,
            message |-> 14]

LobbyKinds == DOMAIN Task

\* readMatchmakingAttributes
AttributeFields ==
  <<Field("uint32"), Field("uint32"), Field("uint64"), Limited("string", MaxText),
    Field("uint32"), Field("uint32"), Field("int32")>>

\* readMatchmakingRequestInfo
InfoFields ==
  <<Limited("blob", MaxHost), Field("uint32"), Field("uint32")>> \o AttributeFields

SessionIDField == Limited("blob", SessionIDSize)

\* number of parameters, offset, limit, key and value of the query
FindFields == <<Field("uint32"), Field("uint32"), Field("uint32"), Field("uint32"),
                Field("int32")>>

Fields ==
  [log     |-> <<Limited("blob", MaxEventBlob), Field("uint32")>>,
   create  |-> InfoFields,
   update  |-> <<SessionIDField>> \o InfoFields,
   delete  |-> <<SessionIDField>>,
   find    |-> FindFields,
   message |-> <<Field("uint64"), Limited("blob", MaxMessage)>>]

-----------------------------------------------------------------------------
(***************************************************************************)
(* Variant with a plausible bug.  Nothing uses it: it stands in for a      *)
(* definition below to show that a property notices the difference.        *)
(***************************************************************************)
\* the fill of the padding is not looked at
AnyFill(padding, seed) ==
  Len(padding) \in 1..BlockSize /\ padding[1] = 0

-----------------------------------------------------------------------------
\* validClientRequestPadding: a zero, then copies of the seed's low byte
ValidPadding(padding, seed) ==
  /\ Len(padding) \in 1..BlockSize
  /\ padding[1] = 0
  /\ \A i \in 2..Len(padding) : padding[i] = seed[1]

\* what the parsers check beyond the fields' types and limits
Supported(kind, values) ==
  /\ kind = "find" => values[1] = Word(1) /\ AtMost(values[3], MaxFind)
  /\ kind \in {"update", "delete"} => Len(values[1]) = SessionIDSize

WholeBlocks(payload) == (Len(payload) + HMACSize + 1) % BlockSize = 0

\* parseEventLogRequest, parseMatchmakingRequest and parseMessagingRequest
ParseRequest(service, payload, seed) ==
  LET task   == ReadFixed(payload, 0, "uint8")
      kinds  == {k \in LobbyKinds : Service[k] = service /\ task.value = <<Task[k]>>}
      kind   == CHOOSE k \in kinds : TRUE
      fields == ReadFields(payload, task.next, Fields[kind])
      rest   == SubSeq(payload, fields.next + 1, Len(payload))
  IN  IF /\ task.ok /\ kinds # {}
         /\ kind = "message" => WholeBlocks(payload)
         /\ fields.ok /\ Supported(kind, fields.value)
         /\ ValidPadding(rest, seed)
      THEN [kind |-> kind, seed |-> seed, values |-> fields.value]
      ELSE Refused

-----------------------------------------------------------------------------
(***************************************************************************)
(* The envelope.  3DES in CBC mode and the truncated HMAC are external:    *)
(* the one is a bijection of whole blocks that depends on key and seed,    *)
(* the other a function of the payload.  A shift of each byte stands for   *)
(* the one, its length and ends for the other: most alterations of a body  *)
(* then reach the parsers as an alteration of the same byte, where the     *)
(* real ones would hardly let any through.                                 *)
(***************************************************************************)
Mask(seed, i) == seed[1] + 3 * seed[2] + 5 * seed[3] + 7 * seed[4] + i

Encrypt(seed, plaintext) ==
  [i \in DOMAIN plaintext |-> (plaintext[i] + Mask(seed, i)) % 256]
Decrypt(seed, ciphertext) ==
  [i \in DOMAIN ciphertext |-> (ciphertext[i] - Mask(seed, i)) % 256]

HMAC(payload) ==
  IF payload = <<>> THEN Zeros(HMACSize)
  ELSE <<payload[1], payload[Len(payload)], Len(payload) % 256, 0>>

\* decryptRequestBody, then the parser of the service
ParseLobbyBody(body) ==
  LET seed      == SubSeq(body, 2, HeaderSize)
      plaintext == Decrypt(seed, SubSeq(body, HeaderSize + 1, Len(body)))
      payload   == SubSeq(plaintext, HMACSize + 2, Len(plaintext))
  IN  IF /\ Len(body) >= HeaderSize + BlockSize /\ body[1] = 1
         /\ (Len(body) - HeaderSize) % BlockSize = 0
         /\ SubSeq(plaintext, 1, HMACSize) = HMAC(payload)
      THEN ParseRequest(plaintext[HMACSize + 1], payload, seed)
      ELSE Refused

\* The client's side, as the tests of src/ build requests: the payload ends in
\* padding up to a whole block, of at least one byte.
Payload(request) ==
  LET plain == WriteFixed("uint8", <<Task[request.kind]>>)
                 \o WriteFields(Fields[request.kind], request.values)
      short == (Len(plain) + HMACSize + 1) % BlockSize
  IN  plain \o <<0>> \o [i \in 1..BlockSize - short - 1 |-> request.seed[1]]

Sealed(request, payload) ==
  <<1>> \o request.seed
    \o Encrypt(request.seed, HMAC(payload) \o <<Service[request.kind]>> \o payload)

-----------------------------------------------------------------------------
(* Replies                                                                 *)

ReplyMark == <<1>>   \* taskReplyMessage

\* transaction, error code, task and count of results; when it is not zero,
\* their total
ReplyFields == <<Field("uint64"), Field("uint32"), Field("uint8"), Field("uint32")>>

\* marshalTaskReply
TaskReply(transaction, task, count, total) ==
  ReplyMark \o WriteFields(ReplyFields, <<transaction, Word(0), <<task>>, Word(count)>>)
    \o (IF count = 0 THEN <<>> ELSE WriteFixed("uint32", Word(total)))

\* writeMatchmakingResult: the host, the session ID, game type, maximum and number
\* of players, and the attributes
ResultFields ==
  <<Limited("blob", MaxHost), SessionIDField, Field("uint32"), Field("uint32"),
    Field("uint32")>> \o AttributeFields

\* a frame may not have the size that marks a buffer record
Enlarged(body) == IF Len(body) = ReservedSize THEN Append(body, 0) ELSE body

\* marshalClearTaskReplyBody
ReplyBody(logical) == Enlarged(<<0>> \o logical)

\* handleMatchmaking and the two other services: what they reply to a request,
\* given the session ID of a created match, the page of matches found and their total
LobbyReply(kind, transaction, sessionID, results, total) ==
  ReplyBody(
    CASE kind = "create" -> TaskReply(transaction, Task[kind], 1, 1) \o WriteBlob(sessionID)
      [] kind = "find"   -> TaskReply(transaction, Task[kind], Len(results), total)
                              \o FlattenSeq([i \in DOMAIN results |->
                                               WriteFields(ResultFields, results[i])])
      [] OTHER           -> TaskReply(transaction, Task[kind], 0, 0))

-----------------------------------------------------------------------------
(* Pushes                                                                  *)

\* PadTo3DESBlock
BlockPadded(plain) == plain \o Zeros((BlockSize - (Len(plain) % BlockSize)) % BlockSize)

PushMark == <<239, 190, 173, 222, 2>>   \* serverReplySignature, pushMessageType

PushFields(maxName) == <<Field("uint32"), Field("uint64"), Limited("string", maxName),
                         Limited("blob", MaxMessage)>>

\* marshalGlobalInstantMessagePush
Push(maxName, seed, sender, name, message) ==
  <<1>> \o seed
    \o Encrypt(seed, BlockPadded(PushMark \o
         WriteFields(PushFields(maxName), <<Word(21), sender, name, message>>)))

\* writeConnectionID
ConnectionIDBody(connectionID) == <<0, 4>> \o WriteFixed("uint64", connectionID)
=============================================================================
