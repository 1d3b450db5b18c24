------------------------------ MODULE Requests ------------------------------
(***************************************************************************)
(* One request on its way: a client writes it, seals it, the body arrives  *)
(* and is parsed by the service it is for, which answers.  A client with a *)
(* bug alters what it seals, a defective path alters what it sent: a bit   *)
(* is flipped, bytes at the end are missing or repeated.                   *)
(***************************************************************************)
EXTENDS LobbyMessages, AuthMessages, Stun

CONSTANTS
  Requests,        \* what clients ask for, also beyond the limits
  Outcomes,        \* kind -> what the service may have to say to such a request
  Transaction,     \* the transaction the lobby's connection is at
  MaxAlterations   \* bound

LobbyRequest(r) == r.kind \in LobbyKinds
AuthRequest(r)  == r.kind \in {"account", "mmp"}

\* What a client's values can be, on or beyond the limits: bytes, in strings no NUL,
\* as many as the type says where it says so.
InType(field, value) ==
  /\ value \in Seq(IF field.type = "string" THEN 1..255 ELSE 0..255)
  /\ field.type \in DOMAIN Size => Len(value) = Size[field.type]
  /\ Len(value) <= MaxInt32

FourBytes(seed) == seed \in Seq(0..255) /\ Len(seed) = 4

LobbyForm(r) ==
  /\ r = [kind |-> r.kind, seed |-> r.seed, values |-> r.values]
  /\ FourBytes(r.seed) /\ r.values \in Seq(Seq(0..255))
  /\ Len(r.values) = Len(Fields[r.kind])
  /\ \A i \in DOMAIN r.values : InType(Fields[r.kind][i], r.values[i])

AccountForm(r) ==
  /\ r = [kind |-> "account", seed |-> r.seed, username |-> r.username,
          password |-> r.password]
  /\ FourBytes(r.seed) /\ r.username \in Seq(0..255)
  /\ r.password \in Seq(0..255) /\ Len(r.password) = PasswordSize

MmpForm(r) ==
  /\ r = [kind |-> "mmp", seed |-> r.seed, hash |-> r.hash]
  /\ FourBytes(r.seed) /\ r.hash \in Seq(0..255) /\ Len(r.hash) = 8

LoginForm(r) == r = [kind |-> "login", seed |-> r.seed] /\ FourBytes(r.seed)

BindingForm(r) ==
  /\ r = [kind |-> "binding", transaction |-> r.transaction, change |-> r.change]
  /\ r.transaction \in Seq(0..255) /\ Len(r.transaction) = 16
  /\ r.change \in DOMAIN FlagBytes

ASSUME RequestForms ==
  /\ MaxAlterations \in Nat
  /\ \A r \in Requests :
       \/ LobbyRequest(r) /\ LobbyForm(r)
       \/ r.kind = "account" /\ AccountForm(r)
       \/ r.kind = "mmp" /\ MmpForm(r)
       \/ r.kind = "login" /\ LoginForm(r)
       \/ r.kind = "binding" /\ BindingForm(r)

WithinLimits(fields, values) ==
  \A i \in DOMAIN fields :
    fields[i].type \in {"string", "blob"} => Len(values[i]) <= fields[i].max

\* What the services have to say: matches as they were accepted, on a page of at
\* most MaxFind, a status, a ticket with its seed, a connection's ID, an endpoint.
MatchForm(values) ==
  /\ values \in Seq(Seq(0..255)) /\ Len(values) = Len(ResultFields)
  /\ \A i \in DOMAIN values : InType(ResultFields[i], values[i])
  /\ WithinLimits(ResultFields, values)

PageForm(o) ==
  /\ o.id \in Seq(0..255) /\ Len(o.id) = SessionIDSize /\ o.total \in Nat
  /\ o.results \in Seq(Seq(Seq(0..255))) /\ Len(o.results) <= MaxFind
  /\ \A i \in DOMAIN o.results : MatchForm(o.results[i])

NoError == Word(700)   \* StatusNoError

TicketForm(o) ==
  /\ FourBytes(o.status)
  /\ o.status = NoError => /\ FourBytes(o.seed)
                           /\ o.ticket \in Seq(0..255) /\ Len(o.ticket) = AuthBlobSize

EndpointForm(o) ==
  /\ o.ip \in Seq(0..255) /\ Len(o.ip) = 4
  /\ o.port \in Seq(0..255) /\ Len(o.port) = 2

ASSUME OutcomeForms ==
  /\ Transaction \in Seq(0..255) /\ Len(Transaction) = 8
  /\ \A kind \in LobbyKinds : \A o \in Outcomes[kind] : PageForm(o)
  /\ \A o \in Outcomes["account"] : FourBytes(o)
  /\ \A o \in Outcomes["mmp"] : TicketForm(o)
  /\ \A o \in Outcomes["login"] : o \in Seq(0..255) /\ Len(o) = 8
  /\ \A o \in Outcomes["binding"] : EndpointForm(o)

VARIABLES
  stage,        \* "new", "written", "sealed", "parsed", "answered"
  request,      \* what the client asks for
  plain,        \* what it is going to seal, where it seals anything
  body,         \* the body on its way
  alterations,  \* history: how often something was altered
  verdict,      \* the request as the server understood it, or its refusal
  outcome,      \* what the service has to say
  answer        \* what it wrote back, <<>> for nothing

requestVars ==
  <<stage, request, plain, body, alterations, verdict, outcome, answer>>

Unset == [kind |-> "none"]

RequestInit ==
  /\ stage = "new" /\ request \in Requests
  /\ plain = <<>> /\ body = <<>> /\ alterations = 0
  /\ verdict = Unset /\ outcome = <<>> /\ answer = <<>>

-----------------------------------------------------------------------------
\* the byte with one of its bits flipped
Flipped(byte, k) == IF (byte \div 2^k) % 2 = 1 THEN byte - 2^k ELSE byte + 2^k

Flips(bytes) == {[bytes EXCEPT ![i] = Flipped(bytes[i], k)] :
                   i \in 1..Len(bytes), k \in 0..7}

\* one byte or one block of the cipher missing at the end, or the last byte as often again
Cuts(bytes) == {SubSeq(bytes, 1, Len(bytes) - k) : k \in {1, BlockSize} \cap 0..Len(bytes)}

Repeats(bytes) == {bytes \o [i \in 1..k |-> bytes[Len(bytes)]] : k \in {1, BlockSize}}

Altered(bytes) == Flips(bytes) \cup Cuts(bytes) \cup IF bytes = <<>> THEN {} ELSE Repeats(bytes)

-----------------------------------------------------------------------------
(* The client                                                              *)

PlainOf(r) ==
  CASE LobbyRequest(r)     -> Payload(r)
    [] r.kind = "account"  -> AccountBlock(r)
    [] OTHER               -> <<>>

BodyOf(r, sealed) ==
  CASE LobbyRequest(r)     -> Sealed(r, sealed)
    [] r.kind = "binding"  -> BindingPacket(r)
    [] OTHER               -> AuthBody(r, sealed)

Write ==
  /\ stage = "new" /\ stage' = "written"
  /\ plain' = PlainOf(request)
  /\ UNCHANGED <<request, body, alterations, verdict, outcome, answer>>

Slip ==
  /\ stage = "written" /\ alterations < MaxAlterations
  /\ plain' \in Altered(plain)
  /\ alterations' = alterations + 1
  /\ UNCHANGED <<stage, request, body, verdict, outcome, answer>>

Seal ==
  /\ stage = "written" /\ stage' = "sealed"
  /\ body' = BodyOf(request, plain)
  /\ UNCHANGED <<request, plain, alterations, verdict, outcome, answer>>

Damage ==
  /\ stage = "sealed" /\ alterations < MaxAlterations
  /\ body' \in Altered(body)
  /\ alterations' = alterations + 1
  /\ UNCHANGED <<stage, request, plain, verdict, outcome, answer>>

-----------------------------------------------------------------------------
(* The server                                                              *)

\* HandleTCP of the authentication service goes by the second byte
AuthDispatch ==
  LET kinds == {k \in {"account", "mmp"} : MessageType[k] = body[2]}
  IN  IF Len(body) < 2 THEN Malformed
      ELSE IF kinds = {} THEN Malformed
      ELSE ParseAuthBody(CHOOSE k \in kinds : TRUE, body)

Parsed ==
  CASE LobbyRequest(request)     -> ParseLobbyBody(body)
    [] AuthRequest(request)      -> AuthDispatch
    [] request.kind = "login"    -> ParseAuthBody("login", body)
    [] request.kind = "binding"  -> ParseBindingRequest(body)

Answer(r, o) ==
  CASE LobbyRequest(r)     -> LobbyReply(r.kind, Transaction, o.id, o.results, o.total)
    [] r.kind = "account"  -> StatusReply(r.kind, o)
    [] r.kind = "mmp"      -> IF o.status = NoError
                              THEN TicketReply(NoError, o.seed, o.ticket)
                              ELSE StatusReply(r.kind, o.status)
    [] r.kind = "login"    -> ConnectionIDBody(o)
    [] r.kind = "binding"  -> IF Responds(r, o) THEN Response(r, o) ELSE <<>>

\* the parser returns the request or an error, on which the service hangs up
Parse ==
  /\ stage = "sealed" /\ stage' = "parsed"
  /\ verdict' = Parsed
  /\ UNCHANGED <<request, plain, body, alterations, outcome, answer>>

Reply ==
  /\ stage = "parsed" /\ verdict.kind # "refused" /\ stage' = "answered"
  /\ outcome' \in Outcomes[verdict.kind] /\ answer' = Answer(verdict, outcome')
  /\ UNCHANGED <<request, plain, body, alterations, verdict>>

RequestNext == Write \/ Slip \/ Seal \/ Damage \/ Parse \/ Reply

RequestSpec == RequestInit /\ [][RequestNext]_requestVars

-----------------------------------------------------------------------------
(* Properties                                                              *)

\* what the protocol allows, by the limits alone
LegalLobby(r) == WithinLimits(Fields[r.kind], r.values) /\ Supported(r.kind, r.values)

Legal(r) ==
  CASE LobbyRequest(r)     -> LegalLobby(r)
    [] r.kind = "account"  -> /\ Len(r.username) \in 1..UsernameSize
                              /\ \A i \in DOMAIN r.username : Printable(r.username[i])
    [] OTHER               -> TRUE

\* how a client reads a task reply: its head, the total, a session ID or the matches
TaskHead  == ReadFields(answer, 2, ReplyFields)
TaskTotal == ReadFixed(answer, TaskHead.next, "uint32")

Matches(count) ==
  LET read[i \in 0..count] ==
        IF i = 0 THEN TaskTotal ELSE ReadFields(answer, read[i - 1].next, ResultFields)
  IN  [i \in 1..count |-> read[i].value]

SaysOfTask(r, o) ==
  LET count == CASE r.kind = "create" -> 1 [] r.kind = "find" -> Len(o.results)
                 [] OTHER -> 0
  IN  /\ TaskHead.value = <<Transaction, Word(0), <<Task[r.kind]>>, Word(count)>>
      /\ r.kind = "create" =>
           /\ TaskTotal.value = Word(1)
           /\ ReadBlob(answer, TaskTotal.next, SessionIDSize).value = o.id
      /\ r.kind = "find" /\ count > 0 =>
           /\ TaskTotal.value = Word(o.total)
           /\ Matches(Number(TaskHead.value[4])) = o.results

\* the bit stream of a clear reply, and its items behind its type and flag
Stream   == Unpacked(SubSeq(answer, 2, Len(answer)))
Item(at) == Packed(Read(Stream, at, TypeTags.uint32, 32).bits)

SaysOfAccount(status) == Item(9) = status

SaysOfTicket(o) ==
  /\ Item(9) = o.status
  /\ o.status = NoError =>
       /\ Item(46) = o.seed
       /\ Packed(Read(Stream, 83, Untyped, ByteBits * AuthBlobSize).bits) = o.ticket

SaysOfPeer(r, peer) ==
  answer # <<>> => /\ SubSeq(answer, 5, 20) = r.transaction
                   /\ SubSeq(answer, 27, 28) = peer.port /\ SubSeq(answer, 29, 32) = peer.ip

AnswerSays(r, o) ==
  CASE LobbyRequest(r)     -> SaysOfTask(r, o)
    [] r.kind = "account"  -> SaysOfAccount(o)
    [] r.kind = "mmp"      -> SaysOfTicket(o)
    [] r.kind = "login"    -> ReadFixed(answer, 2, "uint64").value = o
    [] r.kind = "binding"  -> SaysOfPeer(r, o)

Accepted == stage = "parsed" /\ verdict.kind # "refused"

\* A client that keeps to the limits, at the limits too, is understood: the server
\* reads the request that was meant, and the client reads out of the answer what
\* the service had to say.
RequestUnderstood == stage = "parsed" /\ alterations = 0 /\ Legal(request) => verdict = request
AnswerUnderstood  == stage = "answered" => AnswerSays(verdict, outcome)
Understood == RequestUnderstood /\ AnswerUnderstood

\* Whatever happened to a request, what the server takes it for is within the
\* limits and has no other form: no byte and no bit of an accepted body is
\* without a meaning, and no two bodies mean the same.
OnlyCanonical ==
  Accepted => Legal(verdict) /\ body = BodyOf(verdict, PlainOf(verdict))
=============================================================================
