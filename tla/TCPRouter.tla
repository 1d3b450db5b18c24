----------------------------- MODULE TCPRouter -----------------------------
(***************************************************************************)
(* The first bytes of a connection: the router peeks at them without       *)
(* consuming any (backend/router.go) and picks the service, which then     *)
(* reads the same bytes again as records (ReadTransportRecord of           *)
(* bitdemon/frame.go) with a limit of its own.  Of the two services this   *)
(* module goes on with the authentication handler (HandleTCP of            *)
(* auth/handler.go); the lobby's loop is in the module Lobby.              *)
(*                                                                         *)
(* The stream is a sequence of 32-bit words that arrive one by one.  A     *)
(* word is read as the size of a body in bytes, or, as the first of a      *)
(* body, for its two low bytes: the encryption flag and the message type.  *)
(***************************************************************************)
EXTENDS Integers, Sequences, FiniteSets

CONSTANTS
  Words,       \* the words that may arrive
  MaxSent,     \* bound: words of a connection
  MaxLeading,  \* maxLeadingControlRecords
  MaxRecords   \* config.MaxRecords of the authentication handler

Keepalive       == 0        \* LobbyKeepaliveBodyLen
Marker          == 200      \* BufferAvailableRecordMarker
MaxInitialBody  == 256      \* maxInitialFrameBody
MaxFrameBody    == 1048576  \* DefaultMaxFrameBody
CreateAccount   == 0        \* MessageCreateAccountRequest
AccountForMMP   == 10       \* MessageAccountForMMPRequest
LSGService      == 7        \* LSGServiceID

AuthTypes == {CreateAccount, AccountForMMP}

Flag(w)        == w % 256
MessageType(w) == (w \div 256) % 256

ASSUME RouterAssumption ==
  /\ Words \subseteq Nat
  /\ \A w \in Words : w % 4 = 0
  /\ MaxSent \in Nat /\ MaxLeading \in Nat /\ MaxRecords \in Nat \ {0}

VARIABLES
  sent,          \* the words that have arrived
  closed,        \* the client has closed its side
  stage,         \* who has the connection: "router", "auth" or "lobby"
  outcome,       \* why it is over: "eof", "timeout", "unsupported",
                 \* "tooManyControls", "recordLimit", "protocol" (a frame is
                 \* refused), "writeFailed", "shutdown"; "none" before
  offset,        \* router: the words peeked at and skipped
  controlCount,  \* router: the control records among them
  pos,           \* handler: the words consumed
  recordIndex,   \* handler: the records they made
  served,        \* handler: requests answered
  replies        \* handler: frames written, answers to keepalives included

input   == <<sent, closed>>
routing == <<offset, controlCount>>
reading == <<pos, recordIndex, served, replies>>
routerVars == <<input, stage, outcome, routing, reading>>

RouterInit ==
  /\ sent = <<>> /\ closed = FALSE
  /\ stage = "router" /\ outcome = "none"
  /\ offset = 0 /\ controlCount = 0
  /\ pos = 0 /\ recordIndex = 0 /\ served = 0 /\ replies = 0

\* the words of a record whose prefix is w, and those of a frame's body
BodyWords(w) == w \div 4
RecordWords(w) ==
  IF w = Keepalive THEN 1 ELSE IF w = Marker THEN 2 ELSE 1 + BodyWords(w)

Ends(why) == outcome' = why /\ UNCHANGED stage
GoesTo(service) == stage' = service /\ UNCHANGED outcome

-----------------------------------------------------------------------------
(***************************************************************************)
(* Variants with a plausible bug.  No action uses them: each stands in for *)
(* a definition below to show that a property notices the difference.      *)
(***************************************************************************)
\* the router skips the marker but not the value after it
PrefixOnly(w) == 1

\* the handler leaves the value of a buffer record in the stream
ValueLeft == 1

\* the handler counts from one
LimitOneUnder == recordIndex = MaxRecords - 1

-----------------------------------------------------------------------------
(* The client                                                              *)

Send(w) ==
  /\ ~closed /\ outcome = "none" /\ stage # "lobby" /\ Len(sent) < MaxSent
  /\ sent' = Append(sent, w)
  /\ UNCHANGED <<closed, stage, outcome, routing, reading>>

Close ==
  /\ ~closed
  /\ closed' = TRUE
  /\ UNCHANGED <<sent, stage, outcome, routing, reading>>

-----------------------------------------------------------------------------
(* The router                                                              *)

Routing == stage = "router" /\ outcome = "none"

\* Peek as far as n words beyond the offset succeeds
Peeked(n) == Len(sent) >= offset + n

Size == sent[offset + 1]
FirstWord == sent[offset + 2]

Skipped(w) == IF w = Marker THEN 2 ELSE 1

ControlsExhausted == controlCount = MaxLeading

SkipControl ==
  /\ Routing /\ Peeked(1) /\ Size \in {Keepalive, Marker}
  /\ offset' = offset + Skipped(Size)
  /\ controlCount' = controlCount + 1
  /\ IF ControlsExhausted
     THEN Ends("tooManyControls")
     ELSE UNCHANGED <<stage, outcome>>
  /\ UNCHANGED <<input, reading>>

InitialFrame == Peeked(1) /\ Size \notin {Keepalive, Marker}
Acceptable == 2 <= Size /\ Size <= MaxInitialBody

SizeRefused ==
  /\ Routing /\ InitialFrame /\ ~Acceptable
  /\ Ends("unsupported")
  /\ UNCHANGED <<input, routing, reading>>

EncryptedRefused ==
  /\ Routing /\ InitialFrame /\ Acceptable
  /\ Peeked(2) /\ Flag(FirstWord) # 0
  /\ Ends("unsupported")
  /\ UNCHANGED <<input, routing, reading>>

Route ==
  /\ Routing /\ InitialFrame /\ Acceptable
  /\ Peeked(2) /\ Flag(FirstWord) = 0
  /\ Peeked(1 + BodyWords(Size))
  /\ CASE MessageType(FirstWord) \in AuthTypes -> GoesTo("auth")
       [] MessageType(FirstWord) = LSGService -> GoesTo("lobby")
       [] OTHER -> Ends("unsupported")
  /\ UNCHANGED <<input, routing, reading>>

-----------------------------------------------------------------------------
(* The authentication handler                                              *)

LimitReached == recordIndex = MaxRecords

Reading == stage = "auth" /\ outcome = "none" /\ ~LimitReached

\* ReadFull finds n words that were not consumed yet
Arrived(n) == Len(sent) >= pos + n

Prefix == sent[pos + 1]

Consumed(n) == pos' = pos + n /\ recordIndex' = recordIndex + 1

RecordLimit ==
  /\ stage = "auth" /\ outcome = "none" /\ LimitReached
  /\ Ends("recordLimit")
  /\ UNCHANGED <<input, routing, reading>>

AnswerKeepalive ==
  /\ Reading /\ Arrived(1) /\ Prefix = Keepalive
  /\ Consumed(1)
  /\ replies' = replies + 1
  /\ UNCHANGED <<input, stage, outcome, routing, served>>

BufferWords == 2
BufferReplies == replies

BufferAvailable ==
  /\ Reading /\ Arrived(2) /\ Prefix = Marker
  /\ Consumed(BufferWords)
  /\ replies' = BufferReplies
  /\ UNCHANGED <<input, stage, outcome, routing, served>>

\* a frame that ReadTransportRecord returns
FrameRead ==
  /\ Reading /\ Arrived(1) /\ Prefix \notin {Keepalive, Marker}
  /\ Prefix <= MaxFrameBody
  /\ Arrived(1 + BodyWords(Prefix))

\* a create-account or account-for-MMP request that parses and is answered
Serve ==
  /\ FrameRead
  /\ Flag(sent[pos + 2]) = 0 /\ MessageType(sent[pos + 2]) \in AuthTypes
  /\ Consumed(1 + BodyWords(Prefix))
  /\ served' = served + 1 /\ replies' = replies + 1
  /\ UNCHANGED <<input, stage, outcome, routing>>

\* a frame of another type, one that does not parse, or one whose account or
\* ticket the stores refuse with an error
FrameRefused ==
  /\ FrameRead
  /\ Ends("protocol")
  /\ UNCHANGED <<input, routing, reading>>

FrameTooLarge ==
  /\ Reading /\ Arrived(1) /\ Prefix > MaxFrameBody
  /\ Ends("protocol")
  /\ UNCHANGED <<input, routing, reading>>

\* the answer to a keepalive or to a request cannot be written
WriteFails ==
  /\ (Reading /\ Arrived(1) /\ Prefix = Keepalive) \/ FrameRead
  /\ Ends("writeFailed")
  /\ UNCHANGED <<input, routing, reading>>

-----------------------------------------------------------------------------
\* the next step needs words that have not arrived
RouterBlocked ==
  \/ ~Peeked(1)
  \/ InitialFrame /\ Acceptable /\ ~Peeked(2)
  \/ /\ InitialFrame /\ Acceptable /\ Peeked(2)
     /\ Flag(FirstWord) = 0 /\ ~Peeked(1 + BodyWords(Size))

ReaderBlocked ==
  \/ ~Arrived(1)
  \/ Arrived(1) /\ Prefix <= MaxFrameBody /\ ~Arrived(RecordWords(Prefix))

Blocked == (Routing /\ RouterBlocked) \/ (Reading /\ ReaderBlocked)

EndOfStream ==
  /\ Blocked /\ closed
  /\ Ends("eof")
  /\ UNCHANGED <<input, routing, reading>>

\* what the router peeked at to the end of the first frame is buffered
Buffered == offset + 1 + BodyWords(Size)

\* The router's deadline, then the handler's: a read that goes to the socket
\* fails once it is past, though words may be waiting there.
Deadline ==
  /\ Routing \/ (Reading /\ (pos >= Buffered \/ ReaderBlocked))
  /\ Ends("timeout")
  /\ UNCHANGED <<input, routing, reading>>

\* The server shuts down: the handler sees its context cancelled before it reads
\* the next record, or a read fails on the socket that was closed under it.  A
\* record that was being read when the context was cancelled may still be served.
ShutDown ==
  /\ Routing \/ Reading
  /\ Ends("shutdown")
  /\ UNCHANGED <<input, routing, reading>>

RouterNext ==
  \/ Close \/ (\E w \in Words : Send(w))
  \/ SkipControl \/ SizeRefused \/ EncryptedRefused \/ Route
  \/ RecordLimit \/ AnswerKeepalive \/ BufferAvailable \/ Serve \/ FrameRefused
  \/ FrameTooLarge \/ WriteFails
  \/ EndOfStream \/ Deadline \/ ShutDown

RouterSpec == RouterInit /\ [][RouterNext]_routerVars

-----------------------------------------------------------------------------
(* Properties, against a reference reading of the stream                   *)

\* the places in a stream of words at which a record begins or the last one ends
StartsOf(words) ==
  LET begins[i \in 0..Len(words)] ==
        i = 0 \/ \E j \in 0..i - 1 : begins[j] /\ i = j + RecordWords(words[j + 1])
  IN  {i \in 0..Len(words) : begins[i]}

starts == StartsOf(sent)

RecordsIn(n) == {i \in starts : i < n}
ControlAt(i) == sent[i + 1] \in {Keepalive, Marker}

\* where the first frame begins
FirstFrame(i) == i \in starts /\ i < Len(sent) /\ ~ControlAt(i)
                 /\ \A j \in RecordsIn(i) : ControlAt(j)

\* The router and the reader of records never disagree: the frame by which the
\* service was picked is the first one that service will read, it has arrived
\* to its end, and no more control records precede it than the router allows.
RoutedAsRead ==
  stage \in {"auth", "lobby"} =>
    \E i \in starts :
      /\ FirstFrame(i)
      /\ i + RecordWords(sent[i + 1]) \in starts
      /\ Flag(sent[i + 2]) = 0
      /\ MessageType(sent[i + 2]) \in IF stage = "auth" THEN AuthTypes ELSE {LSGService}
      /\ Cardinality(RecordsIn(i)) <= MaxLeading

\* The handler stays on record boundaries and answers each keepalive and each
\* request it consumes with one frame, buffer records with none.
AnsweredExactly ==
  /\ pos \in starts
  /\ recordIndex = Cardinality(RecordsIn(pos))
  /\ served = Cardinality({i \in RecordsIn(pos) : ~ControlAt(i)})
  /\ replies = Cardinality({i \in RecordsIn(pos) : sent[i + 1] # Marker})

\* The request by which a connection came to the authentication handler is not
\* lost on the way: unless the server shuts down or the answer to a record cannot
\* be written, the handler answers it or refuses it.  No deadline, no end of the
\* stream comes first; only the handler's own record limit can, and only when the
\* router let through as many control records as that limit.
RequestReached ==
  stage = "auth" /\ served = 0 /\ outcome \notin {"none", "protocol", "writeFailed", "shutdown"} =>
    outcome = "recordLimit" /\ controlCount >= MaxRecords
=============================================================================
