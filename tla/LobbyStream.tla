---------------------------- MODULE LobbyStream ----------------------------
(***************************************************************************)
(* What a client of the lobby receives (lobby/lsg.go, lobby/client.go,     *)
(* bitdemon/frame.go): the handler of its connection answers its records   *)
(* one after the other, while the handlers of other players push messages  *)
(* onto the same connection.  A frame is written in two parts, its length  *)
(* and its body, and either write may fail, before or after some bytes.    *)
(*                                                                         *)
(* A frame counts by its size, which is that of the marshalled message,    *)
(* and by what it answers.                                                 *)
(***************************************************************************)
EXTENDS LobbyMessages, FiniteSets

CONSTANTS
  Kinds,         \* requests that the client makes
  Senders,       \* handlers of other players
  NameSizes,     \* lengths of usernames
  HostSizes,     \* lengths of the hosts' addresses in matches
  MessageSizes,  \* lengths of instant messages
  MaxPage,       \* bound: matches on a page
  MaxRecords,    \* bound: records the client sends
  MaxPushes      \* bound: messages others send

ASSUME StreamAssumption ==
  /\ "handler" \notin Senders
  /\ Kinds \subseteq LobbyKinds
  /\ NameSizes \subseteq 1..64 /\ HostSizes \subseteq 0..MaxHost
  /\ MessageSizes \subseteq 0..MaxMessage
  /\ {MaxPage, MaxRecords, MaxPushes} \subseteq Nat

MaxSenderName == 63    \* maxMessagingSenderNameBytes
Marker        == 200   \* BufferAvailableRecordMarker

\* the goroutine that serves the connection
Handler == "handler"
Writers == Senders \cup {Handler}

VARIABLES
  name,         \* length of the username of the connection's account
  asked,        \* history: the records that the handler read
  place,        \* where the handler is
  transaction,  \* transactionID
  active,       \* the client is in the registry
  writing,      \* writer -> the frame it is in writeFrame with, or None
  next,         \* writer -> the part of it that it writes next, "end" when it has
                \* written both, "outside" while it has not got writeMu
  wire,         \* what was written to the socket
  open,         \* the socket is open
  evicting,     \* senders whose push failed, before they close the socket
  pushes,       \* how many messages others have sent
  refused       \* history: WriteFrame refused a frame for its size

handler == <<asked, place, transaction>>
socket  == <<next, wire, refused>>
vars    == <<name, handler, active, writing, socket, open, evicting, pushes>>

None == [kind |-> "none"]

Init ==
  /\ name \in NameSizes
  /\ asked = <<>> /\ place = "login" /\ transaction = 0
  /\ active = FALSE
  /\ writing = [w \in Writers |-> None]
  /\ next = [w \in Writers |-> "outside"] /\ wire = <<>> /\ refused = FALSE
  /\ open = TRUE /\ evicting = {} /\ pushes = 0

-----------------------------------------------------------------------------
(* Sizes                                                                   *)

SomeID   == Zeros(SessionIDSize)
Integer  == Zeros(4)
SomeInfo(host, text) ==
  <<Zeros(host), SomeID, Integer, Integer, Integer, Integer, Integer, Zeros(8),
    Zeros(text), Integer, Integer, Integer>>

\* matches carry the name of their owner, which bindMatchmakingIdentity limits
Matches == {SomeInfo(h, n) : h \in HostSizes, n \in {k \in NameSizes : k <= MaxText}}
Pages   == UNION {[1..n -> Matches] : n \in 0..MaxPage}

ReplySize(kind, page) ==
  Len(LobbyReply(kind, Zeros(8), SomeID, page, Len(page)))

\* the sizes that replies to a request of that kind can have
ReplySizes ==
  [kind \in LobbyKinds |->
     {ReplySize(kind, page) : page \in IF kind = "find" THEN Pages ELSE {<<>>}}]

\* deliverGlobalInstantMessage shortens the sender's name
Shortened(n) == IF n > MaxSenderName THEN MaxSenderName ELSE n

PushSizes ==
  {Len(Push(MaxSenderName, Integer, Zeros(8), Zeros(Shortened(n)), Zeros(m))) :
     n \in NameSizes, m \in MessageSizes}

ConnectionIDSize == Len(ConnectionIDBody(Zeros(8)))

\* what a frame is for, its transaction where it has one, and its size
Frame(kind, number, size) == [kind |-> kind, number |-> number, size |-> size]

-----------------------------------------------------------------------------
(***************************************************************************)
(* Variants with a plausible bug.  No action uses them: each stands in for *)
(* a definition below to show that a property notices the difference.      *)
(***************************************************************************)
\* the frame is written without the mutex
NoMutex == TRUE

\* every frame of the handler counts as a transaction
CountedAlways(frame) == transaction + 1

-----------------------------------------------------------------------------
(* The handler                                                             *)

\* the handler enters writeFrame
Writes(w, frame) == writing' = [writing EXCEPT ![w] = frame]

More == Len(asked) < MaxRecords
Hears(what) == asked' = Append(asked, what)

\* the login, whose ticket the handler finds
Login ==
  /\ place = "login" /\ More
  /\ Hears("login") /\ place' = "greeting"
  /\ Writes(Handler, Frame("connection", 0, ConnectionIDSize))
  /\ UNCHANGED <<name, transaction, active, socket, open, evicting, pushes>>

Keepalive ==
  /\ place \in {"login", "reading"} /\ More
  /\ Hears("keepalive") /\ place' = IF place = "login" THEN "answering" ELSE "echoing"
  /\ Writes(Handler, Frame("keepalive", 0, 0))
  /\ UNCHANGED <<name, transaction, active, socket, open, evicting, pushes>>

BufferAvailable ==
  /\ place \in {"login", "reading"} /\ More
  /\ Hears("buffer")
  /\ UNCHANGED <<name, place, transaction, active, writing, socket, open, evicting, pushes>>

\* the first request proves the session and puts the client into the registry,
\* if its socket is still there and whatever comes of the request
Registered == transaction = 0 \/ active

Answers(kind) ==
  \E size \in ReplySizes[kind] : Writes(Handler, Frame(kind, transaction, size))

\* bindMatchmakingIdentity refuses names that no match can carry
Bound(kind) == kind \in {"create", "update"} => name <= MaxText

Request(kind) ==
  /\ place = "reading" /\ More
  /\ Hears(kind)
  /\ active' = Registered
  /\ IF Bound(kind)
     THEN place' = "replying" /\ Answers(kind)
     ELSE place' = "over" /\ UNCHANGED writing
  /\ UNCHANGED <<name, transaction, socket, open, evicting, pushes>>

\* a message from the player to himself is pushed by his own handler, which
\* replies when that is done
MessageSelf ==
  /\ place = "reading" /\ More
  /\ Hears("message")
  /\ Registered /\ active' = TRUE
  /\ place' = "pushing"
  /\ \E size \in PushSizes : Writes(Handler, Frame("push", 0, size))
  /\ UNCHANGED <<name, transaction, socket, open, evicting, pushes>>

\* the connection has ended, or its socket was closed by another
HandlerEnds ==
  /\ place \in {"login", "reading"}
  /\ place' = "over"
  /\ UNCHANGED <<name, asked, transaction, active, writing, socket, open, evicting, pushes>>

\* the deferred deactivation, then the runtime's Close
Leave ==
  /\ place = "over" /\ open
  /\ active' = FALSE /\ open' = FALSE
  /\ UNCHANGED <<name, handler, writing, socket, evicting, pushes>>

-----------------------------------------------------------------------------
(* The handlers of other players                                           *)

\* lookup finds the client and the push is marshalled
PushFrom(s) ==
  /\ active /\ writing[s] = None /\ s \notin evicting
  /\ pushes < MaxPushes /\ pushes' = pushes + 1
  /\ \E size \in PushSizes : Writes(s, Frame("push", 0, size))
  /\ UNCHANGED <<name, handler, active, socket, open, evicting>>

\* activate, when the player comes back on another connection
Displaced ==
  /\ active /\ active' = FALSE /\ open' = FALSE
  /\ UNCHANGED <<name, handler, writing, socket, evicting, pushes>>

\* the push failed: the recipient leaves the registry, then its socket is closed
Deactivate(s) ==
  /\ s \in evicting /\ active
  /\ active' = FALSE
  /\ UNCHANGED <<name, handler, writing, socket, open, evicting, pushes>>

CloseRecipient(s) ==
  /\ s \in evicting /\ ~active
  /\ evicting' = evicting \ {s} /\ open' = FALSE
  /\ UNCHANGED <<name, handler, active, writing, socket, pushes>>

-----------------------------------------------------------------------------
(* writeFrame                                                              *)

MutexFree == \A w \in Writers : next[w] = "outside"

Acquire(w) ==
  /\ writing[w] # None /\ next[w] = "outside" /\ MutexFree
  /\ next' = [next EXCEPT ![w] = "prefix"]
  /\ UNCHANGED <<name, handler, active, writing, wire, refused, open, evicting, pushes>>

Sent(w, part) == wire' = Append(wire, [frame |-> writing[w], part |-> part])

Allowed(frame) == frame.size # Marker

WritePrefix(w) ==
  /\ next[w] = "prefix" /\ open /\ Allowed(writing[w])
  /\ Sent(w, "prefix")
  /\ next' = [next EXCEPT ![w] = IF writing[w].size = 0 THEN "end" ELSE "body"]
  /\ UNCHANGED <<name, handler, active, writing, refused, open, evicting, pushes>>

WriteBody(w) ==
  /\ next[w] = "body" /\ open
  /\ Sent(w, "body")
  /\ next' = [next EXCEPT ![w] = "end"]
  /\ UNCHANGED <<name, handler, active, writing, refused, open, evicting, pushes>>

Unlock(w) == next' = [next EXCEPT ![w] = "outside"]

\* transactionID goes on after the reply to a request
Counted(frame) == IF frame.kind \in LobbyKinds THEN transaction + 1 ELSE transaction

\* where the handler goes on after a frame, and what it writes next
Afterwards(frame) ==
  IF place = "pushing" THEN place' = "replying" /\ Answers("message")
  ELSE /\ place' = IF place = "answering" THEN "login" ELSE "reading"
       /\ Writes(Handler, None)

\* writeFrame returns nil
Written(w) ==
  /\ next[w] = "end"
  /\ Unlock(w)
  /\ IF w = Handler
     THEN transaction' = Counted(writing[w]) /\ Afterwards(writing[w])
     ELSE Writes(w, None) /\ UNCHANGED <<place, transaction>>
  /\ UNCHANGED <<name, asked, active, wire, refused, open, evicting, pushes>>

\* writeFrame returns an error: a deadline passed or the socket was closed, after
\* some bytes of the part or none, or the size was refused before any.  A frame
\* whose prefix is out is cut in any case.
Fails(w) ==
  /\ next[w] \in {"prefix", "body"}
  /\ Unlock(w)
  /\ refused' = (refused \/ ~Allowed(writing[w]))
  /\ \/ next[w] = "prefix" /\ UNCHANGED wire
     \/ next[w] = "prefix" /\ open /\ Allowed(writing[w]) /\ Sent(w, "cut")
     \/ next[w] = "body" /\ Sent(w, "cut")

\* the handler gives up, but for a push, after which it replies all the same
HandlerFails ==
  /\ Fails(Handler)
  /\ IF place = "pushing"
     THEN /\ active' = FALSE /\ open' = FALSE
          /\ place' = "replying" /\ Answers("message")
     ELSE /\ place' = "over" /\ Writes(Handler, None)
          /\ UNCHANGED <<active, open>>
  /\ UNCHANGED <<name, asked, transaction, evicting, pushes>>

SenderFails(s) ==
  /\ Fails(s)
  /\ Writes(s, None)
  /\ evicting' = evicting \cup {s}
  /\ UNCHANGED <<name, handler, active, open, pushes>>

Next ==
  \/ Login \/ Keepalive \/ BufferAvailable \/ MessageSelf \/ HandlerEnds \/ Leave \/ Displaced
  \/ \E kind \in Kinds : Request(kind)
  \/ \E s \in Senders : PushFrom(s) \/ Deactivate(s) \/ CloseRecipient(s) \/ SenderFails(s)
  \/ \E w \in Writers : Acquire(w) \/ WritePrefix(w) \/ WriteBody(w) \/ Written(w)
  \/ HandlerFails

Spec == Init /\ [][Next]_vars

-----------------------------------------------------------------------------
(* Properties                                                              *)

\* what the client can read before the first frame that was cut
Intact ==
  LET cuts == {i \in DOMAIN wire : wire[i].part = "cut"}
  IN  {i \in DOMAIN wire : \A c \in cuts : i < c}

\* no writer's part stands between the two parts of another's frame
PartsTogether ==
  \A i \in Intact :
    /\ wire[i].part = "body" =>
         i > 1 /\ wire[i - 1] = [wire[i] EXCEPT !.part = "prefix"]
    /\ wire[i].part = "prefix" /\ wire[i].frame.size > 0 /\ i + 1 \in Intact =>
         wire[i + 1] = [wire[i] EXCEPT !.part = "body"]

SizesAllowed == ~refused

\* Up to a write that failed the client reads whole frames, and WriteFrame never
\* has to refuse a body for its size, that of the marker of a buffer record,
\* whatever is on a page, in a push or in a name.
FramesWhole == PartsTogether /\ SizesAllowed

\* the handler's frames that reach the client whole or in part, and the records
\* that have an answer
ReplyAt    == {i \in Intact : wire[i].part = "prefix" /\ wire[i].frame.kind # "push"}
Answerable == {j \in DOMAIN asked : asked[j] # "buffer"}

AnswerKind(record) == IF record = "login" THEN "connection" ELSE record

\* The frame at i of the wire is the answer to the j-th record.
Answered(i, j) ==
  /\ Cardinality({k \in ReplyAt : k < i}) = Cardinality({k \in Answerable : k < j})
  /\ wire[i].frame.kind = AnswerKind(asked[j])
  /\ wire[i].frame.kind \in LobbyKinds =>
       wire[i].frame.number = Cardinality({k \in Answerable : k < j /\ asked[k] \in LobbyKinds})

\* The client can tell by order and number what a reply is for: the handler's
\* frames answer the client's records one for one, the reply to its n-th request
\* carries the number n - 1 whatever was pushed, echoed or refused before, and
\* no push comes before the connection has its ID.
RepliesInOrder ==
  /\ \A i \in ReplyAt : \E j \in Answerable : Answered(i, j)
  /\ \A i \in Intact :
       wire[i].part = "prefix" /\ wire[i].frame.kind = "push" =>
         \E c \in ReplyAt : c < i /\ wire[c].frame.kind = "connection"
=============================================================================
