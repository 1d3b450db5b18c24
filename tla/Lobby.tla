------------------------------- MODULE Lobby -------------------------------
(***************************************************************************)
(* The lobby server: one goroutine per connection running HandleTCP of     *)
(* lobby/lsg.go, the registry of active clients and the serialised writes  *)
(* of lobby/client.go, the two stores they share, and the authentication   *)
(* handlers that issue the tickets (handleAccountForMMP of                 *)
(* auth/handler.go).                                                       *)
(*                                                                         *)
(* A step of a goroutine goes from one access to shared state to the next: *)
(* a store method, a registry operation, taking a write mutex, a write, a  *)
(* Close.  pc[c] names the next one.                                       *)
(***************************************************************************)
EXTENDS Integers, FiniteSets

CONSTANTS
  Conns,        \* TCP connections, each used once
  PeerOf,       \* the remote address of a connection
  Services,     \* what clients use beside the event log: "matchmaking", "messaging"
  MaxControls,  \* MaxProvisionalControlRecords
  MaxPushes,    \* bound: pushes per recipient (nextServerSeed never wraps)
  NoConn,       \* no connection
  Users, Peers, Seeds, Instants, NoTicket,       \* see LobbySessionStore
  MaxSessions, MaxSessionsPerAccount, MaxToken,
  SessionIDs, NoMatch,                           \* see MatchmakingStore
  MaxMatches, MaxMatchesPerOwner, MaxOrder

ASSUME LobbyAssumption ==
  /\ IsFiniteSet(Conns) /\ NoConn \notin Conns
  /\ PeerOf \in [Conns -> Peers]
  /\ Services \subseteq {"matchmaking", "messaging"}
  /\ MaxControls \in Nat \ {0}
  /\ MaxPushes \in Nat

\* handler.nextID starts at 1 and never gets to wrap: a connection takes one ID.
ConnectionIDs == 1..Cardinality(Conns)

VARIABLES
  bySeed, sessionsByAccount, nextToken,  \* handler.sessions
  byID, sessionsByOwner, nextOrder,      \* handler.matches
  issuing,        \* authentication: tickets whose reply is still being written
  pc,             \* what the goroutine of the connection does next
  phase,          \* anonymous, provisional (authenticated), confirmed (sessionConfirmed)
  session,        \* the ticket copied at login: client.account, lobbySession, sessionToken
  connectionID,   \* 0 until login
  controls,       \* provisionalControlRecords
  nextID,         \* handler.nextID
  byAccount,      \* handler.clients: account -> client, NoConn where the map has none
  other,          \* the client this goroutine looked up: `previous' or `recipient'
  pushSeed,       \* the server seed drawn for the push in progress
  nextServerSeed, \* client.nextServerSeed
  sock,           \* the server's end of the connection: open or closed
  writer,         \* the goroutine that holds client.writeMu
  torn            \* connections on which a frame was cut short while they were open

Sessions == INSTANCE LobbySessionStore
Matches  == INSTANCE MatchmakingStore WITH Owners <- ConnectionIDs, Infos <- Users

sessionStore == <<bySeed, sessionsByAccount, nextToken>>
matchStore   == <<byID, sessionsByOwner, nextOrder>>
identity     == <<phase, session, connectionID, controls, nextID>>
clients      == <<byAccount, other>>
pushes       == <<pushSeed, nextServerSeed>>
wire         == <<sock, writer, torn>>

vars == <<sessionStore, matchStore, issuing, pc, identity, clients, pushes, wire>>

Locations ==
  {"unopened", "top", "reading", "greeting", "activating", "displacing", "dispatching",
   "pushing", "pushWriting", "evicting", "severing", "replying", "replyWriting",
   "leaving", "deleting", "closing", "gone"}

Session == [seed : Seeds, user : Users, token : 1..MaxToken]

\* What the two stores ask of their constants, and no session is no session.
ASSUME LobbyStoresAssumption ==
  /\ IsFiniteSet(Seeds) /\ Instants \subseteq Nat /\ Instants # {}
  /\ MaxSessions \in Nat \ {0} /\ MaxSessionsPerAccount \in Nat \ {0}
  /\ MaxToken \in Nat
  /\ IsFiniteSet(SessionIDs)
  /\ MaxMatches \in Nat \ {0} /\ MaxMatchesPerOwner \in Nat \ {0}
  /\ MaxOrder \in Nat
  /\ NoTicket \notin Sessions!Ticket /\ NoTicket \notin Session
  /\ NoMatch \notin Matches!Match

TypeOK ==
  /\ Sessions!TypeOK
  /\ Matches!TypeOK
  /\ issuing \subseteq [seed : Seeds, token : 1..MaxToken]
  /\ pc \in [Conns -> Locations]
  /\ phase \in [Conns -> {"anonymous", "provisional", "confirmed"}]
  /\ session \in [Conns -> Session \cup {NoTicket}]
  /\ connectionID \in [Conns -> {0} \cup ConnectionIDs]
  /\ controls \in [Conns -> 0..MaxControls]
  /\ nextID \in {0} \cup ConnectionIDs
  /\ byAccount \in [Users -> Conns \cup {NoConn}]
  /\ other \in [Conns -> Conns \cup {NoConn}]
  /\ pushSeed \in [Conns -> 0..MaxPushes]
  /\ nextServerSeed \in [Conns -> 0..MaxPushes]
  /\ sock \in [Conns -> {"open", "closed"}]
  /\ writer \in [Conns -> Conns \cup {NoConn}]
  /\ torn \subseteq Conns

Init ==
  /\ Sessions!Init
  /\ Matches!Init
  /\ issuing = {}
  /\ pc = [c \in Conns |-> "unopened"]
  /\ phase = [c \in Conns |-> "anonymous"]
  /\ session = [c \in Conns |-> NoTicket]
  /\ connectionID = [c \in Conns |-> 0]
  /\ controls = [c \in Conns |-> 0]
  /\ nextID = 0
  /\ byAccount = [u \in Users |-> NoConn]
  /\ other = [c \in Conns |-> NoConn]
  /\ pushSeed = [c \in Conns |-> 0]
  /\ nextServerSeed = [c \in Conns |-> 0]
  /\ sock = [c \in Conns |-> "open"]
  /\ writer = [c \in Conns |-> NoConn]
  /\ torn = {}

At(c, location) == pc[c] = location
Goto(c, location) == pc' = [pc EXCEPT ![c] = location]

\* The variables of a call that has returned are reset, to keep states few.
Forget(c) == other' = [other EXCEPT ![c] = NoConn]
ForgetSeed(c) == pushSeed' = [pushSeed EXCEPT ![c] = 0]

-----------------------------------------------------------------------------
(***************************************************************************)
(* Variants with a plausible bug.  No action uses them: each stands in for *)
(* a definition below to show that a property notices the difference.      *)
(***************************************************************************)
\* the limit is compared before the count it is for; controls are not counted
ControlRefusedLate(c) == phase[c] = "provisional" /\ controls[c] > MaxControls
ControlUncounted(c) == UNCHANGED controls

\* activate forgets the client it replaces
NoPrevious(c) == NoConn

\* the sender's counter provides the seed
SeedOfSender(c, recipient) == nextServerSeed[c]

\* a failed push leaves the recipient's connection open
SeverNothing(c) ==
  /\ At(c, "severing") /\ Goto(c, "replying")
  /\ Forget(c)
  /\ UNCHANGED <<sessionStore, matchStore, issuing, identity, byAccount, pushes, wire>>

\* deactivate does nothing; deactivate drops the account whoever is registered
NotDeactivated(c) == byAccount
DeactivatedBlindly(c) ==
  [u \in Users |-> IF session[c] # NoTicket /\ session[c].user = u THEN NoConn ELSE byAccount[u]]

\* only the client that is still registered sweeps its matches
StillActive(c) == session[c] # NoTicket /\ byAccount[session[c].user] = c

-----------------------------------------------------------------------------
(***************************************************************************)
(* Tickets: handleAccountForMMP reserves one, writes the reply, and takes  *)
(* the ticket back if the write fails.  The bytes may have arrived all the *)
(* same, so the client may log in before, and after, the write is over.    *)
(***************************************************************************)
Issue(s, u, p, now) ==
  /\ \E expiresAt \in Instants : Sessions!Reserve(s, u, p, expiresAt, now)
  /\ issuing' = issuing \cup {[seed |-> s, token |-> nextToken']}
  /\ UNCHANGED <<matchStore, pc, identity, clients, pushes, wire>>

\* The seed collides (another draw may follow) or a limit is reached.
IssueRefused(s, u, now) ==
  /\ Sessions!ReserveRefused(s, u, now)
  /\ UNCHANGED <<matchStore, issuing, pc, identity, clients, pushes, wire>>

IssueWritten(ticket) ==
  /\ issuing' = issuing \ {ticket}
  /\ UNCHANGED <<sessionStore, matchStore, pc, identity, clients, pushes, wire>>

IssueFailed(ticket) ==
  /\ issuing' = issuing \ {ticket}
  /\ Sessions!Revoke(ticket.seed, ticket.token)
  /\ UNCHANGED <<matchStore, pc, identity, clients, pushes, wire>>

-----------------------------------------------------------------------------
(***************************************************************************)
(* The read loop of HandleTCP, up to the confirmation of the session.      *)
(***************************************************************************)
\* The server accepts the connection and its first record goes to the lobby.
Open(c) ==
  /\ At(c, "unopened") /\ Goto(c, "top")
  /\ UNCHANGED <<sessionStore, matchStore, issuing, identity, clients, pushes, wire>>

\* SetReadDeadline: fails, and ends the loop, once the socket is closed.
Top(c) ==
  /\ At(c, "top")
  /\ Goto(c, IF sock[c] = "open" THEN "reading" ELSE "leaving")
  /\ UNCHANGED <<sessionStore, matchStore, issuing, identity, clients, pushes, wire>>

\* End of stream, deadline, closed socket, or a record that is malformed,
\* undecryptable or out of place: every such path only returns.
Quit(c) ==
  /\ At(c, "reading") /\ Goto(c, "leaving")
  /\ UNCHANGED <<sessionStore, matchStore, issuing, identity, clients, pushes, wire>>

\* A record may also come from the router's read buffer, so that it is read
\* even if the socket was closed after SetReadDeadline.
Provisional(c) == phase[c] = "provisional"

CountControl(c) ==
  controls' = IF Provisional(c) THEN [controls EXCEPT ![c] = @ + 1] ELSE controls

ControlRefused(c) == Provisional(c) /\ controls[c] = MaxControls

Keepalive(c) ==
  /\ At(c, "reading") /\ ~ControlRefused(c)
  /\ CountControl(c)
  /\ Goto(c, "replying")
  /\ UNCHANGED <<sessionStore, matchStore, issuing, phase, session, connectionID, nextID,
                 clients, pushes, wire>>

BufferAvailable(c) ==
  /\ At(c, "reading") /\ ~ControlRefused(c)
  /\ CountControl(c)
  /\ Goto(c, "top")
  /\ UNCHANGED <<sessionStore, matchStore, issuing, phase, session, connectionID, nextID,
                 clients, pushes, wire>>

\* A login frame: the ticket is looked up and copied, not consumed.
Login(c, s, now) ==
  /\ At(c, "reading") /\ phase[c] = "anonymous"
  /\ Sessions!LookupHit(s, PeerOf[c], now)
  /\ session' = [session EXCEPT ![c] =
                   [seed |-> s, user |-> bySeed[s].user, token |-> bySeed[s].token]]
  /\ nextID' = nextID + 1
  /\ connectionID' = [connectionID EXCEPT ![c] = nextID']
  /\ Goto(c, "greeting")
  /\ UNCHANGED <<matchStore, issuing, phase, controls, clients, pushes, wire>>

LoginRefused(c, s, now) ==
  /\ At(c, "reading") /\ phase[c] = "anonymous"
  /\ Sessions!LookupMiss(s, PeerOf[c], now)
  /\ Goto(c, "leaving")
  /\ UNCHANGED <<matchStore, issuing, identity, clients, pushes, wire>>

\* writeConnectionID: nobody else knows this client yet, so its mutex is free.
Greet(c) ==
  /\ At(c, "greeting")
  /\ phase' = [phase EXCEPT ![c] = "provisional"]
  /\ Goto(c, "top")
  /\ UNCHANGED <<sessionStore, matchStore, issuing, session, connectionID, controls, nextID,
                 clients, pushes, wire>>

GreetFailed(c) ==
  /\ At(c, "greeting") /\ Goto(c, "leaving")
  /\ UNCHANGED <<sessionStore, matchStore, issuing, identity, clients, pushes, wire>>

\* The first request under the session key consumes the ticket.
Confirm(c, now) ==
  /\ At(c, "reading") /\ Provisional(c)
  /\ Sessions!Consume(session[c].seed, session[c].token, PeerOf[c], now)
  /\ phase' = [phase EXCEPT ![c] = "confirmed"]
  /\ Goto(c, "activating")
  /\ UNCHANGED <<matchStore, issuing, session, connectionID, controls, nextID,
                 clients, pushes, wire>>

ConfirmRefused(c, now) ==
  /\ At(c, "reading") /\ Provisional(c)
  /\ Sessions!ConsumeRefused(session[c].seed, session[c].token, PeerOf[c], now)
  /\ Goto(c, "leaving")
  /\ UNCHANGED <<matchStore, issuing, identity, clients, pushes, wire>>

\* activate swaps the registry entry under its lock and closes the previous
\* client's connection after releasing it.
Previous(c) ==
  LET client == byAccount[session[c].user] IN IF client = c THEN NoConn ELSE client

Activate(c) ==
  /\ At(c, "activating")
  /\ byAccount' = [byAccount EXCEPT ![session[c].user] = c]
  /\ other' = [other EXCEPT ![c] = Previous(c)]
  /\ Goto(c, IF other'[c] = NoConn THEN "dispatching" ELSE "displacing")
  /\ UNCHANGED <<sessionStore, matchStore, issuing, identity, pushes, wire>>

CloseSocket(c) == sock' = [sock EXCEPT ![c] = "closed"]

Displace(c) ==
  /\ At(c, "displacing") /\ Goto(c, "dispatching")
  /\ CloseSocket(other[c])
  /\ Forget(c)
  /\ UNCHANGED <<sessionStore, matchStore, issuing, identity, byAccount, pushes, writer, torn>>

-----------------------------------------------------------------------------
(***************************************************************************)
(* Requests of a confirmed session.  What the request is matters only from *)
(* here on, so it is chosen here.                                          *)
(***************************************************************************)
Request(c) ==
  /\ At(c, "reading") /\ phase[c] = "confirmed"
  /\ Goto(c, "dispatching")
  /\ UNCHANGED <<sessionStore, matchStore, issuing, identity, clients, pushes, wire>>

\* A request no parser accepts, or of another service.
Unsupported(c) ==
  /\ At(c, "dispatching") /\ Goto(c, "leaving")
  /\ UNCHANGED <<sessionStore, matchStore, issuing, identity, clients, pushes, wire>>

\* An event-log entry is only acknowledged; a search, too, changes nothing.
EventLogOrFind(c) ==
  /\ At(c, "dispatching") /\ Goto(c, "replying")
  /\ UNCHANGED <<sessionStore, matchStore, issuing, identity, clients, pushes, wire>>

Matchmaking(c) == "matchmaking" \in Services /\ At(c, "dispatching")

\* bindMatchmakingIdentity puts the account's own name into what it advertises.
CreateMatch(c, i) ==
  /\ Matchmaking(c)
  /\ Matches!Create(connectionID[c], session[c].user, i)
  /\ Goto(c, "replying")
  /\ UNCHANGED <<sessionStore, issuing, identity, clients, pushes, wire>>

CreateMatchRefused(c) ==
  /\ Matchmaking(c)
  /\ Matches!CreateRefused
  /\ Goto(c, "leaving")
  /\ UNCHANGED <<sessionStore, issuing, identity, clients, pushes, wire>>

UpdateMatch(c, i) ==
  /\ Matchmaking(c)
  /\ Matches!Update(connectionID[c], i, session[c].user)
  /\ Goto(c, "replying")
  /\ UNCHANGED <<sessionStore, issuing, identity, clients, pushes, wire>>

DeleteMatch(c, i) ==
  /\ Matchmaking(c)
  /\ Matches!Delete(connectionID[c], i)
  /\ Goto(c, "replying")
  /\ UNCHANGED <<sessionStore, issuing, identity, clients, pushes, wire>>

\* An update or a deletion of a match that is gone is acknowledged; one of
\* another connection's match ends the connection.
StaleMatch(c, i) ==
  /\ Matchmaking(c)
  /\ Matches!Missing(i)
  /\ Goto(c, "replying")
  /\ UNCHANGED <<sessionStore, matchStore, issuing, identity, clients, pushes, wire>>

ForeignMatch(c, i) ==
  /\ Matchmaking(c)
  /\ Matches!Foreign(connectionID[c], i)
  /\ Goto(c, "leaving")
  /\ UNCHANGED <<sessionStore, matchStore, issuing, identity, clients, pushes, wire>>

Messaging(c) == "messaging" \in Services /\ At(c, "dispatching")

\* deliverGlobalInstantMessage looks the recipient up and draws a server seed; the
\* push it then marshals is within the limits that the request's parser enforced.
MessageNobody(c, u) ==
  /\ Messaging(c)
  /\ byAccount[u] = NoConn
  /\ Goto(c, "replying")
  /\ UNCHANGED <<sessionStore, matchStore, issuing, identity, clients, pushes, wire>>

SeedFor(c, recipient) == nextServerSeed[recipient]

Message(c, u) ==
  LET recipient == byAccount[u]
  IN  /\ Messaging(c)
      /\ recipient # NoConn
      /\ nextServerSeed[recipient] < MaxPushes
      /\ pushSeed' = [pushSeed EXCEPT ![c] = SeedFor(c, recipient)]
      /\ nextServerSeed' = [nextServerSeed EXCEPT ![recipient] = @ + 1]
      /\ other' = [other EXCEPT ![c] = recipient]
      /\ Goto(c, "pushing")
      /\ UNCHANGED <<sessionStore, matchStore, issuing, identity, byAccount, wire>>

-----------------------------------------------------------------------------
(***************************************************************************)
(* Frames are written under the recipient's write mutex.  A write that     *)
(* fails (deadline, reset) may have sent part of its frame.                *)
(***************************************************************************)
Acquire(c, client) == writer[client] = NoConn /\ writer' = [writer EXCEPT ![client] = c]
Release(client) == writer' = [writer EXCEPT ![client] = NoConn]
CutShort(client) == torn' \in {torn, IF sock[client] = "open" THEN torn \cup {client} ELSE torn}

StartPush(c) ==
  /\ At(c, "pushing") /\ Acquire(c, other[c]) /\ Goto(c, "pushWriting")
  /\ UNCHANGED <<sessionStore, matchStore, issuing, identity, clients, pushes, sock, torn>>

PushWritten(c) ==
  /\ At(c, "pushWriting") /\ sock[other[c]] = "open"
  /\ Release(other[c])
  /\ Goto(c, "replying")
  /\ Forget(c) /\ ForgetSeed(c)
  /\ UNCHANGED <<sessionStore, matchStore, issuing, identity, byAccount, nextServerSeed, sock, torn>>

PushFailed(c) ==
  /\ At(c, "pushWriting")
  /\ CutShort(other[c]) /\ Release(other[c])
  /\ Goto(c, "evicting")
  /\ ForgetSeed(c)
  /\ UNCHANGED <<sessionStore, matchStore, issuing, identity, clients, nextServerSeed, sock>>

\* deactivate: the entry of the client's account goes, if it is still this client.
Deactivated(c) ==
  [u \in Users |->
     IF session[c] # NoTicket /\ session[c].user = u /\ byAccount[u] = c
     THEN NoConn ELSE byAccount[u]]

Evict(c) ==
  /\ At(c, "evicting") /\ Goto(c, "severing")
  /\ byAccount' = Deactivated(other[c])
  /\ UNCHANGED <<sessionStore, matchStore, issuing, identity, other, pushes, wire>>

Sever(c) ==
  /\ At(c, "severing") /\ Goto(c, "replying")
  /\ CloseSocket(other[c])
  /\ Forget(c)
  /\ UNCHANGED <<sessionStore, matchStore, issuing, identity, byAccount, pushes, writer, torn>>

StartReply(c) ==
  /\ At(c, "replying") /\ Acquire(c, c) /\ Goto(c, "replyWriting")
  /\ UNCHANGED <<sessionStore, matchStore, issuing, identity, clients, pushes, sock, torn>>

ReplyWritten(c) ==
  /\ At(c, "replyWriting") /\ sock[c] = "open"
  /\ Release(c)
  /\ Goto(c, "top")
  /\ UNCHANGED <<sessionStore, matchStore, issuing, identity, clients, pushes, sock, torn>>

ReplyFailed(c) ==
  /\ At(c, "replyWriting")
  /\ CutShort(c) /\ Release(c)
  /\ Goto(c, "leaving")
  /\ UNCHANGED <<sessionStore, matchStore, issuing, identity, clients, pushes, sock>>

-----------------------------------------------------------------------------
(***************************************************************************)
(* The end of a connection: the deferred function of HandleTCP, then the   *)
(* Close deferred by the server's handleTCP.                               *)
(***************************************************************************)
LoggedIn(c) == connectionID[c] # 0

Leave(c) ==
  /\ At(c, "leaving")
  /\ byAccount' = Deactivated(c)
  /\ Goto(c, IF LoggedIn(c) THEN "deleting" ELSE "closing")
  /\ UNCHANGED <<sessionStore, matchStore, issuing, identity, other, pushes, wire>>

DeleteMatches(c) ==
  /\ At(c, "deleting") /\ Goto(c, "closing")
  /\ Matches!DeleteOwner(connectionID[c])
  /\ UNCHANGED <<sessionStore, issuing, identity, clients, pushes, wire>>

Close(c) ==
  /\ At(c, "closing") /\ Goto(c, "gone")
  /\ CloseSocket(c)
  /\ UNCHANGED <<sessionStore, matchStore, issuing, identity, clients, pushes, writer, torn>>

-----------------------------------------------------------------------------
Auth ==
  \/ \E s \in Seeds, u \in Users, now \in Instants :
       IssueRefused(s, u, now) \/ \E p \in Peers : Issue(s, u, p, now)
  \/ \E ticket \in issuing : IssueWritten(ticket) \/ IssueFailed(ticket)

\* What the goroutine of c may do without waiting for another one.
Run(c) ==
  \/ Top(c) \/ Quit(c) \/ Keepalive(c) \/ BufferAvailable(c)
  \/ \E s \in Seeds, now \in Instants : Login(c, s, now) \/ LoginRefused(c, s, now)
  \/ Greet(c) \/ GreetFailed(c)
  \/ \E now \in Instants : Confirm(c, now) \/ ConfirmRefused(c, now)
  \/ Activate(c) \/ Displace(c)
  \/ Request(c) \/ Unsupported(c) \/ EventLogOrFind(c) \/ CreateMatchRefused(c)
  \/ \E i \in SessionIDs :
       CreateMatch(c, i) \/ UpdateMatch(c, i) \/ DeleteMatch(c, i)
         \/ StaleMatch(c, i) \/ ForeignMatch(c, i)
  \/ \E u \in Users : MessageNobody(c, u) \/ Message(c, u)
  \/ PushWritten(c) \/ PushFailed(c) \/ Evict(c) \/ Sever(c)
  \/ ReplyWritten(c) \/ ReplyFailed(c)
  \/ Leave(c) \/ DeleteMatches(c) \/ Close(c)

\* Taking a write mutex.
Lock(c) == StartPush(c) \/ StartReply(c)

Next == Auth \/ \E c \in Conns : Open(c) \/ Run(c) \/ Lock(c)

Spec == Init /\ [][Next]_vars

\* Go runs every goroutine that can run; a read returns by its deadline and a
\* write by its own, whatever the client does; and a sync.Mutex hands itself
\* over to a waiter that has starved for a millisecond.
Fairness == \A c \in Conns : WF_vars(Run(c)) /\ SF_vars(Lock(c))

FairSpec == Spec /\ Fairness

-----------------------------------------------------------------------------
(***************************************************************************)
(* Properties.                                                             *)
(***************************************************************************)
Confirmed == {c \in Conns : phase[c] = "confirmed"}

\* A ticket opens one lobby session, even though Lookup lets any number of
\* connections copy it before one of them proves that it has the session key.
TicketSingleUse ==
  \A c, d \in Confirmed : session[c].token = session[d].token => c = d

\* The registry only lists clients that have proved their session, under their
\* own account, and whose handler has not run its deferred deactivate.
RegistrySound ==
  \A c \in Conns, u \in Users :
    byAccount[u] = c =>
      /\ phase[c] = "confirmed" /\ session[c].user = u
      /\ pc[c] \notin {"activating", "deleting", "closing", "gone"}

\* A client that has lost its place in the registry, to a newer connection of
\* its account or because a push to it failed, does not go on serving: its
\* socket is closed, or the goroutine that is to close it is about to, or it is
\* leaving on its own.
SupersededDoomed ==
  \A c \in Confirmed :
    \/ byAccount[session[c].user] = c
    \/ pc[c] \in {"activating", "leaving", "deleting", "closing", "gone"}
    \/ sock[c] = "closed"
    \/ \E d \in Conns : other[d] = c /\ pc[d] \in {"displacing", "severing"}

\* Every advertised match belongs to a connection that proved its session, names
\* that connection's account as its host, and is still to be swept by the
\* DeleteOwner that ends the connection.
MatchesOwnedAlive ==
  \A i \in Matches!Stored : \E c \in Confirmed :
    /\ connectionID[c] = byID[i].owner
    /\ session[c].user = byID[i].info
    /\ pc[c] \notin {"closing", "gone"}

\* Only the connection that owns a match changes it or removes it: a request of
\* its own, or the sweep at its end.  A second connection of the same account is
\* another owner.
MatchesChangedByOwner ==
  [][\A i \in SessionIDs :
       byID'[i] # byID[i] =>
         \E c \in Conns :
           /\ At(c, "dispatching") \/ At(c, "deleting")
           /\ pc'[c] # pc[c]
           /\ \A m \in {byID[i], byID'[i]} \ {NoMatch} : m.owner = connectionID[c]]_vars

\* Pushes that are under way to one client carry different server seeds, from
\* which the IVs of their ciphers derive, and the next one will differ again.
PushSeedsUnique ==
  LET Pushing == {c \in Conns : pc[c] \in {"pushing", "pushWriting"}}
  IN  /\ \A c \in Pushing : pushSeed[c] < nextServerSeed[other[c]]
      /\ \A c, d \in Pushing :
           other[c] = other[d] /\ pushSeed[c] = pushSeed[d] => c = d

\* The ticket store, the authentication handlers and the logins together
\* implement Admission: in particular a Revoke that comes late, when its ticket
\* has expired or was redeemed and its seed holds another, takes nothing away
\* from the other one's holder.
Ledger == INSTANCE Admission WITH
  issued     <- nextToken,
  unanswered <- {ticket.token : ticket \in issuing},
  pending    <- {bySeed[s].token : s \in Sessions!Held},
  admitted   <- {<<session[c].token, c>> : c \in Confirmed}

AdmissionRefined == Ledger!Spec

\* A connection that is closed under its handler (displaced, or unreachable for
\* a push), or on which a frame was cut short, ends, and once it has, none of its
\* matches is ever listed again.
ClosedGoes ==
  \A c \in Conns :
    (sock[c] = "closed" \/ c \in torn) ~> [](pc[c] = "gone" /\ Matches!OwnedBy(connectionID[c]) = {})

\* Of two confirmed connections of one account at most one survives: the other
\* ends even if both keep sending requests.
SupersededGoes ==
  \A c \in Conns :
    (c \in Confirmed /\ pc[c] # "activating" /\ byAccount[session[c].user] # c) ~> pc[c] = "gone"

\* A connection that has logged in proves its session or ends: keepalives and
\* buffer reports cannot keep it provisional.
ProvisionalEnds ==
  \A c \in Conns : phase[c] = "provisional" ~> (phase[c] = "confirmed" \/ pc[c] = "gone")
=============================================================================
