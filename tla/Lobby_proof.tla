----------------------------- MODULE Lobby_proof ----------------------------
(***************************************************************************)
(* Proofs about the lobby, for any number of connections, accounts, seeds  *)
(* and matches and any limits.                                             *)
(*                                                                         *)
(* The two stores come with proofs of their own: every step of the lobby   *)
(* is a step of each store or leaves it alone, and what the stores keep    *)
(* under any sequence of calls they keep under the calls of the lobby.     *)
(***************************************************************************)
EXTENDS Lobby, FiniteSetTheorems, TLAPS

Tickets == INSTANCE LobbySessionStore_proof

\* Nothing is searched in the lobby model: any parameters of queries will do.
Table == INSTANCE MatchmakingStore_proof WITH
  Owners <- ConnectionIDs, Infos <- Users,
  Keys <- {}, Values <- {}, Wildcard <- NoMatch, Word <- MaxMatches + 1

\* The stores as Lobby uses them and as their proofs know them are the same.
LEMMA SameTickets ==
  /\ Sessions!Init <=> Tickets!Init
  /\ Sessions!TypeOK <=> Tickets!TypeOK
  /\ \A s, u, p, e, now : Sessions!Reserve(s, u, p, e, now) <=> Tickets!Reserve(s, u, p, e, now)
  /\ \A s, u, now : Sessions!ReserveRefused(s, u, now) <=> Tickets!ReserveRefused(s, u, now)
  /\ \A s, p, now : Sessions!LookupHit(s, p, now) <=> Tickets!LookupHit(s, p, now)
  /\ \A s, p, now : Sessions!LookupMiss(s, p, now) <=> Tickets!LookupMiss(s, p, now)
  /\ \A s, t, p, now : Sessions!Consume(s, t, p, now) <=> Tickets!Consume(s, t, p, now)
  /\ \A s, t, p, now : Sessions!ConsumeRefused(s, t, p, now) <=> Tickets!ConsumeRefused(s, t, p, now)
  /\ \A s, t : Sessions!Revoke(s, t) <=> Tickets!Revoke(s, t)
<1> USE DEF Sessions!storeVars, Tickets!storeVars, Sessions!Held, Tickets!Held,
            Sessions!HeldBy, Tickets!HeldBy, Sessions!Expired, Tickets!Expired,
            Sessions!Remaining, Tickets!Remaining, Sessions!BySeedWithout, Tickets!BySeedWithout,
            Sessions!CountsWithout, Tickets!CountsWithout, Sessions!DeleteLocked,
            Tickets!DeleteLocked, Sessions!Purged, Tickets!Purged, Sessions!Admissible,
            Tickets!Admissible, Sessions!FreshToken, Tickets!FreshToken, Sessions!Found,
            Tickets!Found, Sessions!Redeemable, Tickets!Redeemable, Sessions!Cardinality,
            Tickets!Cardinality
<1>1. Sessions!Init <=> Tickets!Init
  BY DEF Sessions!Init, Tickets!Init
<1>2. Sessions!TypeOK <=> Tickets!TypeOK
  BY DEF Sessions!TypeOK, Tickets!TypeOK, Sessions!Ticket, Tickets!Ticket
<1>3. \A s, u, p, e, now : Sessions!Reserve(s, u, p, e, now) <=> Tickets!Reserve(s, u, p, e, now)
  BY DEF Sessions!Reserve, Tickets!Reserve
<1>4. \A s, u, now : Sessions!ReserveRefused(s, u, now) <=> Tickets!ReserveRefused(s, u, now)
  BY DEF Sessions!ReserveRefused, Tickets!ReserveRefused
<1>5. \A s, p, now : Sessions!LookupHit(s, p, now) <=> Tickets!LookupHit(s, p, now)
  BY DEF Sessions!LookupHit, Tickets!LookupHit
<1>6. \A s, p, now : Sessions!LookupMiss(s, p, now) <=> Tickets!LookupMiss(s, p, now)
  BY DEF Sessions!LookupMiss, Tickets!LookupMiss
<1>7. \A s, t, p, now : Sessions!Consume(s, t, p, now) <=> Tickets!Consume(s, t, p, now)
  BY DEF Sessions!Consume, Tickets!Consume
<1>8. \A s, t, p, now : Sessions!ConsumeRefused(s, t, p, now) <=> Tickets!ConsumeRefused(s, t, p, now)
  BY DEF Sessions!ConsumeRefused, Tickets!ConsumeRefused
<1>9. \A s, t : Sessions!Revoke(s, t) <=> Tickets!Revoke(s, t)
  BY DEF Sessions!Revoke, Tickets!Revoke
<1> QED BY <1>1, <1>2, <1>3, <1>4, <1>5, <1>6, <1>7, <1>8, <1>9

LEMMA SameTable ==
  /\ Matches!Init <=> Table!Init
  /\ Matches!TypeOK <=> Table!TypeOK
  /\ \A o, u, i : Matches!Create(o, u, i) <=> Table!Create(o, u, i)
  /\ Matches!CreateRefused <=> UNCHANGED Table!matchVars
  /\ \A o, i, u : Matches!Update(o, i, u) <=> Table!Update(o, i, u)
  /\ \A o, i : Matches!Delete(o, i) <=> Table!Delete(o, i)
  /\ \A o : Matches!DeleteOwner(o) <=> Table!DeleteOwner(o)
<1> USE DEF Matches!matchVars, Table!matchVars, Matches!Stored, Table!Stored, Matches!OwnedBy,
            Table!OwnedBy, Matches!Left, Table!Left, Matches!DeleteLocked, Table!DeleteLocked,
            Matches!Room, Table!Room, Matches!FreshOrder, Table!FreshOrder, Matches!Mine,
            Table!Mine, Matches!Updated, Table!Updated, Matches!Cardinality, Table!Cardinality
<1>1. Matches!Init <=> Table!Init
  BY DEF Matches!Init, Table!Init
<1>2. Matches!TypeOK <=> Table!TypeOK
  BY DEF Matches!TypeOK, Table!TypeOK, Matches!Match, Table!Match
<1>3. \A o, u, i : Matches!Create(o, u, i) <=> Table!Create(o, u, i)
  BY DEF Matches!Create, Table!Create
<1>4. Matches!CreateRefused <=> UNCHANGED Table!matchVars
  BY DEF Matches!CreateRefused
<1>5. \A o, i, u : Matches!Update(o, i, u) <=> Table!Update(o, i, u)
  BY DEF Matches!Update, Table!Update
<1>6. \A o, i : Matches!Delete(o, i) <=> Table!Delete(o, i)
  BY DEF Matches!Delete, Table!Delete
<1>7. \A o : Matches!DeleteOwner(o) <=> Table!DeleteOwner(o)
  BY DEF Matches!DeleteOwner, Table!DeleteOwner
<1> QED BY <1>1, <1>2, <1>3, <1>4, <1>5, <1>6, <1>7

\* The stores' proofs apply: their assumptions are among the lobby's.
LEMMA TicketsKept ==
  /\ Tickets!Init => Tickets!IInv
  /\ Tickets!IInv /\ [Tickets!Next]_Tickets!storeVars => Tickets!IInv'
  /\ Tickets!Next =>
       \/ UNCHANGED Tickets!storeVars
       \/ \E S \in SUBSET Tickets!Held : Tickets!DeleteLocked(S)
       \/ \E s \in Seeds, u \in Users, p \in Peers, e \in Instants, now \in Instants :
            Tickets!Reserve(s, u, p, e, now)
<1>1. IsFiniteSet(Seeds) <=> Tickets!IsFiniteSet(Seeds)
  BY DEF IsFiniteSet, Tickets!IsFiniteSet
<1>2. NoTicket \notin Tickets!Ticket
  BY LobbyStoresAssumption DEF Sessions!Ticket, Tickets!Ticket
<1>3. Tickets!Init => Tickets!IInv
  BY <1>1, <1>2, LobbyStoresAssumption, Tickets!InitIInv
<1>4. Tickets!IInv /\ [Tickets!Next]_Tickets!storeVars => Tickets!IInv'
  BY <1>1, <1>2, LobbyStoresAssumption, Tickets!StepIInv
<1>5. ASSUME Tickets!Next
      PROVE  \/ UNCHANGED Tickets!storeVars
             \/ \E S \in SUBSET Tickets!Held : Tickets!DeleteLocked(S)
             \/ \E s \in Seeds, u \in Users, p \in Peers, e \in Instants, now \in Instants :
                  Tickets!Reserve(s, u, p, e, now)
  BY <1>1, <1>2, <1>5, LobbyStoresAssumption, Tickets!StepShape
<1> QED BY <1>3, <1>4, <1>5

LEMMA TableKept ==
  /\ Table!Init => Table!IInv
  /\ Table!IInv /\ [Table!Next]_Table!matchVars => Table!IInv'
<1>1. IsFiniteSet(SessionIDs) <=> Table!IsFiniteSet(SessionIDs)
  BY DEF IsFiniteSet, Table!IsFiniteSet
<1>2. NoMatch \notin Table!Match
  BY LobbyStoresAssumption DEF Matches!Match, Table!Match
<1>3. Table!Init => Table!IInv
  BY <1>1, <1>2, LobbyStoresAssumption, Table!InitIInv
<1>4. ASSUME Table!IInv, [Table!Next]_Table!matchVars PROVE Table!IInv'
  BY <1>1, <1>2, <1>4, LobbyStoresAssumption, Table!StepIInv
<1> QED BY <1>3, <1>4

-----------------------------------------------------------------------------
(* The invariant: who is who, and what the two stores keep                 *)

\* TypeOK without the stores' share of it.
ConnectionsTyped ==
  /\ issuing \subseteq [seed : Seeds, token : 1..MaxToken]
  /\ pc \in [Conns -> Locations]
  /\ phase \in [Conns -> {"anonymous", "provisional", "confirmed"}]
  /\ session \in [Conns -> Session \cup {NoTicket}]
  /\ connectionID \in [Conns -> {0} \cup ConnectionIDs]
  /\ controls \in [Conns -> 0..MaxControls]
  /\ nextID \in {0} \cup ConnectionIDs
  /\ byAccount \in [Users -> Conns \cup {NoConn}]
  /\ other \in [Conns -> Conns \cup {NoConn}]
  /\ pushSeed \in [Conns -> 0..MaxPushes]
  /\ nextServerSeed \in [Conns -> 0..MaxPushes]
  /\ sock \in [Conns -> {"open", "closed"}]
  /\ writer \in [Conns -> Conns \cup {NoConn}]
  /\ torn \subseteq Conns

\* Where only a connection that has proved its session gets.
Serving ==
  {"activating", "displacing", "dispatching", "pushing", "pushWriting", "evicting", "severing"}

\* Where a handler has another client in hand.
Holding == {"displacing", "pushing", "pushWriting", "evicting", "severing"}

\* A connection has its session and its ID together, before it has any standing,
\* and the place of its handler tells what it has.
Identities ==
  \A c \in Conns :
    /\ session[c] = NoTicket <=> ~LoggedIn(c)
    /\ phase[c] # "anonymous" => LoggedIn(c)
    /\ phase[c] = "anonymous" /\ LoggedIn(c) =>
         pc[c] \in {"greeting", "leaving", "deleting", "closing", "gone"}
    /\ pc[c] = "greeting" => phase[c] = "anonymous" /\ LoggedIn(c)
    /\ pc[c] = "deleting" => LoggedIn(c)
    /\ pc[c] \in Serving => phase[c] = "confirmed"
    /\ pc[c] \in Holding => other[c] # NoConn

\* An ID has been drawn for each connection that has one, so that they last.
IDsCounted == nextID = Cardinality({c \in Conns : LoggedIn(c)})

Base == ConnectionsTyped /\ Identities /\ IDsCounted /\ Tickets!IInv /\ Table!IInv

LEMMA BaseTypes == Base => TypeOK /\ Sessions!TypeOK /\ Matches!TypeOK
BY SameTickets, SameTable DEF Base, ConnectionsTyped, TypeOK, Tickets!IInv, Table!IInv

\* What a confirmed connection and one that is logged in have.
LEMMA Standing ==
  ASSUME Base, NEW c \in Conns
  PROVE  /\ phase[c] # "anonymous" => session[c] \in Session
         /\ session[c] \in Session => session[c].user \in Users /\ session[c].seed \in Seeds
                                      /\ session[c].token \in 1..MaxToken
         /\ LoggedIn(c) => connectionID[c] \in ConnectionIDs
         /\ PeerOf[c] \in Peers
BY LobbyAssumption DEF Base, ConnectionsTyped, Identities, Session, LoggedIn

LEMMA TicketOf ==
  ASSUME Base, NEW s \in Sessions!Held
  PROVE  /\ s \in Seeds /\ bySeed[s] \in Sessions!Ticket
         /\ [seed |-> s, user |-> bySeed[s].user, token |-> bySeed[s].token] \in Session
BY BaseTypes DEF Sessions!TypeOK, Sessions!Held, Sessions!Ticket, Session

-----------------------------------------------------------------------------
(* Every step of the lobby is, for each store, one of its methods          *)

LEMMA TicketCalls ==
  ASSUME Base, Next
  PROVE  [Tickets!Next]_Tickets!storeVars
<1> USE DEF Tickets!storeVars, sessionStore
<1>1. CASE Auth
  <2>1. ASSUME NEW s \in Seeds, NEW u \in Users, NEW now \in Instants, IssueRefused(s, u, now)
        PROVE  Tickets!Next
    BY <2>1, SameTickets DEF IssueRefused, Tickets!Next
  <2>2. ASSUME NEW s \in Seeds, NEW u \in Users, NEW p \in Peers, NEW now \in Instants,
               Issue(s, u, p, now)
        PROVE  Tickets!Next
    BY <2>2, SameTickets DEF Issue, Tickets!Next
  <2>3. ASSUME NEW ticket \in issuing, IssueWritten(ticket)
        PROVE  UNCHANGED Tickets!storeVars
    BY <2>3 DEF IssueWritten
  <2>4. ASSUME NEW ticket \in issuing, IssueFailed(ticket)
        PROVE  [Tickets!Next]_Tickets!storeVars
    <3>1. ticket.seed \in Seeds /\ ticket.token \in 1..MaxToken
      BY DEF Base, ConnectionsTyped
    <3>2. Tickets!Revoke(ticket.seed, ticket.token)
      BY <2>4, SameTickets DEF IssueFailed
    <3> QED BY <3>1, <3>2, LobbyStoresAssumption DEF Tickets!Next
  <2> QED BY <1>1, <2>1, <2>2, <2>3, <2>4 DEF Auth
<1>2. ASSUME NEW c \in Conns, NEW s \in Seeds, NEW now \in Instants,
             Login(c, s, now) \/ LoginRefused(c, s, now)
      PROVE  Tickets!Next
  BY <1>2, SameTickets, Standing DEF Login, LoginRefused, Tickets!Next
<1>3. ASSUME NEW c \in Conns, NEW now \in Instants, Confirm(c, now) \/ ConfirmRefused(c, now)
      PROVE  Tickets!Next
  <2>1. session[c].seed \in Seeds /\ session[c].token \in 1..MaxToken /\ PeerOf[c] \in Peers
    BY <1>3, Standing DEF Confirm, ConfirmRefused, Provisional
  <2> QED BY <1>3, <2>1, SameTickets DEF Confirm, ConfirmRefused, Tickets!Next
<1>4. ASSUME NEW c \in Conns, Open(c) \/ Run(c) \/ Lock(c)
      PROVE  \/ UNCHANGED Tickets!storeVars
             \/ \E s \in Seeds, now \in Instants : Login(c, s, now) \/ LoginRefused(c, s, now)
             \/ \E now \in Instants : Confirm(c, now) \/ ConfirmRefused(c, now)
  BY <1>4 DEF Open, Run, Lock, Top, Quit, Keepalive, BufferAvailable, Greet, GreetFailed, Activate,
              Displace, Request, Unsupported, EventLogOrFind, CreateMatchRefused, CreateMatch,
              UpdateMatch, DeleteMatch, StaleMatch, ForeignMatch, MessageNobody, Message, StartPush,
              PushWritten, PushFailed, Evict, Sever, StartReply, ReplyWritten, ReplyFailed, Leave,
              DeleteMatches, Close
<1> QED BY <1>1, <1>2, <1>3, <1>4 DEF Next

LEMMA MatchCalls ==
  ASSUME Base, Next
  PROVE  \/ UNCHANGED matchStore
         \/ \E c \in Conns : \E i \in SessionIDs :
              CreateMatch(c, i) \/ UpdateMatch(c, i) \/ DeleteMatch(c, i)
         \/ \E c \in Conns : DeleteMatches(c)
<1> USE DEF matchStore
<1>1. CASE Auth
  BY <1>1 DEF Auth, Issue, IssueRefused, IssueWritten, IssueFailed
<1>2. ASSUME NEW c \in Conns, Open(c) \/ Run(c) \/ Lock(c)
      PROVE  \/ UNCHANGED matchStore
             \/ \E i \in SessionIDs : CreateMatch(c, i) \/ UpdateMatch(c, i) \/ DeleteMatch(c, i)
             \/ DeleteMatches(c)
  BY <1>2 DEF Open, Run, Lock, Top, Quit, Keepalive, BufferAvailable, Login, LoginRefused, Greet,
              GreetFailed, Confirm, ConfirmRefused, Activate, Displace, Request, Unsupported,
              EventLogOrFind, CreateMatchRefused, Matches!CreateRefused, Matches!matchVars,
              StaleMatch, ForeignMatch, MessageNobody, Message, StartPush, PushWritten, PushFailed,
              Evict, Sever, StartReply, ReplyWritten, ReplyFailed, Leave, Close
<1> QED BY <1>1, <1>2 DEF Next

LEMMA TableCalls ==
  ASSUME Base, Next
  PROVE  [Table!Next]_Table!matchVars
<1>1. CASE UNCHANGED matchStore
  BY <1>1 DEF matchStore, Table!matchVars
<1>2. ASSUME NEW c \in Conns, NEW i \in SessionIDs,
             CreateMatch(c, i) \/ UpdateMatch(c, i) \/ DeleteMatch(c, i)
      PROVE  Table!Next
  <2>1. connectionID[c] \in ConnectionIDs /\ session[c].user \in Users
    BY <1>2, Standing DEF CreateMatch, UpdateMatch, DeleteMatch, Matchmaking, At, Base, Identities,
                          Serving
  <2> QED BY <1>2, <2>1, SameTable DEF CreateMatch, UpdateMatch, DeleteMatch, Table!Next
<1>3. ASSUME NEW c \in Conns, DeleteMatches(c)
      PROVE  Table!Next
  <2>1. connectionID[c] \in ConnectionIDs
    BY <1>3, Standing DEF DeleteMatches, At, Base, Identities
  <2> QED BY <1>3, <2>1, SameTable DEF DeleteMatches, Table!Next
<1> QED BY <1>1, <1>2, <1>3, MatchCalls

-----------------------------------------------------------------------------
(* The shapes of the lobby's steps, for what is neither store              *)

\* A ticket is issued, refused, delivered or taken back.
Outside ==
  UNCHANGED <<matchStore, pc, identity, clients, pushes, wire>>

\* A handler goes on, having changed nothing but its count of controls, a
\* mutex or the stores.
Walk(c) ==
  /\ \E location \in {"top", "reading", "dispatching", "replying", "replyWriting", "leaving"} :
       /\ Goto(c, location)
       /\ location = "dispatching" => phase[c] = "confirmed"
       /\ \/ pc[c] \in {"unopened", "top", "reading", "dispatching", "replying", "replyWriting"}
          \/ pc[c] = "greeting" /\ location = "leaving"
  /\ UNCHANGED <<phase, session, connectionID, nextID, clients, pushes, sock>>

LEMMA StepShape ==
  ASSUME Base, Next
  PROVE  \/ Outside
         \/ \E c \in Conns :
              \/ Walk(c)
              \/ \E s \in Seeds, now \in Instants : Login(c, s, now)
              \/ Greet(c)
              \/ \E now \in Instants : Confirm(c, now)
              \/ Activate(c) \/ Displace(c)
              \/ \E u \in Users : Message(c, u)
              \/ StartPush(c) \/ PushWritten(c) \/ PushFailed(c) \/ Evict(c) \/ Sever(c)
              \/ Leave(c) \/ DeleteMatches(c) \/ Close(c)
<1>1. CASE Auth
  BY <1>1 DEF Auth, Issue, IssueRefused, IssueWritten, IssueFailed, Outside
<1> USE DEF Walk, At, identity, clients, pushes, wire
<1>2. ASSUME NEW c \in Conns,
             \/ Open(c) \/ Top(c) \/ Quit(c) \/ Keepalive(c) \/ BufferAvailable(c)
             \/ \E s \in Seeds, now \in Instants : LoginRefused(c, s, now)
             \/ GreetFailed(c)
             \/ \E now \in Instants : ConfirmRefused(c, now)
      PROVE  Walk(c)
  BY <1>2 DEF Open, Top, Quit, Keepalive, BufferAvailable, LoginRefused, GreetFailed, ConfirmRefused
<1>3. ASSUME NEW c \in Conns,
             \/ Request(c) \/ Unsupported(c) \/ EventLogOrFind(c) \/ CreateMatchRefused(c)
             \/ \E u \in Users : MessageNobody(c, u)
             \/ StartReply(c) \/ ReplyWritten(c) \/ ReplyFailed(c)
      PROVE  Walk(c)
  BY <1>3 DEF Request, Unsupported, EventLogOrFind, CreateMatchRefused, Matchmaking, MessageNobody,
              Messaging, StartReply, ReplyWritten, ReplyFailed
<1>4. ASSUME NEW c \in Conns, NEW i \in SessionIDs,
             \/ CreateMatch(c, i) \/ UpdateMatch(c, i) \/ DeleteMatch(c, i)
             \/ StaleMatch(c, i) \/ ForeignMatch(c, i)
      PROVE  Walk(c)
  BY <1>4 DEF CreateMatch, UpdateMatch, DeleteMatch, StaleMatch, ForeignMatch, Matchmaking
<1> HIDE DEF Walk, At
<1> QED BY <1>1, <1>2, <1>3, <1>4 DEF Next, Run, Lock

-----------------------------------------------------------------------------
(* Base is inductive                                                       *)

\* A login draws the next ID: there are as many as connections.
LEMMA LoginKeepsTypes ==
  ASSUME Base, NEW c \in Conns, NEW s \in Seeds, NEW now \in Instants, Login(c, s, now)
  PROVE  ConnectionsTyped' /\ IDsCounted'
<1> USE DEF Base, ConnectionsTyped, Locations, Goto, clients, pushes, wire
<1> DEFINE old == {d \in Conns : LoggedIn(d)}
<1>1. s \in Sessions!Held
  BY DEF Login, Sessions!LookupHit, Sessions!Found
<1>2. session' \in [Conns -> Session \cup {NoTicket}]
  BY <1>1, TicketOf DEF Login
<1>3. c \notin old
  BY DEF Login, Identities, At
<1>4. IsFiniteSet(Conns) /\ old \subseteq Conns
  BY LobbyAssumption
<1>5. IsFiniteSet(old) /\ Cardinality(old) \in Nat
  BY <1>4, FS_Subset, FS_CardinalityType
<1>6. Cardinality(old \cup {c}) = Cardinality(old) + 1
  BY <1>3, <1>5, FS_AddElement
<1>7. Cardinality(old \cup {c}) <= Cardinality(Conns) /\ Cardinality(Conns) \in Nat
  BY <1>4, FS_Subset, FS_CardinalityType
<1>8. nextID' = Cardinality(old) + 1 /\ connectionID' = [connectionID EXCEPT ![c] = nextID']
  BY DEF Login, IDsCounted
<1> HIDE DEF old
<1>9. nextID' \in ConnectionIDs
  BY <1>5, <1>6, <1>7, <1>8 DEF ConnectionIDs
<1>10. ConnectionsTyped'
  BY <1>2, <1>8, <1>9 DEF Login
<1>11. \A d \in Conns : connectionID'[d] # 0 <=> d = c \/ connectionID[d] # 0
  BY <1>5, <1>8
<1>12. {d \in Conns : LoggedIn(d)}' = old \cup {c}
  BY <1>11 DEF LoggedIn, old
<1> QED BY <1>6, <1>8, <1>10, <1>12 DEF IDsCounted

LEMMA ConnectionsStayTyped ==
  ASSUME Base, Next
  PROVE  ConnectionsTyped'
<1>1. Tickets!IInv'
  BY TicketCalls, TicketsKept DEF Base
<1> USE DEF Base, ConnectionsTyped, Locations, At, Goto, identity, clients, pushes, wire
<1>2. CASE Auth
  <2>1. ASSUME NEW s \in Seeds, NEW u \in Users, NEW p \in Peers, NEW now \in Instants,
               Issue(s, u, p, now)
        PROVE  ConnectionsTyped'
    <3>1. nextToken' = nextToken + 1 /\ nextToken \in Nat /\ nextToken' \in 0..MaxToken
      BY <1>1, <2>1, LobbyStoresAssumption
         DEF Issue, Sessions!Reserve, Sessions!FreshToken, Tickets!IInv, Tickets!TypeOK
    <3>2. nextToken' \in 1..MaxToken
      BY <3>1, LobbyStoresAssumption
    <3> QED BY <2>1, <3>2 DEF Issue
  <2> QED BY <1>2, <2>1 DEF Auth, IssueRefused, IssueWritten, IssueFailed
<1>3. ASSUME NEW c \in Conns, Open(c) \/ Top(c) \/ Quit(c) PROVE ConnectionsTyped'
  BY <1>3 DEF Open, Top, Quit
<1>4. ASSUME NEW c \in Conns, Keepalive(c) \/ BufferAvailable(c) PROVE ConnectionsTyped'
  <2>1. controls' \in [Conns -> 0..MaxControls]
    BY <1>4, LobbyAssumption DEF Keepalive, BufferAvailable, CountControl, ControlRefused
  <2> QED BY <1>4, <2>1 DEF Keepalive, BufferAvailable
<1>5. ASSUME NEW c \in Conns, NEW s \in Seeds, NEW now \in Instants, Login(c, s, now)
      PROVE  ConnectionsTyped'
  BY <1>5, LoginKeepsTypes
<1>6. ASSUME NEW c \in Conns,
             \/ \E s \in Seeds, now \in Instants : LoginRefused(c, s, now)
             \/ Greet(c) \/ GreetFailed(c)
             \/ \E now \in Instants : Confirm(c, now) \/ ConfirmRefused(c, now)
      PROVE  ConnectionsTyped'
  BY <1>6 DEF LoginRefused, Greet, GreetFailed, Confirm, ConfirmRefused
<1>7. ASSUME NEW c \in Conns, Activate(c) PROVE ConnectionsTyped'
  <2>1. session[c].user \in Users
    BY <1>7, Standing DEF Activate, Identities, Serving
  <2> QED BY <1>7, <2>1 DEF Activate, Previous
<1>8. ASSUME NEW c \in Conns, Displace(c) PROVE ConnectionsTyped'
  BY <1>8 DEF Displace, CloseSocket, Forget
<1>9. ASSUME NEW c \in Conns, Request(c) \/ Unsupported(c) \/ EventLogOrFind(c) \/ CreateMatchRefused(c)
      PROVE  ConnectionsTyped'
  BY <1>9 DEF Request, Unsupported, EventLogOrFind, CreateMatchRefused
<1>10. ASSUME NEW c \in Conns, NEW i \in SessionIDs,
              \/ CreateMatch(c, i) \/ UpdateMatch(c, i) \/ DeleteMatch(c, i)
              \/ StaleMatch(c, i) \/ ForeignMatch(c, i)
       PROVE  ConnectionsTyped'
  BY <1>10 DEF CreateMatch, UpdateMatch, DeleteMatch, StaleMatch, ForeignMatch
<1>11. ASSUME NEW c \in Conns, NEW u \in Users, MessageNobody(c, u) PROVE ConnectionsTyped'
  BY <1>11 DEF MessageNobody
<1>12. ASSUME NEW c \in Conns, NEW u \in Users, Message(c, u) PROVE ConnectionsTyped'
  <2> DEFINE r == byAccount[u]
  <2>1. r \in Conns
    BY <1>12 DEF Message
  <2>2. nextServerSeed[r] \in 0..MaxPushes /\ nextServerSeed[r] + 1 \in 0..MaxPushes
    BY <1>12, <2>1, LobbyAssumption DEF Message
  <2> QED BY <1>12, <2>1, <2>2 DEF Message, SeedFor
<1>13. ASSUME NEW c \in Conns, StartPush(c) \/ PushWritten(c) \/ PushFailed(c) PROVE ConnectionsTyped'
  <2>1. other[c] \in Conns
    BY <1>13 DEF StartPush, PushWritten, PushFailed, Identities, Holding
  <2> QED BY <1>13, <2>1, LobbyAssumption
          DEF StartPush, PushWritten, PushFailed, Acquire, Release, CutShort, Forget, ForgetSeed
<1>14. ASSUME NEW c \in Conns, Evict(c) \/ Sever(c) PROVE ConnectionsTyped'
  BY <1>14 DEF Evict, Sever, Deactivated, CloseSocket, Forget
<1>15. ASSUME NEW c \in Conns, StartReply(c) \/ ReplyWritten(c) \/ ReplyFailed(c) PROVE ConnectionsTyped'
  BY <1>15 DEF StartReply, ReplyWritten, ReplyFailed, Acquire, Release, CutShort
<1>16. ASSUME NEW c \in Conns, Leave(c) \/ DeleteMatches(c) \/ Close(c) PROVE ConnectionsTyped'
  BY <1>16 DEF Leave, DeleteMatches, Close, Deactivated, CloseSocket
<1> QED
  <2> HIDE DEF Base, ConnectionsTyped, At, Goto
  <2>1. ASSUME NEW c \in Conns, Open(c) \/ Run(c) \/ Lock(c) PROVE ConnectionsTyped'
    BY <2>1, <1>3, <1>4, <1>5, <1>6, <1>7, <1>8, <1>9, <1>10, <1>11, <1>12, <1>13, <1>14, <1>15,
       <1>16 DEF Run, Lock
  <2> QED BY <1>2, <2>1 DEF Next

LEMMA IdentitiesKept ==
  ASSUME Base, Next
  PROVE  Identities'
<1> USE DEF Base, ConnectionsTyped, Identities, LoggedIn, Serving, Holding, At, Goto, clients,
            pushes, wire, identity
<1>1. CASE Outside
  BY <1>1 DEF Outside
<1>2. ASSUME NEW c \in Conns, Walk(c) PROVE Identities'
  BY <1>2 DEF Walk
<1>3. ASSUME NEW c \in Conns, NEW s \in Seeds, NEW now \in Instants, Login(c, s, now)
      PROVE  Identities'
  <2>1. s \in Sessions!Held
    BY <1>3 DEF Login, Sessions!LookupHit, Sessions!Found
  <2>2. /\ session'[c] \in Session /\ \A d \in Conns \ {c} : session'[d] = session[d]
        /\ connectionID'[c] = nextID + 1 /\ \A d \in Conns \ {c} : connectionID'[d] = connectionID[d]
    BY <1>3, <2>1, TicketOf DEF Login
  <2>3. session'[c] # NoTicket /\ connectionID'[c] # 0
    BY <2>2, LobbyStoresAssumption DEF ConnectionIDs
  <2>4. /\ pc'[c] = "greeting" /\ \A d \in Conns \ {c} : pc'[d] = pc[d]
        /\ phase[c] = "anonymous"
        /\ UNCHANGED <<phase, other>>
    BY <1>3 DEF Login
  <2> QED BY <2>2, <2>3, <2>4
<1>4. ASSUME NEW c \in Conns, Greet(c) \/ \E now \in Instants : Confirm(c, now)
      PROVE  Identities'
  BY <1>4 DEF Greet, Confirm, Provisional
<1>5. ASSUME NEW c \in Conns, Activate(c) \/ Displace(c) \/ \E u \in Users : Message(c, u)
      PROVE  Identities'
  BY <1>5 DEF Activate, Displace, Message, Messaging, Forget
<1>6. ASSUME NEW c \in Conns, StartPush(c) \/ PushWritten(c) \/ PushFailed(c) \/ Evict(c) \/ Sever(c)
      PROVE  Identities'
  BY <1>6 DEF StartPush, PushWritten, PushFailed, Evict, Sever, Forget
<1>7. ASSUME NEW c \in Conns, Leave(c) \/ DeleteMatches(c) \/ Close(c)
      PROVE  Identities'
  BY <1>7 DEF Leave, DeleteMatches, Close
<1> QED
  <2> HIDE DEF Base, Identities
  <2> QED BY <1>1, <1>2, <1>3, <1>4, <1>5, <1>6, <1>7, StepShape

\* Only a login draws an ID.
LEMMA IDsKeptCounted ==
  ASSUME Base, Next
  PROVE  IDsCounted'
<1>1. CASE UNCHANGED <<connectionID, nextID>>
  BY <1>1 DEF Base, IDsCounted, LoggedIn
<1>2. ASSUME NEW c \in Conns, NEW s \in Seeds, NEW now \in Instants, Login(c, s, now)
      PROVE  IDsCounted'
  BY <1>2, LoginKeepsTypes
<1>3. \/ UNCHANGED <<connectionID, nextID>>
      \/ \E c \in Conns, s \in Seeds, now \in Instants : Login(c, s, now)
  BY StepShape DEF Outside, Walk, Greet, Confirm, Activate, Displace, Message, StartPush, PushWritten,
                   PushFailed, Evict, Sever, Leave, DeleteMatches, Close, identity
<1> QED BY <1>1, <1>2, <1>3

LEMMA InitBase == Init => Base
<1> SUFFICES ASSUME Init PROVE Base
  OBVIOUS
<1>1. Tickets!IInv /\ Table!IInv
  BY SameTickets, SameTable, TicketsKept, TableKept DEF Init
<1>2. ConnectionsTyped
  BY LobbyAssumption DEF Init, ConnectionsTyped, Locations
<1>3. Identities
  BY DEF Init, Identities, LoggedIn, Serving, Holding
<1>4. IDsCounted
  BY FS_EmptySet DEF Init, IDsCounted, LoggedIn
<1> QED BY <1>1, <1>2, <1>3, <1>4 DEF Base

LEMMA StepBase == Base /\ [Next]_vars => Base'
<1> SUFFICES ASSUME Base, [Next]_vars PROVE Base'
  OBVIOUS
<1>1. CASE UNCHANGED vars
  <2>1. UNCHANGED Tickets!storeVars /\ UNCHANGED Table!matchVars
    BY <1>1 DEF vars, sessionStore, matchStore, Tickets!storeVars, Table!matchVars
  <2>2. Tickets!IInv' /\ Table!IInv'
    BY <2>1, TicketsKept, TableKept DEF Base
  <2>3. UNCHANGED <<issuing, pc, identity, clients, pushes, wire>>
    BY <1>1 DEF vars
  <2>4. ConnectionsTyped' /\ Identities' /\ IDsCounted'
    BY <2>3 DEF Base, ConnectionsTyped, Identities, IDsCounted, LoggedIn, identity, clients, pushes,
                wire
  <2> QED BY <2>2, <2>4 DEF Base
<1>2. CASE Next
  <2>1. Tickets!IInv' /\ Table!IInv'
    BY <1>2, TicketCalls, TableCalls, TicketsKept, TableKept DEF Base
  <2> QED BY <1>2, <2>1, ConnectionsStayTyped, IdentitiesKept, IDsKeptCounted DEF Base
<1> QED BY <1>1, <1>2

LEMMA BaseInvariance == Spec => []Base
BY InitBase, StepBase, PTL DEF Spec

-----------------------------------------------------------------------------
(* The registry                                                            *)

LEMMA RegistryKept ==
  ASSUME Base, RegistrySound, Next
  PROVE  RegistrySound'
<1> USE DEF Base, ConnectionsTyped, RegistrySound, At, Goto, clients, pushes, wire, identity
<1>1. CASE Outside
  BY <1>1 DEF Outside
<1>2. ASSUME NEW c \in Conns, Walk(c) PROVE RegistrySound'
  BY <1>2 DEF Walk
<1>3. ASSUME NEW c \in Conns, NEW s \in Seeds, NEW now \in Instants, Login(c, s, now)
      PROVE  RegistrySound'
  BY <1>3 DEF Login
<1>4. ASSUME NEW c \in Conns, Greet(c) \/ \E now \in Instants : Confirm(c, now)
      PROVE  RegistrySound'
  BY <1>4 DEF Greet, Confirm, Provisional, Identities
<1>5. ASSUME NEW c \in Conns, Activate(c) PROVE RegistrySound'
  BY <1>5, LobbyAssumption DEF Activate, Identities, Serving
<1>6. ASSUME NEW c \in Conns, Displace(c) \/ \E u \in Users : Message(c, u)
      PROVE  RegistrySound'
  BY <1>6 DEF Displace, Message, Forget
<1>7. ASSUME NEW c \in Conns, StartPush(c) \/ PushWritten(c) \/ PushFailed(c) \/ Sever(c)
      PROVE  RegistrySound'
  BY <1>7 DEF StartPush, PushWritten, PushFailed, Sever, Forget
<1>8. ASSUME NEW c \in Conns, Evict(c) PROVE RegistrySound'
  BY <1>8, LobbyAssumption DEF Evict, Deactivated
<1>9. ASSUME NEW c \in Conns, Leave(c) PROVE RegistrySound'
  BY <1>9, LobbyAssumption DEF Leave, Deactivated, Identities, LoggedIn
<1>10. ASSUME NEW c \in Conns, DeleteMatches(c) \/ Close(c) PROVE RegistrySound'
  BY <1>10 DEF DeleteMatches, Close
<1> QED
  <2> HIDE DEF Base, RegistrySound
  <2> QED BY <1>1, <1>2, <1>3, <1>4, <1>5, <1>6, <1>7, <1>8, <1>9, <1>10, StepShape

LEMMA SupersededKept ==
  ASSUME Base, RegistrySound, SupersededDoomed, Next
  PROVE  SupersededDoomed'
<1> USE DEF Base, ConnectionsTyped, SupersededDoomed, Confirmed, At, Goto, clients, pushes, wire,
            identity
<1>1. CASE Outside
  BY <1>1 DEF Outside
<1>2. ASSUME NEW c \in Conns, Walk(c) PROVE SupersededDoomed'
  BY <1>2 DEF Walk
<1>3. ASSUME NEW c \in Conns, NEW s \in Seeds, NEW now \in Instants, Login(c, s, now)
      PROVE  SupersededDoomed'
  BY <1>3 DEF Login
<1>4. ASSUME NEW c \in Conns, Greet(c) PROVE SupersededDoomed'
  BY <1>4 DEF Greet
<1>5. ASSUME NEW c \in Conns, NEW now \in Instants, Confirm(c, now) PROVE SupersededDoomed'
  BY <1>5 DEF Confirm
<1>6. ASSUME NEW c \in Conns, Activate(c) PROVE SupersededDoomed'
  <2> DEFINE u == session[c].user
             p == byAccount[u]
  <2>1. /\ pc[c] = "activating" /\ phase[c] = "confirmed" /\ u \in Users /\ p # c
    BY <1>6, Standing DEF Activate, Identities, Serving, RegistrySound
  <2>2. /\ byAccount'[u] = c /\ \A v \in Users \ {u} : byAccount'[v] = byAccount[v]
        /\ p \in Conns => other'[c] = p /\ pc'[c] = "displacing"
        /\ \A d \in Conns \ {c} : pc'[d] = pc[d] /\ other'[d] = other[d]
        /\ UNCHANGED <<phase, session, sock>>
    BY <1>6, <2>1, LobbyAssumption DEF Activate, Previous
  <2>3. \A d \in Conns : p = d => \E e \in Conns : other'[e] = d /\ pc'[e] \in {"displacing", "severing"}
    BY <2>2
  <2>4. \A d, e \in Conns : other[e] = d /\ pc[e] \in {"displacing", "severing"}
                             => other'[e] = d /\ pc'[e] \in {"displacing", "severing"}
    BY <2>1, <2>2
  <2>5. \A d \in Confirmed : session[d].user \in Users
    BY Standing
  <2> QED BY <2>1, <2>2, <2>3, <2>4, <2>5
<1>7. ASSUME NEW c \in Conns, Displace(c) PROVE SupersededDoomed'
  BY <1>7 DEF Displace, Forget, CloseSocket
<1>8. ASSUME NEW c \in Conns, Sever(c) PROVE SupersededDoomed'
  BY <1>8 DEF Sever, Forget, CloseSocket
<1>9. ASSUME NEW c \in Conns, NEW u \in Users, Message(c, u) PROVE SupersededDoomed'
  BY <1>9 DEF Message, Messaging
<1>10. ASSUME NEW c \in Conns, StartPush(c) \/ PushWritten(c) \/ PushFailed(c)
       PROVE  SupersededDoomed'
  BY <1>10 DEF StartPush, PushWritten, PushFailed, Forget
<1>11. ASSUME NEW c \in Conns, Evict(c) PROVE SupersededDoomed'
  <2>1. /\ pc[c] = "evicting" /\ pc'[c] = "severing"
        /\ \A d \in Conns \ {c} : pc'[d] = pc[d]
        /\ UNCHANGED <<phase, session, sock, other>>
    BY <1>11 DEF Evict
  <2>2. \A d, e \in Conns : other[e] = d /\ pc[e] \in {"displacing", "severing"}
                             => other'[e] = d /\ pc'[e] \in {"displacing", "severing"}
    BY <2>1
  <2>3. \A d \in Conns, u \in Users : byAccount[u] = d /\ d # other[c] => byAccount'[u] = d
    BY <1>11 DEF Evict, Deactivated
  <2>4. \A d \in Confirmed : session[d].user \in Users
    BY Standing
  <2> QED BY <2>1, <2>2, <2>3, <2>4
<1>12. ASSUME NEW c \in Conns, Leave(c) PROVE SupersededDoomed'
  <2>1. /\ pc[c] = "leaving" /\ pc'[c] \in {"deleting", "closing"}
        /\ \A d \in Conns \ {c} : pc'[d] = pc[d]
        /\ UNCHANGED <<phase, session, sock, other>>
    BY <1>12 DEF Leave
  <2>2. \A d, e \in Conns : other[e] = d /\ pc[e] \in {"displacing", "severing"}
                             => other'[e] = d /\ pc'[e] \in {"displacing", "severing"}
    BY <2>1
  <2>3. \A d \in Conns, u \in Users : byAccount[u] = d /\ d # c => byAccount'[u] = d
    BY <1>12 DEF Leave, Deactivated
  <2>4. \A d \in Confirmed : session[d].user \in Users
    BY Standing
  <2> QED BY <2>1, <2>2, <2>3, <2>4
<1>13. ASSUME NEW c \in Conns, DeleteMatches(c) \/ Close(c) PROVE SupersededDoomed'
  BY <1>13 DEF DeleteMatches, Close, CloseSocket
<1> QED
  <2> HIDE DEF Base, SupersededDoomed
  <2> QED BY <1>1, <1>2, <1>3, <1>4, <1>5, <1>6, <1>7, <1>8, <1>9, <1>10, <1>11, <1>12, <1>13, StepShape

-----------------------------------------------------------------------------
(* Pushes                                                                  *)

LEMMA PushSeedsKept ==
  ASSUME Base, PushSeedsUnique, Next
  PROVE  PushSeedsUnique'
<1> USE DEF Base, ConnectionsTyped, PushSeedsUnique, At, Goto, clients, pushes, wire, identity
<1>1. CASE Outside
  BY <1>1 DEF Outside
<1>2. ASSUME NEW c \in Conns, Walk(c) PROVE PushSeedsUnique'
  BY <1>2 DEF Walk
<1>3. ASSUME NEW c \in Conns,
             \/ \E s \in Seeds, now \in Instants : Login(c, s, now)
             \/ Greet(c)
             \/ \E now \in Instants : Confirm(c, now)
      PROVE  PushSeedsUnique'
  BY <1>3 DEF Login, Greet, Confirm
<1>4. ASSUME NEW c \in Conns, Activate(c) \/ Displace(c) \/ Sever(c) PROVE PushSeedsUnique'
  BY <1>4 DEF Activate, Displace, Sever, Forget
<1>5. ASSUME NEW c \in Conns, NEW u \in Users, Message(c, u) PROVE PushSeedsUnique'
  <2> DEFINE r == byAccount[u]
  <2>1. /\ r \in Conns
        /\ nextServerSeed[r] \in Nat
        /\ nextServerSeed'[r] = nextServerSeed[r] + 1
        /\ \A d \in Conns \ {r} : nextServerSeed'[d] = nextServerSeed[d]
    BY <1>5, LobbyAssumption DEF Message
  <2>2. /\ pushSeed'[c] = nextServerSeed[r] /\ other'[c] = r /\ pc'[c] = "pushing"
        /\ \A d \in Conns \ {c} : pushSeed'[d] = pushSeed[d] /\ other'[d] = other[d] /\ pc'[d] = pc[d]
    BY <1>5, <2>1 DEF Message, SeedFor
  <2>3. \A d \in Conns : pushSeed[d] \in Nat /\ nextServerSeed[d] \in Nat
    BY LobbyAssumption
  <2>4. \A d \in Conns : pc[d] \in {"pushing", "pushWriting"} => other[d] \in Conns
    BY DEF Identities, Holding
  <2> QED BY <2>1, <2>2, <2>3, <2>4
<1>6. ASSUME NEW c \in Conns, StartPush(c) PROVE PushSeedsUnique'
  BY <1>6 DEF StartPush
<1>7. ASSUME NEW c \in Conns, PushWritten(c) \/ PushFailed(c) PROVE PushSeedsUnique'
  BY <1>7 DEF PushWritten, PushFailed, Forget, ForgetSeed
<1>8. ASSUME NEW c \in Conns, Evict(c) \/ Leave(c) \/ DeleteMatches(c) \/ Close(c)
      PROVE  PushSeedsUnique'
  BY <1>8 DEF Evict, Leave, DeleteMatches, Close
<1> QED
  <2> HIDE DEF Base, PushSeedsUnique
  <2> QED BY <1>1, <1>2, <1>3, <1>4, <1>5, <1>6, <1>7, <1>8, StepShape

-----------------------------------------------------------------------------
(* Matches                                                                 *)

\* What a step makes of the table, it makes of the matches of one connection,
\* under the name of that connection's account.
Keeps(c) ==
  /\ pc[c] \in {"dispatching", "deleting"} /\ pc'[c] # pc[c]
  /\ \A i \in SessionIDs :
       byID'[i] # byID[i] =>
         /\ byID[i] = NoMatch \/ byID[i].owner = connectionID[c]
         /\ \/ byID'[i] = NoMatch
            \/ /\ byID'[i].owner = connectionID[c] /\ byID'[i].info = session[c].user
               /\ pc[c] = "dispatching"

LEMMA MatchesChange ==
  ASSUME Base, Next
  PROVE  UNCHANGED byID \/ \E c \in Conns : Keeps(c)
<1> USE BaseTypes DEF Base, ConnectionsTyped, At, Goto, Keeps, Matches!TypeOK
<1>1. CASE UNCHANGED matchStore
  BY <1>1 DEF matchStore
<1>2. ASSUME NEW c \in Conns, NEW i \in SessionIDs, CreateMatch(c, i) PROVE Keeps(c)
  BY <1>2 DEF CreateMatch, Matchmaking, Matches!Create, Matches!Stored
<1>3. ASSUME NEW c \in Conns, NEW i \in SessionIDs, UpdateMatch(c, i) PROVE Keeps(c)
  <2>1. i \in Matches!Stored /\ byID[i] \in Matches!Match /\ byID[i].owner = connectionID[c]
    BY <1>3 DEF UpdateMatch, Matches!Update, Matches!Mine, Matches!Stored
  <2>2. /\ Matches!Updated(i, session[c].user).owner = byID[i].owner
        /\ Matches!Updated(i, session[c].user).info = session[c].user
    BY <2>1 DEF Matches!Updated, Matches!Match
  <2>3. byID' = [byID EXCEPT ![i] = Matches!Updated(i, session[c].user)]
    BY <1>3 DEF UpdateMatch, Matches!Update
  <2>4. pc[c] = "dispatching" /\ pc'[c] = "replying"
    BY <1>3 DEF UpdateMatch, Matchmaking
  <2> QED BY <2>1, <2>2, <2>3, <2>4
<1>4. ASSUME NEW c \in Conns, NEW i \in SessionIDs, DeleteMatch(c, i) PROVE Keeps(c)
  BY <1>4 DEF DeleteMatch, Matchmaking, Matches!Delete, Matches!Mine, Matches!DeleteLocked
<1>5. ASSUME NEW c \in Conns, DeleteMatches(c) PROVE Keeps(c)
  BY <1>5 DEF DeleteMatches, Matches!DeleteOwner, Matches!OwnedBy, Matches!DeleteLocked
<1> QED
  <2> HIDE DEF Base, Keeps
  <2> QED BY <1>1, <1>2, <1>3, <1>4, <1>5, MatchCalls

Hosting(c) == c \in Confirmed /\ pc[c] \notin {"closing", "gone"}

\* A connection that may own matches goes on as it is until it has swept them.
LEMMA HostsStay ==
  ASSUME Base, Next, NEW c \in Conns, Hosting(c)
  PROVE  \/ Hosting(c)' /\ UNCHANGED <<connectionID[c], session[c]>>
         \/ DeleteMatches(c)
<1> USE DEF Base, ConnectionsTyped, Hosting, Confirmed, At, Goto, clients, pushes, wire, identity
<1>1. CASE Outside
  BY <1>1 DEF Outside
<1>2. ASSUME NEW d \in Conns,
             \/ Walk(d)
             \/ \E s \in Seeds, now \in Instants : Login(d, s, now)
             \/ Greet(d)
             \/ \E now \in Instants : Confirm(d, now)
      PROVE  Hosting(c)' /\ UNCHANGED <<connectionID[c], session[c]>>
  <2>1. CASE Walk(d)
    BY <2>1 DEF Walk
  <2>2. CASE \E s \in Seeds, now \in Instants : Login(d, s, now)
    BY <2>2 DEF Login
  <2>3. CASE Greet(d)
    BY <2>3 DEF Greet, Identities
  <2>4. CASE \E now \in Instants : Confirm(d, now)
    BY <2>4 DEF Confirm
  <2> QED BY <1>2, <2>1, <2>2, <2>3, <2>4
<1>3. ASSUME NEW d \in Conns,
             \/ Activate(d) \/ Displace(d)
             \/ \E u \in Users : Message(d, u)
             \/ StartPush(d) \/ PushWritten(d) \/ PushFailed(d) \/ Evict(d) \/ Sever(d)
      PROVE  Hosting(c)' /\ UNCHANGED <<connectionID[c], session[c]>>
  BY <1>3 DEF Activate, Displace, Message, StartPush, PushWritten, PushFailed, Evict, Sever
<1>4. ASSUME NEW d \in Conns, Leave(d) \/ Close(d)
      PROVE  Hosting(c)' /\ UNCHANGED <<connectionID[c], session[c]>>
  BY <1>4 DEF Leave, Close, Identities
<1>5. ASSUME NEW d \in Conns, DeleteMatches(d)
      PROVE  \/ Hosting(c)' /\ UNCHANGED <<connectionID[c], session[c]>>
             \/ DeleteMatches(c)
  <2>1. CASE d = c
    BY <1>5, <2>1
  <2>2. CASE d # c
    BY <1>5, <2>2 DEF DeleteMatches
  <2> QED BY <2>1, <2>2
<1> QED
  <2> HIDE DEF Base, Hosting
  <2> QED BY <1>1, <1>2, <1>3, <1>4, <1>5, StepShape

LEMMA OwnersKept ==
  ASSUME Base, MatchesOwnedAlive, Next
  PROVE  MatchesOwnedAlive'
<1> DEFINE Host(c, m) == Hosting(c) /\ connectionID[c] = m.owner /\ session[c].user = m.info
<1> SUFFICES ASSUME NEW i \in Matches!Stored'
             PROVE  \E c \in Conns :
                      Hosting(c)' /\ connectionID'[c] = byID'[i].owner /\ session'[c].user = byID'[i].info
  BY DEF MatchesOwnedAlive, Hosting, Confirmed
<1>1. i \in SessionIDs /\ byID'[i] # NoMatch
  BY DEF Matches!Stored
<1>2. \E c \in Conns : Host(c, byID'[i]) /\ ~DeleteMatches(c)
  <2>1. CASE byID'[i] = byID[i]
    <3>1. PICK c \in Conns : Host(c, byID[i])
      BY <1>1, <2>1 DEF MatchesOwnedAlive, Matches!Stored, Hosting, Confirmed
    <3>2. ~DeleteMatches(c)
      BY <1>1, <2>1, <3>1 DEF DeleteMatches, Matches!DeleteOwner, Matches!DeleteLocked,
                              Matches!OwnedBy, Matches!Stored
    <3> QED BY <2>1, <3>1, <3>2
  <2>2. CASE byID'[i] # byID[i]
    <3>1. PICK c \in Conns : Keeps(c)
      BY <2>2, MatchesChange
    <3>2. /\ connectionID[c] = byID'[i].owner /\ session[c].user = byID'[i].info
          /\ pc[c] = "dispatching"
      BY <1>1, <2>2, <3>1 DEF Keeps
    <3>3. Hosting(c) /\ ~DeleteMatches(c)
      BY <3>2 DEF Base, Identities, Serving, Hosting, Confirmed, DeleteMatches, At
    <3> QED BY <3>2, <3>3
  <2> QED BY <2>1, <2>2
<1> QED BY <1>2, HostsStay

-----------------------------------------------------------------------------
(* Tickets                                                                 *)

\* A ticket that a connection copied was issued, and one that has admitted a
\* connection is pending no more.
TokensSpent ==
  /\ \A c \in Conns : session[c] # NoTicket => session[c].token \in 1..nextToken
  /\ \A c \in Confirmed, s \in Sessions!Held : bySeed[s].token # session[c].token

\* Tickets whose answer is being written have tokens of their own, and none of
\* them is held under another seed than the one it was issued with.
IssuersApart ==
  /\ \A x \in issuing : x.token \in 1..nextToken
  /\ \A x, y \in issuing : x.token = y.token => x = y
  /\ \A x \in issuing, s \in Sessions!Held : bySeed[s].token = x.token => s = x.seed

\* The tickets that may be taken back, those that are pending, and those that
\* admitted a connection.
Unanswered == {x.token : x \in issuing}
Pending == {bySeed[s].token : s \in Sessions!Held}
AdmittedBy == {<<session[c].token, c>> : c \in Confirmed}

\* What the store's own proof says of the tokens, in the lobby's terms.
LEMMA Fenced ==
  ASSUME Base
  PROVE  /\ nextToken \in Nat
         /\ \A s \in Sessions!Held : bySeed[s].token \in 1..nextToken
         /\ \A s, r \in Sessions!Held : bySeed[s].token = bySeed[r].token => s = r
BY LobbyStoresAssumption
   DEF Base, Tickets!IInv, Tickets!TypeOK, Tickets!TokensFenced, Tickets!Held, Sessions!Held

\* The store removes tickets, or removes some and issues the next one.
LEMMA StoreMoves ==
  ASSUME Base, Next
  PROVE  \/ UNCHANGED sessionStore
         \/ \E S \in SUBSET Sessions!Held :
              /\ bySeed' = Sessions!BySeedWithout(S) /\ Sessions!Held' = Sessions!Held \ S
              /\ UNCHANGED nextToken
         \/ \E S \in SUBSET Sessions!Held, s \in Seeds :
              /\ s \notin Sessions!Held \ S
              /\ Sessions!Held' = (Sessions!Held \ S) \cup {s}
              /\ \A r \in Sessions!Held \ S : bySeed'[r] = bySeed[r]
              /\ bySeed'[s].token = nextToken + 1 /\ nextToken' = nextToken + 1
<1> USE DEF Sessions!Held, Sessions!BySeedWithout
<1>1. bySeed \in [Seeds -> Sessions!Ticket \cup {NoTicket}]
  BY BaseTypes DEF Sessions!TypeOK
<1>2. CASE UNCHANGED Tickets!storeVars
  BY <1>2 DEF Tickets!storeVars, sessionStore
<1>3. ASSUME NEW S \in SUBSET Tickets!Held, Tickets!DeleteLocked(S)
      PROVE  /\ bySeed' = Sessions!BySeedWithout(S) /\ Sessions!Held' = Sessions!Held \ S
             /\ UNCHANGED nextToken /\ S \in SUBSET Sessions!Held
  BY <1>1, <1>3 DEF Tickets!DeleteLocked, Tickets!BySeedWithout, Tickets!Held
<1>4. ASSUME NEW s \in Seeds, NEW u \in Users, NEW p \in Peers, NEW e \in Instants,
             NEW now \in Instants, Tickets!Reserve(s, u, p, e, now)
      PROVE  \E S \in SUBSET Sessions!Held :
              /\ s \notin Sessions!Held \ S
              /\ Sessions!Held' = (Sessions!Held \ S) \cup {s}
              /\ \A r \in Sessions!Held \ S : bySeed'[r] = bySeed[r]
              /\ bySeed'[s].token = nextToken + 1 /\ nextToken' = nextToken + 1
  <2> DEFINE S == Tickets!Purged(now)
             ticket == [user |-> u, peer |-> p, token |-> nextToken + 1, expiresAt |-> e]
  <2>1. S \in SUBSET Sessions!Held /\ s \notin Sessions!Held \ S
    BY <1>4 DEF Tickets!Purged, Tickets!Expired, Tickets!Reserve, Tickets!Admissible, Tickets!Held
  <2>2. bySeed' = [Sessions!BySeedWithout(S) EXCEPT ![s] = ticket] /\ nextToken' = nextToken + 1
    BY <1>4 DEF Tickets!Reserve, Tickets!FreshToken, Tickets!BySeedWithout
  <2>3. nextToken' \in 0..MaxToken /\ nextToken \in Nat
    <3>1. Tickets!IInv'
      BY TicketCalls, TicketsKept DEF Base
    <3> QED BY <3>1, Fenced DEF Tickets!IInv, Tickets!TypeOK
  <2>4. ticket \in Sessions!Ticket
    BY <2>2, <2>3, LobbyStoresAssumption DEF Sessions!Ticket
  <2>5. ticket # NoTicket
    BY <2>4, LobbyStoresAssumption
  <2> HIDE DEF S, ticket
  <2>6. \A r \in Seeds : bySeed'[r] = IF r = s THEN ticket ELSE IF r \in S THEN NoTicket ELSE bySeed[r]
    BY <2>2
  <2>7. Sessions!Held' = (Sessions!Held \ S) \cup {s}
    BY <2>5, <2>6
  <2>8. bySeed'[s].token = nextToken + 1
    BY <2>6 DEF ticket
  <2> QED BY <2>1, <2>2, <2>6, <2>7, <2>8
<1> HIDE DEF Sessions!Held, Sessions!BySeedWithout
<1>5. CASE Tickets!Next
  <2>1. CASE UNCHANGED Tickets!storeVars
    BY <1>2, <2>1
  <2>2. CASE \E S \in SUBSET Tickets!Held : Tickets!DeleteLocked(S)
    BY <1>3, <2>2
  <2>3. CASE \E s \in Seeds, u \in Users, p \in Peers, e \in Instants, now \in Instants :
               Tickets!Reserve(s, u, p, e, now)
    BY <1>4, <2>3
  <2> QED BY <1>5, <2>1, <2>2, <2>3, TicketsKept
<1> QED BY <1>2, <1>5, TicketCalls

\* Whom a step admits: nobody, or the connection that confirms.
LEMMA AdmissionMoves ==
  ASSUME Base, Next
  PROVE  \/ /\ UNCHANGED Confirmed
            /\ \A c \in Conns : \/ UNCHANGED session[c]
                                \/ /\ c \notin Confirmed /\ UNCHANGED sessionStore
                                   /\ \E s \in Sessions!Held : session'[c].token = bySeed[s].token
         \/ \E c \in Conns, now \in Instants : Confirm(c, now)
<1> USE DEF Base, ConnectionsTyped, Confirmed, At, Goto, identity
<1>1. ASSUME Outside PROVE UNCHANGED <<Confirmed, session>>
  BY <1>1 DEF Outside
<1>2. ASSUME NEW c \in Conns, Walk(c) PROVE UNCHANGED <<Confirmed, session>>
  BY <1>2 DEF Walk
<1>3. ASSUME NEW c \in Conns, NEW s \in Seeds, NEW now \in Instants, Login(c, s, now)
      PROVE  /\ UNCHANGED <<Confirmed, sessionStore>> /\ c \notin Confirmed
             /\ \A d \in Conns \ {c} : UNCHANGED session[d]
             /\ s \in Sessions!Held /\ session'[c].token = bySeed[s].token
  BY <1>3 DEF Login, Sessions!LookupHit, Sessions!Found, Sessions!storeVars, sessionStore
<1>4. ASSUME NEW c \in Conns, Greet(c) PROVE UNCHANGED <<Confirmed, session>>
  BY <1>4 DEF Greet, Identities
<1>5. ASSUME NEW c \in Conns,
             \/ Activate(c) \/ Displace(c) \/ \E u \in Users : Message(c, u)
             \/ StartPush(c) \/ PushWritten(c) \/ PushFailed(c) \/ Evict(c) \/ Sever(c)
             \/ Leave(c) \/ DeleteMatches(c) \/ Close(c)
      PROVE  UNCHANGED <<Confirmed, session>>
  BY <1>5 DEF Activate, Displace, Message, StartPush, PushWritten, PushFailed, Evict, Sever, Leave,
              DeleteMatches, Close
<1> QED
  <2> HIDE DEF Base, Confirmed
  <2>1. CASE UNCHANGED <<Confirmed, session>>
    BY <2>1
  <2>2. ASSUME NEW c \in Conns, NEW s \in Seeds, NEW now \in Instants, Login(c, s, now)
        PROVE  /\ UNCHANGED Confirmed
               /\ \A d \in Conns : \/ UNCHANGED session[d]
                                   \/ /\ d \notin Confirmed /\ UNCHANGED sessionStore
                                      /\ \E r \in Sessions!Held : session'[d].token = bySeed[r].token
    BY <2>2, <1>3
  <2> QED BY <2>1, <2>2, <1>1, <1>2, <1>4, <1>5, StepShape

\* The connection that confirms takes its ticket out of the store for good.
LEMMA ConfirmSpends ==
  ASSUME Base, NEW c \in Conns, NEW now \in Instants, Confirm(c, now)
  PROVE  /\ session[c].token \in Pending
         /\ Sessions!Held' \subseteq Sessions!Held
         /\ \A s \in Sessions!Held : s \in Sessions!Held' <=> bySeed[s].token # session[c].token
         /\ \A s \in Sessions!Held' : bySeed'[s] = bySeed[s]
         /\ c \notin Confirmed /\ Confirmed' = Confirmed \cup {c}
         /\ UNCHANGED <<session, nextToken, issuing>>
<1> DEFINE s == session[c].seed
<1>1. bySeed \in [Seeds -> Sessions!Ticket \cup {NoTicket}]
  BY BaseTypes DEF Sessions!TypeOK
<1>2. s \in Sessions!Held /\ bySeed[s].token = session[c].token /\ Sessions!DeleteLocked({s})
  BY DEF Confirm, Sessions!Consume, Sessions!Redeemable, Sessions!Found
<1>3. Sessions!Held' = Sessions!Held \ {s} /\ \A r \in Sessions!Held' : bySeed'[r] = bySeed[r]
  BY <1>1, <1>2 DEF Sessions!DeleteLocked, Sessions!BySeedWithout, Sessions!Held
<1>4. phase[c] = "provisional" /\ phase' = [phase EXCEPT ![c] = "confirmed"] /\ UNCHANGED session
  BY DEF Confirm, Provisional
<1>5. c \notin Confirmed /\ Confirmed' = Confirmed \cup {c}
  BY <1>4 DEF Confirmed, Base, ConnectionsTyped
<1>6. \A r \in Sessions!Held : r \in Sessions!Held' <=> bySeed[r].token # session[c].token
  BY <1>2, <1>3, Fenced
<1>7. session[c].token \in Pending
  BY <1>2 DEF Pending
<1>8. UNCHANGED <<session, nextToken, issuing>>
  BY <1>2, <1>4 DEF Sessions!DeleteLocked, Confirm
<1> QED BY <1>3, <1>5, <1>6, <1>7, <1>8

\* What the store holds after a step it held before, or has just been issued.
LEMMA TokensGrow ==
  ASSUME Base, Next
  PROVE  /\ nextToken \in Nat /\ nextToken' \in Nat /\ nextToken' >= nextToken
         /\ \A s \in Sessions!Held' : \/ s \in Sessions!Held /\ bySeed'[s].token = bySeed[s].token
                                      \/ bySeed'[s].token > nextToken
<1>1. nextToken \in Nat
  BY Fenced
<1>2. ASSUME NEW S \in SUBSET Sessions!Held, bySeed' = Sessions!BySeedWithout(S),
             Sessions!Held' = Sessions!Held \ S, NEW s \in Sessions!Held'
      PROVE  bySeed'[s] = bySeed[s]
  BY <1>2 DEF Sessions!BySeedWithout, Sessions!Held
<1>3. CASE UNCHANGED sessionStore
  BY <1>1, <1>3 DEF sessionStore, Sessions!Held
<1> QED BY <1>1, <1>2, <1>3, StoreMoves

\* Only the authentication handlers touch the tickets being answered, and only
\* they draw a token.
LEMMA IssuingMoves ==
  ASSUME Base, Next
  PROVE  \/ UNCHANGED <<issuing, nextToken>>
         \/ \E s \in Seeds, u \in Users, p \in Peers, now \in Instants : Issue(s, u, p, now)
         \/ \E x \in issuing : IssueWritten(x) \/ IssueFailed(x)
<1> USE DEF Sessions!DeleteLocked, Sessions!storeVars, sessionStore
<1>1. CASE Auth
  BY <1>1 DEF Auth, IssueRefused, Sessions!ReserveRefused
<1>2. ASSUME NEW c \in Conns, NEW s \in Seeds, NEW now \in Instants,
             Login(c, s, now) \/ LoginRefused(c, s, now)
      PROVE  UNCHANGED <<issuing, nextToken>>
  BY <1>2 DEF Login, LoginRefused, Sessions!LookupHit, Sessions!LookupMiss
<1>3. ASSUME NEW c \in Conns, NEW now \in Instants, Confirm(c, now) \/ ConfirmRefused(c, now)
      PROVE  UNCHANGED <<issuing, nextToken>>
  BY <1>3 DEF Confirm, ConfirmRefused, Sessions!Consume, Sessions!ConsumeRefused
<1>4. ASSUME NEW c \in Conns, Open(c) \/ Run(c) \/ Lock(c)
      PROVE  \/ UNCHANGED <<issuing, nextToken>>
             \/ \E s \in Seeds, now \in Instants : Login(c, s, now) \/ LoginRefused(c, s, now)
             \/ \E now \in Instants : Confirm(c, now) \/ ConfirmRefused(c, now)
  BY <1>4 DEF Open, Run, Lock, Top, Quit, Keepalive, BufferAvailable, Greet, GreetFailed, Activate,
              Displace, Request, Unsupported, EventLogOrFind, CreateMatchRefused, CreateMatch,
              UpdateMatch, DeleteMatch, StaleMatch, ForeignMatch, MessageNobody, Message, StartPush,
              PushWritten, PushFailed, Evict, Sever, StartReply, ReplyWritten, ReplyFailed, Leave,
              DeleteMatches, Close
<1> QED BY <1>1, <1>2, <1>3, <1>4 DEF Next

\* What an Issue leaves: a token never drawn before, in the store and in hand.
LEMMA IssueDraws ==
  ASSUME Base, Next, NEW s \in Seeds, NEW u \in Users, NEW p \in Peers, NEW now \in Instants,
         Issue(s, u, p, now)
  PROVE  /\ nextToken' = nextToken + 1 /\ s \in Sessions!Held' /\ bySeed'[s].token = nextToken'
         /\ issuing' = issuing \cup {[seed |-> s, token |-> nextToken']}
         /\ \A r, q \in Sessions!Held' : bySeed'[r].token = bySeed'[q].token => r = q
<1>1. Tickets!IInv'
  BY TicketCalls, TicketsKept DEF Base
<1>2. \A r, q \in Sessions!Held' : bySeed'[r].token = bySeed'[q].token => r = q
  BY <1>1 DEF Tickets!IInv, Tickets!TokensFenced, Tickets!Held, Sessions!Held
<1>3. /\ bySeed' \in [Seeds -> Tickets!Ticket \cup {NoTicket}]
      /\ bySeed \in [Seeds -> Tickets!Ticket \cup {NoTicket}]
      /\ nextToken' \in 0..MaxToken /\ nextToken \in Nat
  BY <1>1, Fenced DEF Base, Tickets!IInv, Tickets!TypeOK
<1>4. PICK e \in Instants : Sessions!Reserve(s, u, p, e, now)
  BY DEF Issue
<1>5. /\ nextToken' = nextToken + 1
      /\ bySeed'[s] = [user |-> u, peer |-> p, token |-> nextToken + 1, expiresAt |-> e]
  BY <1>3, <1>4 DEF Sessions!Reserve, Sessions!FreshToken, Sessions!BySeedWithout
<1>6. bySeed'[s] \in Sessions!Ticket
  BY <1>3, <1>5, LobbyStoresAssumption DEF Sessions!Ticket
<1>7. s \in Sessions!Held'
  BY <1>6, LobbyStoresAssumption DEF Sessions!Held
<1> QED BY <1>2, <1>5, <1>7 DEF Issue

LEMMA IssuersKept ==
  ASSUME Base, IssuersApart, Next
  PROVE  IssuersApart'
<1> USE DEF IssuersApart
<1>1. /\ nextToken \in Nat /\ nextToken' \in Nat /\ nextToken' >= nextToken
      /\ \A s \in Sessions!Held' : \/ s \in Sessions!Held /\ bySeed'[s].token = bySeed[s].token
                                   \/ bySeed'[s].token > nextToken
  BY TokensGrow
<1>2. \A x \in issuing : x.token \in 1..nextToken' /\ x.token <= nextToken
  BY <1>1
<1>3. \A x \in issuing, s \in Sessions!Held' : bySeed'[s].token = x.token => s = x.seed
  BY <1>1, <1>2
<1>4. CASE issuing' \subseteq issuing
  BY <1>2, <1>3, <1>4
<1>5. ASSUME NEW s \in Seeds, NEW u \in Users, NEW p \in Peers, NEW now \in Instants,
             Issue(s, u, p, now)
      PROVE  IssuersApart'
  <2> DEFINE new == [seed |-> s, token |-> nextToken']
  <2>1. nextToken' = nextToken + 1 /\ issuing' = issuing \cup {new}
    BY <1>5, IssueDraws
  <2>2. \A x \in issuing : x.token # new.token
    BY <1>1, <1>2, <2>1
  <2>3. new.token \in 1..nextToken'
    BY <1>1, <2>1
  <2>4. \A r \in Sessions!Held' : bySeed'[r].token = new.token => r = new.seed
    BY <1>5, IssueDraws
  <2> HIDE DEF new
  <2> QED BY <1>2, <1>3, <2>1, <2>2, <2>3, <2>4
<1>6. ASSUME NEW x \in issuing, IssueWritten(x) \/ IssueFailed(x)
      PROVE  issuing' \subseteq issuing
  BY <1>6 DEF IssueWritten, IssueFailed
<1> QED BY <1>4, <1>5, <1>6, IssuingMoves

LEMMA TokensKept ==
  ASSUME Base, TokensSpent, TicketSingleUse, Next
  PROVE  TokensSpent' /\ TicketSingleUse'
<1> USE DEF TokensSpent, TicketSingleUse
<1> DEFINE Carries(c) == session[c] # NoTicket
<1>1. /\ nextToken \in Nat /\ nextToken' >= nextToken /\ nextToken' \in Nat
      /\ \A s \in Sessions!Held' : \/ s \in Sessions!Held /\ bySeed'[s].token = bySeed[s].token
                                   \/ bySeed'[s].token > nextToken
  BY TokensGrow
<1>2. \A c \in Conns : phase[c] = "confirmed" => Carries(c)
  BY DEF Base, Identities
<1>3. ASSUME UNCHANGED Confirmed,
             \A c \in Conns : \/ UNCHANGED session[c]
                              \/ /\ c \notin Confirmed /\ UNCHANGED sessionStore
                                 /\ \E s \in Sessions!Held : session'[c].token = bySeed[s].token
      PROVE  TokensSpent' /\ TicketSingleUse'
  <2>1. \A c \in Conns : session'[c] # NoTicket => session'[c].token \in 1..nextToken'
    BY <1>1, <1>3, Fenced
  <2>2. \A c \in Confirmed : session'[c] = session[c] /\ session[c].token \in 1..nextToken
    BY <1>2, <1>3 DEF Confirmed
  <2>3. \A c \in Confirmed', s \in Sessions!Held' : bySeed'[s].token # session'[c].token
    BY <1>1, <1>3, <2>2
  <2>4. TicketSingleUse'
    BY <1>3, <2>2
  <2> QED BY <2>1, <2>3, <2>4
<1>4. ASSUME NEW c \in Conns, NEW now \in Instants, Confirm(c, now)
      PROVE  TokensSpent' /\ TicketSingleUse'
  <2>1. \A d \in Confirmed : session[d].token # session[c].token
    BY <1>4, ConfirmSpends DEF Pending
  <2> QED BY <1>4, <2>1, ConfirmSpends
<1> QED BY <1>3, <1>4, AdmissionMoves

-----------------------------------------------------------------------------
(* Admission                                                               *)

\* Removing held tickets from the store makes exactly their tokens void.
LEMMA RemovalVoids ==
  ASSUME Base, NEW S \in SUBSET Sessions!Held
  PROVE  {bySeed[s].token : s \in Sessions!Held \ S} = Pending \ {bySeed[s].token : s \in S}
BY Fenced DEF Pending

\* A Revoke takes the ticket it is called for, if it is there, and no other.
LEMMA RevokeVoids ==
  ASSUME Base, IssuersApart, NEW x \in issuing, Sessions!Revoke(x.seed, x.token)
  PROVE  Pending' = Pending \ {x.token} /\ UNCHANGED nextToken
<1>1. bySeed \in [Seeds -> Sessions!Ticket \cup {NoTicket}] /\ x.seed \in Seeds
  BY BaseTypes DEF Sessions!TypeOK, Base, ConnectionsTyped
<1>2. CASE x.seed \in Sessions!Held /\ bySeed[x.seed].token = x.token
  <2>1. bySeed' = Sessions!BySeedWithout({x.seed}) /\ UNCHANGED nextToken
    BY <1>2 DEF Sessions!Revoke, Sessions!DeleteLocked
  <2>2. Sessions!Held' = Sessions!Held \ {x.seed} /\ \A r \in Sessions!Held' : bySeed'[r] = bySeed[r]
    BY <1>1, <2>1 DEF Sessions!BySeedWithout, Sessions!Held
  <2>3. Pending' = {bySeed[r].token : r \in Sessions!Held \ {x.seed}}
    BY <2>2 DEF Pending
  <2>4. Pending' = Pending \ {bySeed[r].token : r \in {x.seed}}
    BY <1>2, <2>3, RemovalVoids
  <2> QED BY <1>2, <2>1, <2>4
<1>3. CASE ~ (x.seed \in Sessions!Held /\ bySeed[x.seed].token = x.token)
  <2>1. UNCHANGED <<bySeed, nextToken>>
    BY <1>3 DEF Sessions!Revoke, Sessions!storeVars
  <2>2. x.token \notin Pending
    BY <1>3 DEF IssuersApart, Pending
  <2>3. UNCHANGED Pending
    BY <2>1 DEF Pending, Sessions!Held
  <2> QED BY <2>1, <2>2, <2>3
<1> QED BY <1>2, <1>3

LEMMA LedgerSteps ==
  /\ \A V \in SUBSET Pending : Ledger!Issue(V) \/ Ledger!Void(V) => Ledger!Next
  /\ \A t \in Unanswered : Ledger!Answered(t) \/ Ledger!Withdraw(t) => Ledger!Next
  /\ \A t \in Pending, c \in Conns : Ledger!Admit(t, c) => Ledger!Next
BY Zenon DEF Ledger!Next, Pending, Unanswered

LEMMA StepAdmission ==
  ASSUME Base, IssuersApart, Next
  PROVE  [Ledger!Next]_Ledger!admissionVars
<1> USE DEF Ledger!admissionVars
<1>1. /\ Pending = {bySeed[s].token : s \in Sessions!Held}
      /\ AdmittedBy = {<<session[c].token, c>> : c \in Confirmed}
      /\ Unanswered = {x.token : x \in issuing}
  BY DEF Pending, AdmittedBy, Unanswered
<1>2. ASSUME NEW c \in Conns, NEW now \in Instants, Confirm(c, now)
      PROVE  Ledger!Next
  <2> DEFINE t == session[c].token
  <2>1. Pending' = Pending \ {t} /\ t \in Pending
    BY <1>2, ConfirmSpends DEF Pending
  <2>2. AdmittedBy' = AdmittedBy \cup {<<t, c>>} /\ \A pair \in AdmittedBy : pair[2] # c
    BY <1>2, ConfirmSpends DEF AdmittedBy
  <2>3. UNCHANGED <<nextToken, Unanswered>>
    BY <1>2, ConfirmSpends DEF Unanswered
  <2>4. Ledger!Admit(t, c)
    BY <2>1, <2>2, <2>3 DEF Ledger!Admit, Pending, AdmittedBy, Unanswered
  <2> QED BY <2>1, <2>4, LedgerSteps
<1>3. ASSUME UNCHANGED AdmittedBy, UNCHANGED <<issuing, nextToken>>
      PROVE  [Ledger!Next]_Ledger!admissionVars
  <2>1. UNCHANGED Unanswered /\ nextToken' # nextToken + 1
    BY <1>3, Fenced DEF Unanswered
  <2>2. CASE UNCHANGED sessionStore
    <3>1. UNCHANGED <<Pending, nextToken>>
      BY <2>2 DEF Pending, sessionStore, Sessions!Held
    <3> QED BY <1>3, <2>1, <3>1 DEF Pending, AdmittedBy, Unanswered
  <2>3. ASSUME NEW S \in SUBSET Sessions!Held, bySeed' = Sessions!BySeedWithout(S),
               Sessions!Held' = Sessions!Held \ S
        PROVE  Ledger!Next
    <3> DEFINE voided == {bySeed[s].token : s \in S}
    <3>1. \A s \in Sessions!Held \ S : bySeed'[s] = bySeed[s]
      BY <2>3 DEF Sessions!BySeedWithout, Sessions!Held
    <3>2. Pending' = {bySeed[s].token : s \in Sessions!Held \ S}
      BY <2>3, <3>1 DEF Pending
    <3>3. Pending' = Pending \ voided /\ voided \in SUBSET Pending
      BY <3>2, RemovalVoids DEF Pending
    <3>4. PICK V \in SUBSET Pending : Pending' = Pending \ V
      BY <3>3
    <3>5. Ledger!Void(V)
      BY <1>3, <2>1, <3>4 DEF Ledger!Void, Pending, AdmittedBy, Unanswered
    <3> QED BY <3>5, LedgerSteps
  <2> QED BY <2>1, <2>2, <2>3, StoreMoves
<1>4. ASSUME UNCHANGED AdmittedBy, NEW s \in Seeds, NEW u \in Users, NEW p \in Peers,
             NEW now \in Instants, Issue(s, u, p, now)
      PROVE  Ledger!Next
  <2>1. Unanswered' = Unanswered \cup {nextToken'} /\ nextToken' = nextToken + 1
    <3> DEFINE new == [seed |-> s, token |-> nextToken']
    <3>1. nextToken' = nextToken + 1 /\ issuing' = issuing \cup {new}
      BY <1>4, IssueDraws
    <3>2. new.token = nextToken'
      OBVIOUS
    <3> HIDE DEF new
    <3>3. Unanswered' = Unanswered \cup {new.token}
      BY <3>1 DEF Unanswered
    <3> QED BY <3>1, <3>2, <3>3
  <2>2. nextToken' # nextToken
    BY <2>1, Fenced
  <2>3. PICK S \in SUBSET Sessions!Held, r \in Seeds :
          /\ Sessions!Held' = (Sessions!Held \ S) \cup {r}
          /\ \A q \in Sessions!Held \ S : bySeed'[q] = bySeed[q]
          /\ r \notin Sessions!Held \ S
          /\ bySeed'[r].token = nextToken + 1
    BY <2>2, StoreMoves DEF sessionStore
  <2> DEFINE voided == {bySeed[q].token : q \in S}
  <2>4. Pending' = {bySeed[q].token : q \in Sessions!Held \ S} \cup {nextToken'}
    BY <2>1, <2>3 DEF Pending
  <2>5. Pending' = (Pending \ voided) \cup {nextToken'} /\ voided \in SUBSET Pending
    BY <2>4, RemovalVoids DEF Pending
  <2>6. PICK V \in SUBSET Pending : Pending' = (Pending \ V) \cup {nextToken'}
    BY <2>5
  <2>7. Ledger!Issue(V)
    BY <1>4, <2>1, <2>6 DEF Ledger!Issue, Pending, AdmittedBy, Unanswered
  <2> QED BY <2>7, LedgerSteps
<1>5. ASSUME UNCHANGED AdmittedBy, NEW x \in issuing, IssueWritten(x) \/ IssueFailed(x)
      PROVE  Ledger!Next
  <2> DEFINE t == x.token
  <2>1. t \in Unanswered /\ Unanswered' = Unanswered \ {t}
    <3>1. issuing' = issuing \ {x}
      BY <1>5 DEF IssueWritten, IssueFailed
    <3> QED BY <3>1 DEF Unanswered, IssuersApart
  <2>2. CASE IssueWritten(x)
    <3>1. UNCHANGED <<Pending, nextToken>>
      BY <2>2 DEF IssueWritten, Pending, sessionStore, Sessions!Held
    <3>2. Ledger!Answered(t)
      BY <1>5, <2>1, <3>1 DEF Ledger!Answered, Pending, AdmittedBy, Unanswered
    <3> QED BY <2>1, <3>2, LedgerSteps
  <2>3. CASE IssueFailed(x)
    <3>1. Pending' = Pending \ {t} /\ UNCHANGED nextToken
      BY <2>3, RevokeVoids DEF IssueFailed
    <3>2. Ledger!Withdraw(t)
      BY <1>5, <2>1, <3>1 DEF Ledger!Withdraw, Pending, AdmittedBy, Unanswered
    <3> QED BY <2>1, <3>2, LedgerSteps
  <2> QED BY <1>5, <2>2, <2>3
<1>6. CASE UNCHANGED Confirmed /\ \A c \in Confirmed : UNCHANGED session[c]
  <2>1. UNCHANGED AdmittedBy
    BY <1>6 DEF AdmittedBy
  <2> QED BY <2>1, <1>3, <1>4, <1>5, IssuingMoves
<1>7. Confirmed \subseteq Conns
  BY DEF Confirmed
<1> QED BY <1>2, <1>6, <1>7, AdmissionMoves

-----------------------------------------------------------------------------
(* The invariant of the lobby and its theorems                             *)

IInv ==
  /\ Base /\ RegistrySound /\ SupersededDoomed /\ PushSeedsUnique /\ MatchesOwnedAlive
  /\ TokensSpent /\ TicketSingleUse /\ IssuersApart

LEMMA InitIInv == Init => IInv
<1> SUFFICES ASSUME Init PROVE IInv
  OBVIOUS
<1>1. Base /\ Confirmed = {}
  BY InitBase DEF Init, Confirmed
<1>2. RegistrySound /\ SupersededDoomed /\ PushSeedsUnique
  BY <1>1, LobbyAssumption DEF Init, RegistrySound, SupersededDoomed, PushSeedsUnique
<1>3. MatchesOwnedAlive
  BY DEF Init, MatchesOwnedAlive, Matches!Init, Matches!Stored
<1>4. TokensSpent /\ TicketSingleUse /\ IssuersApart
  BY <1>1 DEF Init, TokensSpent, TicketSingleUse, IssuersApart
<1> QED BY <1>1, <1>2, <1>3, <1>4 DEF IInv

LEMMA StepIInv == IInv /\ [Next]_vars => IInv'
<1> SUFFICES ASSUME IInv, [Next]_vars PROVE IInv'
  OBVIOUS
<1>1. Base /\ Base'
  BY StepBase DEF IInv
<1>2. CASE UNCHANGED vars
  <2> USE <1>2 DEF vars, sessionStore, matchStore, identity, clients, pushes, wire, IInv
  <2>1. UNCHANGED <<Confirmed, Sessions!Held, Matches!Stored>>
    BY DEF Confirmed, Sessions!Held, Matches!Stored
  <2>2. RegistrySound' /\ SupersededDoomed' /\ PushSeedsUnique'
    BY <2>1 DEF RegistrySound, SupersededDoomed, PushSeedsUnique
  <2>3. MatchesOwnedAlive' /\ TokensSpent' /\ TicketSingleUse' /\ IssuersApart'
    BY <2>1 DEF MatchesOwnedAlive, TokensSpent, TicketSingleUse, IssuersApart
  <2> QED BY <1>1, <2>2, <2>3
<1>3. CASE Next
  BY <1>1, <1>3, RegistryKept, SupersededKept, PushSeedsKept, OwnersKept, TokensKept,
     IssuersKept DEF IInv
<1> QED BY <1>2, <1>3

LEMMA Invariance == Spec => []IInv
BY InitIInv, StepIInv, PTL DEF Spec

\* The two stores, the tickets being written, the registry and what each handler
\* knows keep their types; a connection never runs out of IDs (nextID).
THEOREM TypeCorrect == Spec => []TypeOK
<1>1. IInv => TypeOK
  BY BaseTypes DEF IInv
<1> QED BY <1>1, Invariance, PTL

\* However many connections copied a ticket with Lookup, Consume lets one of
\* them in (activateSession of lobby/lsg.go).
THEOREM TicketsUsedOnce == Spec => []TicketSingleUse
<1>1. IInv => TicketSingleUse
  BY DEF IInv
<1> QED BY <1>1, Invariance, PTL

\* The registry lists proved sessions under their own accounts, and none whose
\* handler has run its deferred deactivate.
THEOREM RegistryCorrect == Spec => []RegistrySound
<1>1. IInv => RegistrySound
  BY DEF IInv
<1> QED BY <1>1, Invariance, PTL

\* A client that was displaced by activate, or evicted after a push to it failed,
\* has its socket closed, or a goroutine that is about to close it, or is leaving.
THEOREM SupersededIsDoomed == Spec => []SupersededDoomed
<1>1. IInv => SupersededDoomed
  BY DEF IInv
<1> QED BY <1>1, Invariance, PTL

\* Pushes under way to one client have different server seeds, whoever sends
\* them (nextServerSeed of lobby/client.go).
THEOREM PushSeedsDiffer == Spec => []PushSeedsUnique
<1>1. IInv => PushSeedsUnique
  BY DEF IInv
<1> QED BY <1>1, Invariance, PTL

\* Every advertised match has a host that is connected and that will sweep it.
THEOREM MatchesHaveHosts == Spec => []MatchesOwnedAlive
<1>1. IInv => MatchesOwnedAlive
  BY DEF IInv
<1> QED BY <1>1, Invariance, PTL

\* Nobody but the connection that owns a match changes or removes it.
THEOREM MatchesKeptByOwner == Spec => MatchesChangedByOwner
<1> DEFINE Own ==
      \A i \in SessionIDs :
        byID'[i] # byID[i] =>
          \E c \in Conns :
            /\ At(c, "dispatching") \/ At(c, "deleting")
            /\ pc'[c] # pc[c]
            /\ \A m \in {byID[i], byID'[i]} \ {NoMatch} : m.owner = connectionID[c]
<1>1. ASSUME IInv, Next PROVE Own
  BY <1>1, MatchesChange DEF IInv, Keeps, At
<1>2. IInv /\ [Next]_vars => [Own]_vars
  BY <1>1
<1> QED BY <1>2, Invariance, PTL DEF Spec, MatchesChangedByOwner

\* The lobby calls the pending-session store as the store's own specification
\* allows, so that all that is proved of the store holds of it here.
THEOREM TicketStoreUsed == Spec => Sessions!Spec
<1>1. Tickets!Next <=> Sessions!Next
  BY SameTickets DEF Tickets!Next, Sessions!Next
<1>2. Init => Sessions!Init
  BY DEF Init
<1>3. IInv /\ [Next]_vars => [Sessions!Next]_Sessions!storeVars
  <2>1. CASE UNCHANGED vars
    BY <2>1 DEF vars, sessionStore, Sessions!storeVars
  <2> QED BY <1>1, <2>1, TicketCalls DEF IInv, Tickets!storeVars, Sessions!storeVars
<1> QED BY <1>2, <1>3, Invariance, PTL DEF Spec, Sessions!Spec

\* The same for the table of matches.
THEOREM MatchTableUsed == Spec => Matches!Spec
<1>1. Table!Next <=> Matches!Next
  BY SameTable DEF Table!Next, Matches!Next
<1>2. Init => Matches!Init
  BY DEF Init
<1>3. IInv /\ [Next]_vars => [Matches!Next]_Matches!matchVars
  <2>1. CASE UNCHANGED vars
    BY <2>1 DEF vars, matchStore, Matches!matchVars
  <2> QED BY <1>1, <2>1, TableCalls DEF IInv, Table!matchVars, Matches!matchVars
<1> QED BY <1>2, <1>3, Invariance, PTL DEF Spec, Matches!Spec

\* Tickets and logins implement Admission: a ticket is issued, expires, is taken
\* back by the handler that issued it and could not write the answer, or admits
\* one connection, once; a Revoke (auth/lobby_session.go) takes no other ticket.
THEOREM AdmissionImplemented == Spec => AdmissionRefined
<1>1. Init => Ledger!Init
  BY DEF Init, Sessions!Init, Ledger!Init, Sessions!Held, Confirmed
<1>2. IInv /\ [Next]_vars => [Ledger!Next]_Ledger!admissionVars
  <2>1. CASE UNCHANGED vars
    BY <2>1 DEF vars, sessionStore, identity, Ledger!admissionVars, Sessions!Held, Confirmed
  <2> QED BY <2>1, StepAdmission DEF IInv
<1> QED BY <1>1, <1>2, Invariance, PTL DEF Spec, AdmissionRefined, Ledger!Spec
=============================================================================
