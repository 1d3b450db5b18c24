# A TLA+ model of the Play Online server

This directory models, checks and proves properties of the Go server in this
repository: login and tickets, the lobby, matchmaking, peer messages, the
account file, the process and its connections, and the messages themselves, from
the first bytes of a connection to the frames that come back.

* Model check a module: `tlc -config MCServer.cfg MCServer.tla`
* Check the proofs of a module: `tlapm AccountStore_proof.tla`

`PROJECT.json` maps every definition to the lines it models, lists the runs,
the mutations that show each property can fail, the hazards and the theorems.

## 1. The system

A game client opens a TCP connection (port 3074). The **router** looks at the
first frame and hands the connection to one of two protocols.

* **Authentication**: a client creates an account, or asks for a *ticket* for
  an account. A ticket is a random 32-bit seed plus a session key.
* **Lobby**: a client logs in with the seed of its ticket, proves that it has
  the session key with its first encrypted request, and then advertises and
  searches matches and sends short messages to other players.

A UDP socket (port 3478) answers STUN requests. Everything but the accounts is
in memory. One goroutine serves each TCP connection; the stores and the client
registry are what they share.

| Component | State | Operations | Interacts with | Hard part |
|---|---|---|---|---|
| Ticket store `auth/lobby_session.go` | pending tickets by seed, count per account, token counter | Reserve, Lookup, Consume, Revoke, purge | authentication and lobby call it | a seed can be reused while someone still holds the old ticket; counters over five ways to delete |
| Ticket issuing `auth/handler.go` | none of its own | reserve, reply, revoke on failure | ticket store | the reply's failure is known late |
| Match store `lobby/matchmaking_store.go` | matches by ID, count per owner, age counter | Create, Update, Delete, DeleteOwner, Find | lobby | random map order, paging, 32-bit sums |
| Lobby handler `lobby/lsg.go` | per connection: phase, ticket copy, connection ID, control count | the read loop and its requests | all stores, the registry | lookup and consumption are apart; the deferred clean-up |
| Client registry and writes `lobby/client.go` | active client per account; write mutex and push seed per client | activate, deactivate, lookup, writeFrame | other connections' goroutines | a new connection displaces the old one from outside; pushes to a client that is going |
| Account store and file `auth/store.go`, `auth/account_file.go` | three maps, next ID, counts per source; a JSON file | register, lookups, load | authentication; lobby looks up | failures, kills and power losses between rename and directory sync |
| Runtime `server/server.go` | connection set, counts per source, slots, worker count, flags | Serve, accept and datagram loops, connection end, Shutdown | router, STUN, main | shutdown against accepting; errors of one loop |
| Router `backend/router.go` | how far it has peeked | route | authentication, lobby | two readers of the same bytes |
| Records and frames `bitdemon/frame.go` | none | read a record, write a frame | everybody | reserved lengths, partial writes, two writes to a frame |
| Bit and byte buffers `bitdemon/*buffer.go` | stream and offset | typed reads and writes | all message parsers | values across bytes, rollback |
| Messages: `auth/create_account.go`, `auth/account_for_mmp.go`, `lobby/envelope.go`, `lobby/matchmaking.go`, `lobby/messaging.go`, `lobby/eventlog.go` | none | parse, marshal | handlers, buffers, ciphers | limits met exactly, padding, one form for each message |
| STUN `stun/*.go` | none | parse, answer | runtime | which peers are answered |
| Ciphers `bitdemon/crypto.go`, `bitdemon/tiger*.go` | none | IVs, 3DES, HMAC | messages | numeric |
| Main `cmd/codboz-online-server` | flags | wire up, wait for a signal or for Serve | runtime | a signal before Serve, or with its failure |

What makes them correct, in short: tickets admit once and limits hold (ticket
store, lobby); a player has one live lobby client, and matches belong to live
clients (lobby, match store); an acknowledged account is never lost and the
server always starts again (account store); every connection is counted, closed
and waited for, and the process ends when it is asked to (runtime, main); both
readers of a stream agree (router); what is written is what is read (buffers); a
request within the limits is understood and has one form (messages); a client
gets whole frames, its replies in order (records and writes). `PROJECT.json`
lists the hazards line by line.

## 2. The modules

| Module | Models | Checked by | Proved in |
|---|---|---|---|
| `LobbySessionStore` | the ticket store | `MCLobbySessionStore` | `LobbySessionStore_proof` |
| `MatchmakingStore` | the match table | `MCMatchmakingSearch` | `MatchmakingStore_proof` |
| `MatchmakingSearch` | Find, extends the table | `MCMatchmakingSearch` | `MatchmakingStore_proof` |
| `Lobby` | handler, registry, writes and ticket issuing; instantiates both stores | `MCLobby`, three configurations | `Lobby_proof` |
| `Admission` | abstract: a ticket admits one connection, and only its issuer takes it back | as a property of `Lobby` | `Lobby_proof` |
| `AccountStore` | account store and file | `MCAccountStore`, two configurations | `AccountStore_proof` |
| `Server` | the runtime, and main from the first signal to the exit status | `MCServer` | `Runtime_proof` |
| `TCPRouter` | router, record reader, authentication's record loop | `MCTCPRouter` | `Runtime_proof` |
| `BitStream` | one call of the bit writer and reader, as operators | through `BitBuffer`, `Requests` | `BitBuffer_proof`, `Requests_proof` |
| `BitBuffer` | a writer, a cut, a reader; extends `BitStream` | `MCBitBuffer` | `BitBuffer_proof` |
| `ByteBuffer` | the byte writer and reader, as operators | through `Requests` | `Requests_proof` |
| `LobbyMessages` | envelope, requests, replies and pushes of the lobby; extends `ByteBuffer` | through `Requests`, `LobbyStream` | `Requests_proof`, `LobbyStream_proof` |
| `AuthMessages` | both authentication requests, the lobby's login, and the replies; extends `BitStream` | through `Requests` | `Requests_proof` |
| `Stun` | the binding responder | through `Requests` | `Requests_proof` |
| `Requests` | a request written, sealed, altered on its way, parsed and answered; extends the three above | `MCRequests` | `Requests_proof` |
| `LobbyStream` | the frames one client receives from its handler and from others; extends `LobbyMessages` | `MCLobbyStream` | `LobbyStream_proof` |

### How they correspond to the code

**Ticket store.** `bySeed`, `sessionsByAccount` and `nextToken` are the fields
of the same names. A method holds one mutex for all of its body and is one
action. The instant it works with was read before it took the mutex and clocks
may be stepped, so each action takes any instant. Peers and seeds are model
values. The session key is a part of the ticket: who holds one holds the other.

**Match store.** One action per method that writes. An advertisement is an
opaque `Infos` value; in `MatchmakingSearch` it is the three attributes that a
query compares. The random draw of an ID is a choice among those not in use.
`NumPlayers` is always 1 and is left out. `Find` works on the copy it took under
the read lock, so it is a function of one state of the table.

**Lobby.** `pc[c]` is where the goroutine of connection `c` is between two
accesses to shared state: a store call, a registry operation, taking a write
mutex, a write, a close. What the goroutine looked up before and uses after is in
`session` and `other`. `Quit` stands for all paths that only return (end of
stream, deadline, bad record). A write is begun when the mutex is had
(`StartReply`, `StartPush`) and ends in `Written` or `Failed`; a failure may
leave a part of a frame on the wire (`torn`). `Leave`, `DeleteMatches` and
`Close` are the deferred calls in their order. `Issue…` is
`handleAccountForMMP`: the ticket can be used while its reply is still being
written, and the failure of the reply revokes the ticket if it is still there: by
then it may have expired and its seed may hold another ticket. The
parsers decide which request a frame is; the model chooses. The record limit is
zero, unlimited, as in main; the server's shutdown only closes sockets and
cancels, which the handler sees as `Quit`, and is left to `Server`.

**Account store.** A registration holds the mutex, so between its steps
(`RegisterFromPeer`, `Rename`, `SyncDirectory`, `Commit`) only failures, `Kill`
and `PowerLoss` come. All before the rename is one step: it succeeds or leaves no
trace (a temporary file that a kill leaves is never read). `landing` is the set
of contents the directory entry can have after a power loss; the directory sync
makes it one. A missing file is the empty content. File permissions, JSON and the
version are left out, as is the registration without a peer, which only tests
use.

**Runtime.** A step of `Server` is a section under the mutex, one operation on
the slot channel or one close. `phase[c]` follows a connection through accept,
slot, registration, handler, release. `toClose` holds the copy of the connection
set that each call of `closeConnections` works off outside the mutex. `Shutdown`
can come before `Serve`. Handlers are a black box that may return at any time.
`caller` is the main goroutine: it selects between a signal and the result of
`Serve`, calls `Shutdown`, and waits for the result. `exit` is how `run` returned;
with it the process is over and nothing moves (`Alive`). The handler that main
installs for datagrams logs errors and returns none, so only the socket can end
the datagram loop.

**Router.** The stream is a sequence of 32-bit words that arrive one by one; all
lengths that matter are multiples of four and the first word of a body carries
the flag and the message type. `offset` and `controlCount` are the router's,
`pos` and `recordIndex` those of the handler that reads the same words again.
The two deadlines can strike a read that has to go to the socket, not one that
what the router peeked at can serve. `ShutDown` is the end of the handler that finds
its context cancelled, or of a read on the socket that the shutdown closed: it may
come at any moment, and what brings it about is in `Server`. Streams whose lengths are
not whole words are left out.

**Bit buffer.** A value is the sequence of its bits, at the real widths. `data`
grows by whole bytes; bits are or-ed in one by one. A reader gets a prefix of
the bytes and may make any calls in any order. The operators are in `BitStream`,
where the authentication messages use them too.

**Messages.** Bodies are sequences of bytes at their real positions. A request or
reply is a list of typed fields (`Fields`, `ResultFields`, `Items`) that the
readers and writers of the buffers go through one after the other, up to the first
that fails; what the parsers check beyond types and limits is in `Supported`,
`ValidPadding`, `WellFormed`, `ValidBlock`. Integers are the bytes they consist of.
3DES and the HMAC are external: a byte-wise shift that depends on seed and
position stands for the one, length and ends of the payload for the other. Both are
deliberately weak, so that altered bodies get past them to the parsers.
`Payload`, `Sealed`, `AuthBody` and `BindingPacket` are the client's side, which
`src/` has in its tests only. The ticket in the reply of a login is one opaque value.

**Requests.** A request goes through the steps of one exchange. Between them one
alteration may come: one of its bits is flipped, or bytes at its end are missing or
repeated, before it is sealed (`Slip`: a client with a bug) or after (`Damage`: the
path). `Parse` is the parser of the service the body goes to; an error ends the
connection. `Reply` is what the service writes, for any of the things that it may
have to say.

**Frames to one client.** `LobbyStream` looks at one connection: its handler goes
through `HandleTCP` record by record; the handlers of other players, once the
client is in the registry, push to it. `writing` and `next` are where each of them
is in `writeFrame`: at the mutex, before the prefix, before the body. Either write
may fail, with nothing or a part written. A frame is what it answers, its transaction
number and its size, and the size is that of the marshalled message of
`LobbyMessages`: no size is assumed. What `Lobby` does with the registry and
the sockets of all connections is here what happens to one of them (`Displaced`,
`Deactivate`, `CloseRecipient`). The limit of control records before the first
request, in `Lobby`, is above what the bounded client sends here.

## 3. What the runs check

| Run | Bounds | What it shows |
|---|---|---|
| `session_store` | 4 seeds, 2 accounts, 2 peers, 3 instants, limits 3 and 2, 6 tokens | counters, limits, only live tickets count, a seed passes to newer generations only |
| `matches` | 4 IDs, 2 owners, limits 3 and 2, 5 creations, two-bit offsets and limits | counters, limits; Find equals a counted reference; survivors keep owner and rank, new matches go behind them |
| `lobby_tickets` | 2 connections, 1 account, 2 seeds, 3 tokens | a ticket admits once; the registry is sound; `Lobby` implements `Admission`, a late `Revoke` included |
| `lobby_return` | 2 players and a third connection of one of them, 1 push per client | a client that has lost its place in the registry, for whatever reason, is doomed; a late deactivation never takes its replacement out |
| `lobby_live` | 1 player who comes back on a second connection, 1 ID, 2 pushes per client | matches belong to live, proved connections and only these change them; push seeds are never shared; a displaced connection ends; a closed or torn one goes and so do its matches, for good; a provisional one is confirmed or ends |
| `account_store` | 4 names, 3 hashes, 2 passwords, 3 accounts, 2 sources | acknowledged accounts survive, the file always loads, maps agree |
| `account_rollback` | the same | the finding of section 5 |
| `server` | 4 connections, 2 slots, 1 per source | counts, limits, nobody left behind, no success reported for less; a signal or the loss of either loop ends the process |
| `tcp_router` | 7 words, streams of 5, limits 2 and 2 | the two readers agree; requests are answered or refused, unless a shutdown, a failing write or the record limit ends the connection |
| `bit_buffer` | 2 values of 2 patterns, any truncation | what is written is read; failures are free |
| `requests` | 24 requests of all ten kinds at, below and above their limits; any one alteration; 8 kinds of answers | a legal request is understood and its answer says what was meant; whatever is accepted is legal and has one form |
| `stream` | 3 records, 2 other players, 2 pushes, names of 21 and 64, real limits | whole frames up to the first failed write, never of the reserved size; replies in order and numbered; no push before the connection ID |

**Why the bounds are enough to be of interest.** Each limit is reached and
refused in some state. Tokens exceed seeds, so that seeds are reused; creations
exceed IDs. Two instants (one for the stores, where a third allows a ticket to
outlive another) let every ticket be found expired by any call. `Seated`, the
initial state of the runs with players, is a state that two logins lead to: it
spares the interleavings of the logins, which `lobby_tickets` has. In the lobby
runs the services that a property does not depend on are switched off with
`Services`. Symmetry is used in safety runs only, over values that no definition
tells apart. `MaxToken`, `MaxOrder`, `MaxPushes`, `MaxUserID`, `MaxLanding`,
`MaxSent`, `MaxItems`, `MaxRecords` and `MaxPage` bound counters that the code does not bound (its 32- and
64-bit counters wrap after more steps than a server lives for, connection IDs and
tokens skip zero when they do); the other constants are configuration.
`MaxLanding = 3` allows two registrations in a row to fail at the directory sync.
In `requests` the limits of blobs and names are scaled to a few bytes, so that
requests lie on, below and above each; matches keep their real text limit, and a page
of one match with a host of 80 and a name of 21 bytes makes the one reply, of 200
bytes, that has to be enlarged. `stream` has all the real limits, that page among its
pages, a name beyond what a match may carry and a push may name, and a player who
sends messages to himself. `MaxAlterations = 1`: a second alteration only undoes or
hides the first.

**Deadlock** is not checked: the models run out of bounded counters, and all
the programs modelled may end. That things which must happen do happen is stated
as liveness.

**Fairness.** In `Lobby`, weak fairness of the goroutine of each connection: a
read ends by its deadline and a write by its own, whatever the client does. Taking
a write mutex is strongly fair: Go's `sync.Mutex` hands itself to a waiter that
has starved for a millisecond. Clients owe nothing, not even to open a connection.
In `Server`, weak fairness of each goroutine's own steps; a handler is promised to
return only once its socket is closed, since its reads and writes then fail. The
timeout of `Shutdown` is not counted on, so `AlwaysEnds` says that a shutdown ends
by itself; that it may be cut short by the timeout is one of its behaviours.

## 4. What is proved

The proofs hold for all values of the constants that satisfy the named
assumptions (finite key sets, positive limits), not only for the instances. Every
invariant and action property of a passing run is a theorem. The inductive
invariants are called `IInv`; the router's, which shares a module with the
runtime's, `RouterIInv`, and that of the requests `UnderWay`.

**`LobbySessionStore_proof`** and **`MatchmakingStore_proof`**. The inductive
invariants are `TypeOK`, exact counters, limits and distinct generations or ranks.
The limits depend on the counters: a reservation compares the counter, and the
limit on the real number of tickets follows only because the counter is exact. The
code clamps counters at zero; the lemma `RemainingExact` (`LeftExact`) shows that
after the removal of any set of tickets of which it counted each, the clamped
counter is still the exact one, and that covers all the ways to delete at once.
From there: `CountersExact`, `LimitsHold`, `TokensDistinct`,
`ExpiredNeverCount` (a reservation is refused exactly when live tickets leave no
room), `GenerationsGrow`; `RanksTotal`, `RanksKept`.

`SearchExact` is about `Find` in any state that satisfies the invariant. Distinct
ranks make the sort unique: counting the matches that rank below is strictly
monotone, hence one-to-one onto the places (`ArrangementExists`), and whatever is in
rising order has each match at that place (`ArrangedByPlace`). The total fits its
type since the table never exceeds its limit, for which `SearchAssumption` asks that
the width of integers holds the capacity: `NewMemoryMatchmakingStoreWithConfig`
allows a million (`lobby/matchmaking_store.go:52`).

**`AccountStore_proof`**. `Durability`, `Recovery`, `IndexesAgree` and `OneAhead`.
The invariant says four things: memory is three indexes of one set with used IDs;
a registration under way still has what it checked; every content in `landing` is
loadable and has all acknowledged accounts; the file is at most one account ahead
of memory. The last is what a failed directory sync needs: the account that
stays on the file has the ID of the next registration, which rewrites the file
without it, so no two accounts ever share an ID or a hash on the disk.
`Recovery` assumes `MaxAccounts <= MaxReadable`, and cannot do without: the
constructor takes limits of up to 1,000,000 accounts (`auth/store.go:58`), the
reader refuses files above 16 MiB (`auth/account_file.go:57`), which some 130,000
accounts fill, and the writer does not check. The binary keeps the default of 4096.

**`Runtime_proof`, the runtime**. `CountersExact` needs little more than itself: `Moved` says once
what a step of a connection does to each set of connections in given phases and to
its size, and every count is the size of such a set. `NothingLeft` and `NobodyMissed`
need how the goroutines wait for each other: the accept loop has at most one
connection in hand (`InHand`); how far `Serve` has got tells which loops are over and
that no handler is left when it returns (`LoopsOver`); nothing is cancelled before
somebody asked or a loop reported its loss (`LossReported`); and what `Shutdown` has
copied covers every handler whose socket is open (`ListComplete`), which holds because
a connection registers under the mutex that guards the flag.

**`Lobby_proof`** instantiates the modules with the proofs of the two stores: `TicketCalls`
and `TableCalls` show that each step of the lobby is, for each store, one of its
methods or none, and what the stores keep under any calls they keep under these
(`TicketStoreUsed`, `MatchTableUsed`: the lobby implements the stores' own
specifications). Beside that, `Base` says that a connection gets session and ID
together and what a handler holds at each place, and that IDs are drawn one per
connection. On it rest `RegistryCorrect`, `SupersededIsDoomed`, `PushSeedsDiffer`,
`MatchesHaveHosts` and `MatchesKeptByOwner`. `TicketsUsedOnce` is not inductive: a
connection holds a copy of a ticket that others may use meanwhile. `TokensSpent` adds
that a token that has admitted somebody is not pending any more and is not drawn
again, for which the generations of the store are distinct and grow. The same
facts, with one about the handlers that issue tickets, make each step of the lobby a
step of the abstract `Admission` or a stutter (`AdmissionImplemented`): what a call
removes from the store has expired, unless `Consume` was it, which admits, or
`Revoke`, which takes back one ticket for its issuer. `IssuersApart` is the fact
about the issuers: no two of them have the same token in hand, and none has one that
the store holds under another seed, so that a `Revoke` which compares the tokens finds
its own ticket or nothing (`RevokeVoids`).

**`Runtime_proof`, the router**. Where the records of a stream begin is defined by a recursive
function over positions. That it has a solution is proved from a least fixed point
(`Least`, `Solution`), and from there that no record begins within another
(`StartsApart`) and that what arrives later changes nothing before
(`StartsAppend`). The invariant: the router has skipped whole control records only
and counted them, and the service was picked by the frame at its offset. A handler that has
served nothing stands at or before that frame with all of it already there
(`NotBeyondFrame`), which is why it neither blocks nor stops before it
(`FrameRouted`, `FirstRequestRead`); `RepliesExact`.

**`LobbyStream_proof`**. `FramesReachWhole` has an inductive invariant of two halves:
who is in `writeFrame` holds the mutex and a frame (`MutexHeld`), and the wire ends
behind a whole frame, or in the prefix of the frame in hand, or is cut and done
with (`EndOfWire`). That no frame has a reserved size follows for any page of any
matches from the arithmetic of `Enlarged` and of padding to blocks; `FramesWhole` states
both, whole parts and allowed sizes. `RepliesTold` counts: as long as replies get
through there is one on the wire for each record that has one, except for the one in
hand (`InAnswer`, `OneForOne`), and only a client that got its ID is pushed to
(`GreetedFirst`). `FlattenSeq` is recursive; that it yields a sequence over the same
set is proved by the least length without a solution.

**`BitBuffer_proof`**. `WrittenIsRead` needs that the bytes behind the writer are blank
(`BlankBehind`), since bits are or-ed in; that values follow each other without gap
and stay as written (`Gapless`, `Kept`); and that a cut keeps a prefix (`Arrived`).
Tags differ from each other, and a value that does not fit what arrived is an error
and moves nothing: `FailuresAreFree`.

**`Requests_proof`** is about what the messages say. `Canonical` is that whatever a
parser accepts is within the limits and is, byte by byte, what a client would have
written for the request it returns: no byte and no bit goes unread, whatever was
altered before. `AllUnderstood` is the converse, that a legal request which arrives as
it was written is returned as it was meant, and that the client reads out of the
answer what the service had to say. The invariant `UnderWay` is short: a verdict is
what the parser makes of the body, an unaltered body is the body of the request, and
an answer is the one to its verdict. The work is in the lemmas about the parsers, in
pairs from layer to layer: `…There` says that what was written at a place is read
from it, `…Gives` that what is read successfully had been written there.

| Layer | Lemmas | What carries them |
|---|---|---|
| one value of the byte buffer | `FixedThere`, `BlobThere`, `StringThere`, `FieldThere`, and `…Gives` | a length is four bytes that spell it in one way (`NumberWord`); a string ends at its first NUL |
| a list of fields | `FieldsThere`, `FieldsGive` | the first field, of any number, at which the two sides would part does not exist (`LeastNumber`) |
| payload and envelope of the lobby | `PayloadThere`, `EnvelopeThere`, and `…Gives` | the fill follows from the length (`OnlyFill`); the cipher can be undone (`CipherIs`) |
| one item of the bit stream, and a list | `NextThere`, `ItemsRead`, `ItemsPut`, `NextGives` | bytes pack and unpack to each other (`PackedUnpacked`, `UnpackedPacked`); bits behind the writer are blank |
| the bodies to the authentication service and the block of an account | `ContentThere`, `ClearThere`, `BlockThere`, and `…Gives` | the last byte's unused bits are zero (`UnusedZero`); a name stops at its first zero and nothing is behind it |
| binding requests | `BindingThere`, `BindingGives` | each length and flag has its one request |
| answers | `TaskReplyThere`, `MatchesThere`, `StatusSays`, `TicketSays`, `LoginSays`, `PeerSays` | pages of any number of matches, the enlarged page among them |

What the assumptions ask for. `RequestForms`: a request is made of bytes, in its
strings no NUL, and its fixed fields have their sizes; it may break every limit.
`OutcomeForms`: a page has at most `MaxFind` matches, each as the parser accepts one,
an ID has its size, a ticket its own. `LobbyLimits`: limits are below 2^31 (those of
the code are at most 2^16). `AuthSizes` and `StunAssumption` size the account block and
the responder's addresses. Of the ciphers the proofs use that they keep lengths and can
be undone with the same seed (`CipherIs`, `BlockCipherIs`), of the HMAC its length
(`MacIs`).

**Model-checked only.**

* All liveness (`ClosedGoes`, `ProvisionalEnds`, `SupersededGoes`, `AlwaysEnds`):
  fairness is about `ENABLED`, which the prover does not reach.
* That `FailedRollsBack` fails: a counterexample is a run's (section 5).

The inductive invariants were themselves checked by TLC on the runs' instances before
they were proved. Induction over a list of fields, items or matches is by the least
index at which the claim would fail: the library's induction theorems take an operator,
which the provers cannot instantiate.

## 5. A finding

**A failed registration can stay on the disk** (`account_rollback`).
`writeAccountFile` renames and then syncs the directory
(`auth/account_file.go:183`, `:193`); if the sync, or the opening, fails, the
caller is told that the registration failed and memory does not have it, but the
file does. `TestPersistentAccountStoreRollsBackFailedWrite`
(`auth/account_file_test.go:104`) states that a failed write rolls back, and
only fails it before the rename. After a restart the account exists, with the
password of the failed call. `OneAhead` bounds the damage: the next successful
registration removes it.

## 6. Not modelled, and the plan

Not modelled:

* Tiger, 3DES and SHA-1: numeric functions of 64-bit words without interaction;
  on a small instance nothing could go wrong that the test vectors beside them miss.
* The contents of the encrypted ticket (`buildEncryptedAuthTicket`): the server never
  reads it back, the client's side is not in the repository.
* The parsing of flags and the wiring in main, the ranges of configuration values,
  logging: they run once, in a row, before anything else, or change nothing.
* `MarshalFrame`, `WriteBufferAvailableRecord` and the buffers' untyped mode, which
  only tests use.
* `SetDeadline` calls that fail for another reason than a closed socket, counters
  that wrap around.
* A composition of `AccountStore` and `Lobby`. Accounts are never removed while a
  process runs, and tickets, connections and matches die with it: between the two
  there is only the lookup of an account that exists, and nothing to go wrong.
* Deployment scripts.

What is left:

1. That a push is what its reader takes it for. `FramesReachWhole` has the sizes of
   every push; the receiving side is a client, and is not in the repository.
2. The parts of the liveness proofs that are invariants: in each state of a connection
   that has to go, which of its steps is possible.
