----------------------------- MODULE MCRequests -----------------------------
(***************************************************************************)
(* At least one request of every kind, at the limits, one beyond them and  *)
(* below them; integers of their real widths, limits scaled to a few bytes *)
(* where nothing depends on them.  The answers include a page of one match *)
(* that makes a body of 200 bytes.                                         *)
(***************************************************************************)
EXTENDS Requests

Seed == <<165, 1, 0, 128>>
U32  == <<1, 2, 0, 240>>
U64  == <<9, 0, 7, 0, 5, 0, 3, 129>>
ID   == <<1, 0, 2, 0, 3, 0, 4, 255>>

Run(byte, n) == [i \in 1..n |-> byte]

Lobby(kind, values) == [kind |-> kind, seed |-> Seed, values |-> values]
Attributes(text) == <<U32, Word(3), U64, text, U32, Word(0), <<255, 255, 255, 255>>>>
Info(host, text) == <<host, U32, Word(4)>> \o Attributes(text)
Find(params, limit) == Lobby("find", <<Word(params), Word(0), Word(limit), U32, Word(7)>>)
Account(username) == [kind |-> "account", seed |-> Seed, username |-> username,
                      password |-> <<0, 255>>]

MCRequests ==
  {Lobby("log", <<blob, U32>>) : blob \in {<<>>, <<1, 0>>, <<1, 2, 3>>}}
    \cup {Lobby("create", Info(Run(0, 90), <<65>>)), Lobby("create", Info(Run(1, 91), <<65>>)),
          Lobby("update", <<ID>> \o Info(<<>>, Run(65, 31))),
          Lobby("create", Info(<<>>, Run(65, 32))), Lobby("delete", <<ID>>)}
    \cup {Find(1, 0), Find(1, 50), Find(1, 51), Find(0, 1), Find(1, 65586)}
    \cup {Lobby("message", <<U64, blob>>) : blob \in {<<7>>, <<7, 0, 0, 7>>, <<1, 2, 3, 4, 5>>}}
    \cup {Account(username) : username \in {<<65>>, <<32, 126, 65>>, <<31>>, <<65, 127>>}}
    \cup {[kind |-> "mmp", seed |-> Seed, hash |-> U64], [kind |-> "login", seed |-> Seed]}
    \cup {[kind |-> "binding", transaction |-> ID \o U64, change |-> change] :
            change \in {"none", "both"}}

Match(host, text) ==
  <<Run(10, host), ID, U32, Word(4), Word(1)>> \o Attributes(Run(66, text))

Page(results) == [id |-> ID, results |-> results, total |-> Len(results) + 300]

Endpoint(class, ip, port) == [class |-> class, ip |-> ip, port |-> port]

MCOutcomes ==
  [find    |-> {Page(<<>>), Page(<<Match(80, 21)>>), Page(<<Match(0, 1), Match(3, 0)>>)},
   account |-> {Word(700), Word(707)},
   mmp     |-> {[status |-> Word(704), seed |-> Seed, ticket |-> <<>>],
                [status |-> Word(700), seed |-> Seed, ticket |-> <<170, 85>>]},
   login   |-> {U64},
   binding |-> {Endpoint("unicast", <<10, 0, 0, 1>>, <<4, 5>>),
                Endpoint("unicast", <<10, 0, 0, 1>>, <<0, 0>>),
                Endpoint("multicast", <<224, 0, 0, 1>>, <<4, 5>>),
                Endpoint("ipv6", <<0, 0, 0, 0>>, <<4, 5>>)}]
    @@ [kind \in {"log", "create", "update", "delete", "message"} |-> {Page(<<>>)}]

MCTitle == <<4, 72, 0, 0>>
MCStunSource == [class |-> "unicast", ip |-> <<192, 0, 2, 1>>, port |-> <<13, 150>>]
MCTransaction == <<3, 0, 0, 0, 1, 0, 0, 0>>
=============================================================================
