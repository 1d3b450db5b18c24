------------------------------- MODULE Server -------------------------------
(***************************************************************************)
(* The runtime under the protocol handlers (server/server.go): the accept  *)
(* loop, the datagram loop, one goroutine per connection, Serve that waits *)
(* for them all, Shutdown, and the main goroutine that waits for a signal  *)
(* or for Serve, whichever is first, before Serve has begun included.      *)
(*                                                                         *)
(* A step is what runs between two points where another goroutine can      *)
(* interfere: a section under the server's mutex, one operation on the     *)
(* slot channel, one Close.  A connection is accepted at most once.        *)
(***************************************************************************)
EXTENDS Integers, FiniteSets

CONSTANTS
  Connections,                 \* connections that clients may open
  Sources,                     \* IPv4 addresses and IPv6 /64 networks
  SourceOf,                    \* connection -> its source, or NoSource
  NoSource,                    \* an address that tcpSourceIdentity refuses
  MaxTCPConnections,           \* capacity of connectionSlots
  MaxTCPConnectionsPerSource

ASSUME ServerAssumption ==
  /\ IsFiniteSet(Connections)
  /\ SourceOf \in [Connections -> Sources \cup {NoSource}]
  /\ NoSource \notin Sources
  /\ MaxTCPConnections \in Nat \ {0}
  /\ MaxTCPConnectionsPerSource \in Nat \ {0}

VARIABLES
  serve,         \* where Serve is
  tcp, udp,      \* where the two loops are
  failed,        \* the loops that returned an error
  result,        \* what Serve returned
  caller,        \* where serveUntilSignal and its call of Shutdown are
  exit,          \* how the process ended
  phase,         \* connection -> how far its goroutines have got
  open,          \* connections whose socket the server has not closed
  connections, connectionsBySource, slots, workers,
  shuttingDown, serving, cancelled,
  listening,     \* the listener and the packet socket are open
  toClose        \* what closeConnections has yet to close, for each call of it

loops == <<serve, tcp, udp, failed, result>>
pool  == <<phase, open, connections, connectionsBySource, slots, workers>>
flags == <<shuttingDown, serving, cancelled, listening>>
vars  == <<loops, caller, exit, pool, flags, toClose>>

Phases == {"new", "accepted", "slotted", "running", "returned", "unregistered",
           "released", "gone", "refused"}

TypeOK ==
  /\ serve \in {"called", "serving", "first", "cancelled", "draining", "closing",
                "waiting", "returned"}
  /\ tcp \in {"off", "on", "done"} /\ udp \in {"off", "on", "done"}
  /\ failed \subseteq {"tcp", "udp"}
  /\ result \in {"none", "nil", "error", "ErrShuttingDown"}
  /\ caller \in {"select", "signalled", "flagged", "closing", "awaiting", "finished", "exited"}
  /\ exit \in {"none", "ok", "error"}
  /\ phase \in [Connections -> Phases]
  /\ open \subseteq Connections
  /\ connections \subseteq Connections
  /\ connectionsBySource \in [Sources -> 0..MaxTCPConnectionsPerSource]
  /\ slots \in 0..MaxTCPConnections
  /\ workers \in 0..Cardinality(Connections)
  /\ {shuttingDown, serving, cancelled, listening} \subseteq BOOLEAN
  /\ toClose \in [{"serve", "caller"} -> SUBSET Connections]

Init ==
  /\ serve = "called" /\ tcp = "off" /\ udp = "off"
  /\ failed = {} /\ result = "none" /\ caller = "select" /\ exit = "none"
  /\ phase = [c \in Connections |-> "new"]
  /\ open = {} /\ connections = {}
  /\ connectionsBySource = [s \in Sources |-> 0]
  /\ slots = 0 /\ workers = 0
  /\ shuttingDown = FALSE /\ serving = FALSE /\ cancelled = FALSE
  /\ listening = TRUE
  /\ toClose = [x \in {"serve", "caller"} |-> {}]

In(P) == {c \in Connections : phase[c] \in P}

-----------------------------------------------------------------------------
(***************************************************************************)
(* Variants with a plausible bug.  No action uses them: each stands in for *)
(* a definition below to show that a property notices the difference.      *)
(***************************************************************************)
\* the accept loop forgets to look at shuttingDown under the mutex
RoomInShutdown(c) ==
  connectionsBySource[SourceOf[c]] < MaxTCPConnectionsPerSource

\* a refused connection keeps the slot it took
SlotLost == slots

\* the capacity of the slot channel is not a limit
SlotAlways == TRUE

\* the context is cancelled but the sockets stay open
CancelOnly == cancelled' = TRUE /\ UNCHANGED listening

\* Serve does not wait for the handlers
NoWait == TRUE

-----------------------------------------------------------------------------
(* Serve                                                                   *)

ServeBegin ==
  /\ serve = "called"
  /\ ~shuttingDown
  /\ serve' = "serving" /\ serving' = TRUE
  /\ tcp' = "on" /\ udp' = "on"
  /\ UNCHANGED <<failed, result, caller, exit, pool, shuttingDown, cancelled, listening, toClose>>

\* Shutdown came first
ServeTooLate ==
  /\ serve = "called"
  /\ shuttingDown
  /\ serve' = "returned" /\ result' = "ErrShuttingDown"
  /\ UNCHANGED <<tcp, udp, failed, caller, exit, pool, flags, toClose>>

FirstResult ==
  /\ serve = "serving"
  /\ tcp = "done" \/ udp = "done"
  /\ serve' = "first"
  /\ UNCHANGED <<tcp, udp, failed, result, caller, exit, pool, flags, toClose>>

Cancel ==
  /\ serve = "first"
  /\ serve' = "cancelled" /\ cancelled' = TRUE
  /\ UNCHANGED <<tcp, udp, failed, result, caller, exit, pool, shuttingDown, serving, listening, toClose>>

\* cancel(), tcpListener.Close() and udpConn.Close()
StopListening == cancelled' = TRUE /\ listening' = FALSE

CloseListeners ==
  /\ serve = "cancelled"
  /\ serve' = "draining" /\ StopListening
  /\ UNCHANGED <<tcp, udp, failed, result, caller, exit, pool, shuttingDown, serving, toClose>>

\* what closeConnections copies under the mutex
Listed == connections

SecondResult ==
  /\ serve = "draining"
  /\ tcp = "done" /\ udp = "done"
  /\ serve' = "closing"
  /\ toClose' = [toClose EXCEPT !["serve"] = Listed]
  /\ UNCHANGED <<tcp, udp, failed, result, caller, exit, pool, flags>>

ServeClosed ==
  /\ serve = "closing"
  /\ toClose["serve"] = {}
  /\ serve' = "waiting"
  /\ UNCHANGED <<tcp, udp, failed, result, caller, exit, pool, flags, toClose>>

WaitOver == workers = 0

ServeReturns ==
  /\ serve = "waiting"
  /\ WaitOver
  /\ serve' = "returned" /\ serving' = FALSE
  /\ result' = IF shuttingDown \/ failed = {} THEN "nil" ELSE "error"
  /\ UNCHANGED <<tcp, udp, failed, caller, exit, pool, shuttingDown, cancelled, listening, toClose>>

\* closeConnections closes one connection of its list, outside the mutex
CloseOne(x) ==
  /\ \E c \in toClose[x] :
       /\ open' = open \ {c}
       /\ toClose' = [toClose EXCEPT ![x] = @ \ {c}]
  /\ UNCHANGED <<loops, caller, exit, phase, connections, connectionsBySource, slots, workers, flags>>

-----------------------------------------------------------------------------
(* The loops                                                               *)

\* the accept loop is back in Accept
Accepting == tcp = "on" /\ In({"accepted", "slotted"}) = {}

Accept(c) ==
  /\ Accepting /\ listening
  /\ phase[c] = "new"
  /\ phase' = [phase EXCEPT ![c] = "accepted"]
  /\ open' = open \cup {c}
  /\ UNCHANGED <<loops, caller, exit, connections, connectionsBySource, slots, workers, flags, toClose>>

\* a loop's error counts unless the context is already cancelled
Reported(l) == IF cancelled THEN failed ELSE failed \cup {l}

AcceptFails ==
  /\ Accepting /\ listening
  /\ tcp' = "done" /\ failed' = Reported("tcp")
  /\ UNCHANGED <<serve, udp, result, caller, exit, pool, flags, toClose>>

AcceptEnds ==
  /\ Accepting /\ ~listening
  /\ tcp' = "done"
  /\ UNCHANGED <<serve, udp, failed, result, caller, exit, pool, flags, toClose>>

\* ReadFrom fails; the handler main installs never reports an error
UDPFails ==
  /\ udp = "on" /\ listening
  /\ udp' = "done" /\ failed' = Reported("udp")
  /\ UNCHANGED <<serve, tcp, result, caller, exit, pool, flags, toClose>>

UDPEnds ==
  /\ udp = "on" /\ ~listening
  /\ udp' = "done"
  /\ UNCHANGED <<serve, tcp, failed, result, caller, exit, pool, flags, toClose>>

\* tcpSourceIdentity finds an address in the connection's remote address
Identified(c) == SourceOf[c] # NoSource

SlotFree == slots < MaxTCPConnections

TakeSlot(c) ==
  /\ phase[c] = "accepted"
  /\ Identified(c) /\ SlotFree
  /\ slots' = slots + 1
  /\ phase' = [phase EXCEPT ![c] = "slotted"]
  /\ UNCHANGED <<loops, caller, exit, open, connections, connectionsBySource, workers, flags, toClose>>

\* a refused connection is closed, and the loop ends with the context
Refuse(c) ==
  /\ phase' = [phase EXCEPT ![c] = "refused"]
  /\ open' = open \ {c}
  /\ tcp' = IF cancelled THEN "done" ELSE "on"
  /\ UNCHANGED <<serve, udp, failed, result, caller, exit, connections, connectionsBySource,
                 workers, flags, toClose>>

NoSlot(c) ==
  /\ phase[c] = "accepted"
  /\ ~Identified(c) \/ ~SlotFree
  /\ Refuse(c)
  /\ UNCHANGED slots

Welcome(c) ==
  ~shuttingDown /\ connectionsBySource[SourceOf[c]] < MaxTCPConnectionsPerSource

SlotsLeft == slots - 1

GiveBack(c) ==
  /\ phase[c] = "slotted"
  /\ ~Welcome(c)
  /\ slots' = SlotsLeft
  /\ Refuse(c)

Register(c) ==
  /\ phase[c] = "slotted"
  /\ Welcome(c)
  /\ connections' = connections \cup {c}
  /\ connectionsBySource' = [connectionsBySource EXCEPT ![SourceOf[c]] = @ + 1]
  /\ workers' = workers + 1
  /\ phase' = [phase EXCEPT ![c] = "running"]
  /\ UNCHANGED <<loops, caller, exit, open, slots, flags, toClose>>

-----------------------------------------------------------------------------
(* The goroutine of a connection                                           *)

\* HandleTCP returns, for its own reasons or because its socket was closed
HandlerReturns(c) ==
  /\ phase[c] = "running"
  /\ phase' = [phase EXCEPT ![c] = "returned"]
  /\ open' = open \ {c}
  /\ UNCHANGED <<loops, caller, exit, connections, connectionsBySource, slots, workers, flags, toClose>>

Unregister(c) ==
  /\ phase[c] = "returned"
  /\ phase' = [phase EXCEPT ![c] = "unregistered"]
  /\ connections' = connections \ {c}
  /\ connectionsBySource' = [connectionsBySource EXCEPT
       ![SourceOf[c]] = IF @ - 1 <= 0 THEN 0 ELSE @ - 1]
  /\ UNCHANGED <<loops, caller, exit, open, slots, workers, flags, toClose>>

FreeSlot(c) ==
  /\ phase[c] = "unregistered" /\ slots > 0
  /\ phase' = [phase EXCEPT ![c] = "released"]
  /\ slots' = slots - 1
  /\ UNCHANGED <<loops, caller, exit, open, connections, connectionsBySource, workers, flags, toClose>>

WorkerDone(c) ==
  /\ phase[c] = "released"
  /\ phase' = [phase EXCEPT ![c] = "gone"]
  /\ workers' = workers - 1
  /\ UNCHANGED <<loops, caller, exit, open, connections, connectionsBySource, slots, flags, toClose>>

-----------------------------------------------------------------------------
(* The main goroutine: serveUntilSignal and Shutdown                       *)

Signal ==
  /\ caller = "select" /\ caller' = "signalled"
  /\ UNCHANGED <<loops, exit, pool, flags, toClose>>

\* Serve has not begun, or it has returned
ShutdownIdle ==
  /\ caller = "signalled"
  /\ ~serving
  /\ shuttingDown' = TRUE
  /\ caller' = "finished"
  /\ UNCHANGED <<loops, exit, pool, serving, cancelled, listening, toClose>>

Shutdown ==
  /\ caller = "signalled"
  /\ serving
  /\ shuttingDown' = TRUE /\ StopListening
  /\ caller' = "flagged"
  /\ UNCHANGED <<loops, exit, pool, serving, toClose>>

CallerLists ==
  /\ caller = "flagged"
  /\ caller' = "closing"
  /\ toClose' = [toClose EXCEPT !["caller"] = Listed]
  /\ UNCHANGED <<loops, exit, pool, flags>>

CallerClosed ==
  /\ caller = "closing"
  /\ toClose["caller"] = {}
  /\ caller' = "awaiting"
  /\ UNCHANGED <<loops, exit, pool, flags, toClose>>

\* Serve closes the channel `done' in the section in which it returns
ShutdownDone ==
  /\ caller = "awaiting"
  /\ serve = "returned"
  /\ caller' = "finished"
  /\ UNCHANGED <<loops, exit, pool, flags, toClose>>

\* run returns: its deferred calls close both sockets, and the process is over
Exit(status) ==
  /\ caller' = "exited" /\ exit' = status
  /\ listening' = FALSE
  /\ UNCHANGED <<loops, pool, shuttingDown, serving, cancelled, toClose>>

TimedOut == caller = "awaiting" /\ Exit("error")

\* Serve's result arrives while main waits for a signal, or after Shutdown
ServeResult ==
  /\ caller \in {"select", "finished"}
  /\ serve = "returned"
  /\ Exit(IF result = "nil" THEN "ok" ELSE "error")

-----------------------------------------------------------------------------
\* what the scheduler owes the goroutines of the server
ServeSteps ==
  \/ ServeBegin \/ ServeTooLate \/ FirstResult \/ Cancel \/ CloseListeners
  \/ SecondResult \/ ServeClosed \/ ServeReturns \/ CloseOne("serve")

LoopSteps ==
  \/ AcceptEnds
  \/ \E c \in Connections : TakeSlot(c) \/ NoSlot(c) \/ GiveBack(c) \/ Register(c)

ConnectionSteps(c) == Unregister(c) \/ FreeSlot(c) \/ WorkerDone(c)

CallerSteps ==
  \/ ShutdownIdle \/ Shutdown \/ CallerLists \/ CallerClosed \/ ShutdownDone
  \/ CloseOne("caller") \/ ServeResult

\* no goroutine outlives the process
Alive == caller # "exited"

Next ==
  /\ Alive
  /\ \/ ServeSteps \/ LoopSteps \/ UDPEnds \/ CallerSteps
     \/ AcceptFails \/ UDPFails
     \/ Signal \/ TimedOut
     \/ \E c \in Connections : Accept(c) \/ HandlerReturns(c) \/ ConnectionSteps(c)

Spec == Init /\ [][Next]_vars

(***************************************************************************)
(* Every goroutine that can run runs.  A handler is only promised to end   *)
(* once its socket is closed: its reads and writes then fail.  Nobody owes *)
(* a client, an error or a signal; and the timeout of Shutdown is not      *)
(* counted on: a shutdown has to come to its end by itself.                *)
(***************************************************************************)
Fairness ==
  /\ WF_vars(Alive /\ ServeSteps) /\ WF_vars(Alive /\ LoopSteps) /\ WF_vars(Alive /\ UDPEnds)
  /\ WF_vars(Alive /\ CallerSteps)
  /\ \A c \in Connections :
       /\ WF_vars(Alive /\ ConnectionSteps(c))
       /\ WF_vars(Alive /\ c \notin open /\ HandlerReturns(c))

FairSpec == Spec /\ Fairness

-----------------------------------------------------------------------------
(* Properties                                                              *)

\* Slots, worker count, connection set and counts per source say what the
\* goroutines are doing, between the steps that take and give them back too.
CountsMatch ==
  /\ slots = Cardinality(In({"slotted", "running", "returned", "unregistered"}))
  /\ workers = Cardinality(In({"running", "returned", "unregistered", "released"}))
  /\ connections = In({"running", "returned"})
  /\ \A s \in Sources :
       connectionsBySource[s] = Cardinality({c \in connections : SourceOf[c] = s})

\* When Serve has returned, every connection it accepted has been closed and
\* no goroutine of it is left, not even one accepted while it was stopping.  The
\* process reports success for nothing less, and never for a loop that was lost
\* unasked; a signal that comes before Serve has begun is no success either.
NoneLeftBehind ==
  /\ serve = "returned" => open = {} /\ In(Phases \ {"new", "gone", "refused"}) = {}
  /\ exit = "ok" => serve = "returned" /\ result = "nil" /\ shuttingDown

\* Once Shutdown waits for Serve, no handler has an open connection: the list
\* it closed was complete, for nobody registers after the flag is set.
ShutdownReachesAll == caller = "awaiting" => In({"running"}) \cap open = {}

\* A process that is asked to stop, or that loses either loop, ends, whatever its
\* handlers wait for: it does not serve on with the other loop, and main and
\* Serve, which wait for each other, do not do so for ever.
AlwaysEnds == caller # "select" \/ tcp = "done" \/ udp = "done" ~> exit # "none"
=============================================================================
