---------------------------- MODULE Runtime_proof ----------------------------
(***************************************************************************)
(* Proofs about what every connection passes before a service has it: that *)
(* the runtime keeps its counts, Serve leaves nothing behind and Shutdown  *)
(* reaches every handler, for any number of connections and sources and    *)
(* any limits; and that the router and the reader behind it read the same  *)
(* records in a stream, for any stream of whole words and any limits.      *)
(***************************************************************************)
EXTENDS Server, TCPRouter, FiniteSetTheorems, WellFoundedInduction, TLAPS

-----------------------------------------------------------------------------
(* The runtime                                                             *)

\* A connection that got past the look at its address has a source.
SourcesKnown == \A c \in Connections : phase[c] \in Phases \ {"new", "accepted", "refused"} => Identified(c)

\* Only sockets that a goroutine still handles are open.
OpenHandled == open \subseteq In({"accepted", "slotted", "running"})

\* The accept loop has at most one connection in hand, and none when it is over.
InHand ==
  /\ \A c, d \in In({"accepted", "slotted"}) : c = d
  /\ tcp # "on" => In({"accepted", "slotted"}) = {}
  /\ tcp = "off" => In({"new"}) = Connections

\* How far Serve has got tells which loops are over, and whether it has a result.
LoopsOver ==
  /\ serve = "called" => tcp = "off" /\ udp = "off"
  /\ serve \in {"first", "cancelled", "draining"} => tcp = "done" \/ udp = "done"
  /\ serve \in {"closing", "waiting"} => tcp = "done" /\ udp = "done"
  /\ serve = "returned" =>
       tcp # "on" /\ In({"running", "returned", "unregistered", "released"}) = {}

\* A loop that ends unasked leaves its error: nothing is cancelled before that.
LossReported ==
  /\ ~shuttingDown /\ (tcp = "done" \/ udp = "done" \/ cancelled) => failed # {}
  /\ Alive /\ ~listening => cancelled
  /\ result = "nil" => serve = "returned" /\ shuttingDown
  /\ exit # "none" => ~Alive
  /\ exit = "ok" => result = "nil"

\* What Shutdown has yet to close covers the handlers that are still connected.
ListComplete ==
  /\ caller \in {"flagged", "closing", "awaiting"} => shuttingDown
  /\ caller = "closing" => In({"running"}) \cap open \subseteq toClose["caller"]
  /\ caller = "awaiting" => In({"running"}) \cap open = {}

IInv ==
  /\ TypeOK /\ CountsMatch /\ SourcesKnown /\ OpenHandled /\ InHand
  /\ LoopsOver /\ LossReported /\ ListComplete

\* CountsMatch: what follows the phases, and what is kept for each source.
PhasesCounted ==
  /\ slots = Cardinality(In({"slotted", "running", "returned", "unregistered"}))
  /\ workers = Cardinality(In({"running", "returned", "unregistered", "released"}))
  /\ connections = In({"running", "returned"})

From(s) == {c \in connections : SourceOf[c] = s}

SourcesCounted == \A s \in Sources : connectionsBySource[s] = Cardinality(From(s))

LEMMA CountsMatchParts == CountsMatch <=> PhasesCounted /\ SourcesCounted
BY DEF CountsMatch, PhasesCounted, SourcesCounted, From

-----------------------------------------------------------------------------
(* What a step does to the sets of connections and to their sizes          *)

LEMMA InFinite ==
  ASSUME NEW P
  PROVE  IsFiniteSet(In(P)) /\ Cardinality(In(P)) \in Nat
BY FS_Subset, FS_CardinalityType, ServerAssumption DEF In

\* A connection that moves to another phase moves between the sets.
Moves(c, q) == phase' = [phase EXCEPT ![c] = q]

LEMMA Moved ==
  ASSUME TypeOK, NEW c \in Connections, NEW q \in Phases, Moves(c, q)
  PROVE  \A P :
           /\ In(P)' = IF q \in P THEN In(P) \cup {c} ELSE In(P) \ {c}
           /\ c \in In(P) <=> phase[c] \in P
           /\ (q \in P <=> phase[c] \in P) => In(P)' = In(P)
           /\ Cardinality(In(P)') \in Nat
           /\ Cardinality(In(P)') = IF q \in P
                                    THEN IF phase[c] \in P THEN Cardinality(In(P))
                                                           ELSE Cardinality(In(P)) + 1
                                    ELSE IF phase[c] \in P THEN Cardinality(In(P)) - 1
                                                           ELSE Cardinality(In(P))
<1> SUFFICES ASSUME NEW P
             PROVE  /\ In(P)' = IF q \in P THEN In(P) \cup {c} ELSE In(P) \ {c}
                    /\ c \in In(P) <=> phase[c] \in P
                    /\ (q \in P <=> phase[c] \in P) => In(P)' = In(P)
                    /\ Cardinality(In(P)') \in Nat
                    /\ Cardinality(In(P)') = IF q \in P
                                             THEN IF phase[c] \in P THEN Cardinality(In(P))
                                                                    ELSE Cardinality(In(P)) + 1
                                             ELSE IF phase[c] \in P THEN Cardinality(In(P)) - 1
                                                                    ELSE Cardinality(In(P))
  OBVIOUS
<1>1. In(P)' = IF q \in P THEN In(P) \cup {c} ELSE In(P) \ {c}
  BY DEF In, TypeOK, Moves
<1>2. c \in In(P) <=> phase[c] \in P
  BY DEF In
<1>3. /\ Cardinality(In(P) \cup {c}) = IF c \in In(P) THEN Cardinality(In(P))
                                                     ELSE Cardinality(In(P)) + 1
      /\ Cardinality(In(P) \ {c}) = IF c \in In(P) THEN Cardinality(In(P)) - 1
                                                  ELSE Cardinality(In(P))
  BY InFinite, FS_AddElement, FS_RemoveElement
<1>4. Cardinality(In(P)') \in Nat
  BY <1>1, InFinite, FS_AddElement, FS_RemoveElement, FS_CardinalityType
<1> QED BY <1>1, <1>2, <1>3, <1>4

\* Where nobody moves, the counts stay right.
LEMMA NobodyMoves ==
  ASSUME IInv, UNCHANGED <<phase, connections, connectionsBySource, slots, workers>>
  PROVE  CountsMatch' /\ SourcesKnown' /\ \A P : In(P)' = In(P)
<1>1. \A P : In(P)' = In(P)
  BY DEF In
<1>2. CountsMatch'
  BY <1>1 DEF IInv, CountsMatch
<1>3. SourcesKnown'
  BY DEF IInv, SourcesKnown, Identified
<1> QED BY <1>1, <1>2, <1>3

-----------------------------------------------------------------------------
(* Serve                                                                   *)

LEMMA ServeStep ==
  ASSUME IInv, Alive,
         \/ ServeBegin \/ ServeTooLate \/ FirstResult \/ Cancel \/ CloseListeners
         \/ SecondResult \/ ServeClosed \/ ServeReturns
  PROVE  IInv'
<1> USE DEF IInv, TypeOK, OpenHandled, InHand, LoopsOver, LossReported, ListComplete, pool, Alive
<1>1. CASE ServeBegin
  BY <1>1, NobodyMoves DEF ServeBegin
<1>2. CASE ServeTooLate
  <2>1. In({"running", "returned", "unregistered", "released"}) = {}
    BY <1>2 DEF ServeTooLate, In
  <2> QED BY <1>2, <2>1, NobodyMoves DEF ServeTooLate, flags
<1>3. CASE FirstResult
  BY <1>3, NobodyMoves DEF FirstResult, flags
<1>4. CASE Cancel
  BY <1>4, NobodyMoves DEF Cancel
<1>5. CASE CloseListeners
  <2>1. TypeOK'
    BY <1>5 DEF CloseListeners, StopListening
  <2>2. OpenHandled' /\ InHand'
    BY <1>5, NobodyMoves DEF CloseListeners, StopListening
  <2>3. LoopsOver' /\ LossReported' /\ ListComplete'
    BY <1>5, NobodyMoves DEF CloseListeners, StopListening
  <2>4. UNCHANGED <<phase, connections, connectionsBySource, slots, workers>>
    BY <1>5 DEF CloseListeners, StopListening
  <2> QED BY <2>1, <2>2, <2>3, <2>4, NobodyMoves
<1>6. CASE SecondResult
  BY <1>6, NobodyMoves DEF SecondResult, Listed, flags
<1>7. CASE ServeClosed
  BY <1>7, NobodyMoves DEF ServeClosed, flags
<1>8. CASE ServeReturns
  <2>1. In({"running", "returned", "unregistered", "released"}) = {}
    BY <1>8, InFinite, FS_EmptySet DEF ServeReturns, WaitOver, CountsMatch
  <2>2. TypeOK'
    BY <1>8 DEF ServeReturns
  <2>3. OpenHandled' /\ InHand'
    BY <1>8, NobodyMoves DEF ServeReturns
  <2>4. LoopsOver' /\ LossReported' /\ ListComplete'
    BY <1>8, <2>1, NobodyMoves DEF ServeReturns
  <2>5. UNCHANGED <<phase, connections, connectionsBySource, slots, workers>>
    BY <1>8 DEF ServeReturns
  <2> QED BY <2>2, <2>3, <2>4, <2>5, NobodyMoves
<1> QED BY <1>1, <1>2, <1>3, <1>4, <1>5, <1>6, <1>7, <1>8

LEMMA CloseStep ==
  ASSUME IInv, Alive, NEW x \in {"serve", "caller"}, CloseOne(x)
  PROVE  IInv'
<1> USE DEF IInv
<1>1. PICK c \in toClose[x] : open' = open \ {c} /\ toClose' = [toClose EXCEPT ![x] = @ \ {c}]
  BY DEF CloseOne
<1>2. UNCHANGED <<loops, caller, exit, phase, connections, connectionsBySource, slots, workers, flags>>
  BY DEF CloseOne
<1>3. /\ open' \subseteq open
      /\ \A y \in {"serve", "caller"} : toClose[y] \cap open' \subseteq toClose'[y]
      /\ toClose' \in [{"serve", "caller"} -> SUBSET Connections]
  BY <1>1 DEF TypeOK
<1>4. TypeOK' /\ OpenHandled' /\ ListComplete'
  BY <1>2, <1>3, NobodyMoves DEF TypeOK, OpenHandled, ListComplete, loops, flags
<1>5. InHand' /\ LoopsOver' /\ LossReported'
  BY <1>2, NobodyMoves DEF InHand, LoopsOver, LossReported, Alive, loops, flags
<1> QED BY <1>2, <1>4, <1>5, NobodyMoves

-----------------------------------------------------------------------------
(* The main goroutine                                                      *)

LEMMA CallerStep ==
  ASSUME IInv, Alive,
         \/ Signal \/ ShutdownIdle \/ Shutdown \/ CallerLists \/ CallerClosed
         \/ ShutdownDone \/ TimedOut \/ ServeResult
  PROVE  IInv'
<1> USE DEF IInv, TypeOK, OpenHandled, InHand, LoopsOver, LossReported, ListComplete,
            loops, pool, Alive
<1>1. CASE Signal
  BY <1>1, NobodyMoves DEF Signal, flags
<1>2. CASE ShutdownIdle
  BY <1>2, NobodyMoves DEF ShutdownIdle
<1>3. CASE Shutdown
  <2>1. TypeOK'
    BY <1>3 DEF Shutdown, StopListening
  <2>2. OpenHandled' /\ InHand'
    BY <1>3, NobodyMoves DEF Shutdown, StopListening
  <2>3. LoopsOver' /\ LossReported' /\ ListComplete'
    BY <1>3, NobodyMoves DEF Shutdown, StopListening
  <2>4. UNCHANGED <<phase, connections, connectionsBySource, slots, workers>>
    BY <1>3 DEF Shutdown, StopListening
  <2> QED BY <2>1, <2>2, <2>3, <2>4, NobodyMoves
<1>4. CASE CallerLists
  <2>1. In({"running"}) \subseteq connections
    BY DEF CountsMatch, In
  <2> QED BY <1>4, <2>1, NobodyMoves DEF CallerLists, Listed, flags
<1>5. CASE CallerClosed
  BY <1>5, NobodyMoves DEF CallerClosed, flags
<1>6. CASE ShutdownDone
  BY <1>6, NobodyMoves DEF ShutdownDone, flags
<1>7. CASE TimedOut
  <2>1. TypeOK'
    BY <1>7 DEF TimedOut, Exit
  <2>2. OpenHandled' /\ InHand'
    BY <1>7, NobodyMoves DEF TimedOut, Exit
  <2>3. LoopsOver' /\ LossReported' /\ ListComplete'
    BY <1>7, NobodyMoves DEF TimedOut, Exit
  <2>4. UNCHANGED <<phase, connections, connectionsBySource, slots, workers>>
    BY <1>7 DEF TimedOut, Exit
  <2> QED BY <2>1, <2>2, <2>3, <2>4, NobodyMoves
<1>8. CASE ServeResult
  BY <1>8, NobodyMoves DEF ServeResult, Exit
<1> QED BY <1>1, <1>2, <1>3, <1>4, <1>5, <1>6, <1>7, <1>8

-----------------------------------------------------------------------------
(* The loops                                                               *)

LEMMA LoopEnds ==
  ASSUME IInv, Alive, AcceptFails \/ AcceptEnds \/ UDPFails \/ UDPEnds
  PROVE  IInv'
<1> USE DEF IInv, TypeOK, OpenHandled, InHand, LoopsOver, LossReported, ListComplete,
            pool, flags, Alive
<1>1. CASE AcceptFails
  BY <1>1, NobodyMoves DEF AcceptFails, Accepting, Reported
<1>2. CASE AcceptEnds
  BY <1>2, NobodyMoves DEF AcceptEnds, Accepting
<1>3. CASE UDPFails
  BY <1>3, NobodyMoves DEF UDPFails, Reported
<1>4. CASE UDPEnds
  BY <1>4, NobodyMoves DEF UDPEnds
<1> QED BY <1>1, <1>2, <1>3, <1>4

LEMMA SourcesKept ==
  ASSUME SourcesCounted, UNCHANGED <<connections, connectionsBySource>>
  PROVE  SourcesCounted'
<1>1. \A s : From(s)' = From(s)
  BY DEF From
<1> QED BY <1>1 DEF SourcesCounted

LEMMA FromFinite ==
  ASSUME TypeOK, NEW s
  PROVE  IsFiniteSet(From(s)) /\ Cardinality(From(s)) \in Nat
BY FS_Subset, FS_CardinalityType, ServerAssumption DEF From, TypeOK

\* Sockets, loops and lists, for a connection that moves on but opens no socket.
LEMMA MovedOn ==
  ASSUME IInv, Alive, NEW c \in Connections, NEW q \in Phases \ {"new", "accepted"},
         phase[c] # "new", q = "slotted" => phase[c] = "accepted",
         q = "running" => ~shuttingDown,
         q \in {"running", "returned", "unregistered", "released"} /\ serve = "returned" =>
           phase[c] \in {"running", "returned", "unregistered", "released"},
         Moves(c, q),
         open' = IF q \in {"slotted", "running"} THEN open ELSE open \ {c},
         tcp' \in {tcp, "done"}, tcp' = "done" => tcp = "done" \/ (cancelled /\ q = "refused"),
         q = "refused" => phase[c] \in {"accepted", "slotted"},
         UNCHANGED <<serve, udp, failed, result, caller, exit, flags, toClose>>
  PROVE  OpenHandled' /\ InHand' /\ LoopsOver' /\ LossReported' /\ ListComplete'
<1> USE DEF IInv
<1>1. /\ \A P : In(P)' = IF q \in P THEN In(P) \cup {c} ELSE In(P) \ {c}
      /\ \A P : c \in In(P) <=> phase[c] \in P
  BY Moved
<1>2. OpenHandled'
  BY <1>1 DEF OpenHandled
<1>3. tcp # "off" /\ serve # "called"
  BY <1>1 DEF InHand, LoopsOver
<1>4. InHand'
  <2>1. \A d, e \in In({"accepted", "slotted"})' : d = e
    BY <1>1 DEF InHand
  <2>2. tcp' # "on" => In({"accepted", "slotted"})' = {}
    BY <1>1, <1>3 DEF InHand
  <2> QED BY <1>3, <2>1, <2>2 DEF InHand
<1>5. LoopsOver'
  <2>1. serve = "returned" => In({"running", "returned", "unregistered", "released"})' = {}
    BY <1>1 DEF LoopsOver
  <2> QED BY <1>3, <2>1 DEF LoopsOver
<1>6. LossReported'
  BY DEF LossReported, Alive, flags
<1>7. ListComplete'
  BY <1>1 DEF ListComplete, flags
<1> QED BY <1>2, <1>4, <1>5, <1>6, <1>7

LEMMA AcceptStep ==
  ASSUME IInv, Alive, NEW c \in Connections, Accept(c)
  PROVE  IInv'
<1> USE DEF IInv
<1>1. /\ Moves(c, "accepted") /\ phase[c] = "new"
      /\ open' = open \cup {c} /\ tcp = "on" /\ In({"accepted", "slotted"}) = {}
      /\ UNCHANGED <<loops, caller, exit, connections, connectionsBySource, slots, workers,
                     flags, toClose>>
  BY DEF Accept, Accepting, Moves
<1>2. \A P : /\ In(P)' = IF "accepted" \in P THEN In(P) \cup {c} ELSE In(P) \ {c}
             /\ c \in In(P) <=> "new" \in P
  BY <1>1, Moved DEF Phases
<1>3. TypeOK'
  BY <1>1 DEF TypeOK, loops, flags, Phases, Moves
<1>4. CountsMatch'
  <2>1. PhasesCounted'
    BY <1>1, Moved, CountsMatchParts, InFinite DEF PhasesCounted, Phases
  <2>2. SourcesCounted'
    BY <1>1, CountsMatchParts, SourcesKept
  <2> QED BY <2>1, <2>2 DEF CountsMatch, PhasesCounted, SourcesCounted, From
<1>5. SourcesKnown'
  BY <1>1 DEF TypeOK, SourcesKnown, Identified, Moves
<1>6. OpenHandled'
  BY <1>1, <1>2 DEF OpenHandled
<1>7. InHand' /\ LoopsOver'
  BY <1>1, <1>2 DEF InHand, LoopsOver, loops
<1>8. LossReported'
  BY <1>1 DEF LossReported, Alive, loops, flags
<1>9. ListComplete'
  BY <1>1, <1>2 DEF ListComplete, flags
<1> QED BY <1>3, <1>4, <1>5, <1>6, <1>7, <1>8, <1>9

LEMMA TakeSlotStep ==
  ASSUME IInv, Alive, NEW c \in Connections, TakeSlot(c)
  PROVE  IInv'
<1> USE DEF IInv
<1>1. /\ Moves(c, "slotted") /\ phase[c] = "accepted"
      /\ Identified(c) /\ slots < MaxTCPConnections /\ slots' = slots + 1
      /\ UNCHANGED <<loops, caller, exit, open, connections, connectionsBySource, workers,
                     flags, toClose>>
  BY DEF TakeSlot, SlotFree, Moves
<1>2. OpenHandled' /\ InHand' /\ LoopsOver' /\ LossReported' /\ ListComplete'
  BY <1>1, MovedOn DEF Phases, loops
<1>3. TypeOK'
  BY <1>1, ServerAssumption DEF TypeOK, loops, flags, Phases, Moves
<1>4. CountsMatch'
  <2>1. PhasesCounted'
    BY <1>1, Moved, CountsMatchParts, InFinite DEF PhasesCounted, Phases
  <2>2. SourcesCounted'
    BY <1>1, CountsMatchParts, SourcesKept
  <2> QED BY <2>1, <2>2 DEF CountsMatch, PhasesCounted, SourcesCounted, From
<1>5. SourcesKnown'
  BY <1>1 DEF TypeOK, SourcesKnown, Identified, Moves
<1> QED BY <1>2, <1>3, <1>4, <1>5

LEMMA RefusedStep ==
  ASSUME IInv, Alive, NEW c \in Connections, NoSlot(c) \/ GiveBack(c)
  PROVE  IInv'
<1> USE DEF IInv
<1>1. /\ Moves(c, "refused") /\ phase[c] \in {"accepted", "slotted"}
      /\ slots' = IF phase[c] = "slotted" THEN slots - 1 ELSE slots
      /\ open' = open \ {c} /\ tcp' = IF cancelled THEN "done" ELSE "on"
      /\ UNCHANGED <<serve, udp, failed, result, caller, exit, connections,
                     connectionsBySource, workers, flags, toClose>>
  BY DEF NoSlot, GiveBack, Refuse, SlotsLeft, Moves
<1>2. tcp = "on"
  BY <1>1 DEF InHand, In
<1>3. OpenHandled' /\ InHand' /\ LoopsOver' /\ LossReported' /\ ListComplete'
  BY <1>1, <1>2, MovedOn DEF Phases
<1>4. CountsMatch'
  <2>1. PhasesCounted'
    BY <1>1, Moved, CountsMatchParts, InFinite DEF PhasesCounted, Phases
  <2>2. SourcesCounted'
    BY <1>1, CountsMatchParts, SourcesKept
  <2> QED BY <2>1, <2>2 DEF CountsMatch, PhasesCounted, SourcesCounted, From
<1>5. TypeOK'
  <2>1. slots' \in Nat
    BY <1>1, <1>4, Moved DEF CountsMatch, Phases
  <2>2. slots' \in 0..MaxTCPConnections
    BY <1>1, <2>1, ServerAssumption DEF TypeOK
  <2> QED BY <1>1, <2>2 DEF TypeOK, flags, Phases, Moves
<1>6. SourcesKnown'
  BY <1>1 DEF TypeOK, SourcesKnown, Identified, Moves
<1> QED BY <1>3, <1>4, <1>5, <1>6

LEMMA RegisterStep ==
  ASSUME IInv, Alive, NEW c \in Connections, Register(c)
  PROVE  IInv'
<1> USE DEF IInv
<1>1. /\ Moves(c, "running") /\ phase[c] = "slotted"
      /\ ~shuttingDown /\ connectionsBySource[SourceOf[c]] < MaxTCPConnectionsPerSource
      /\ connections' = connections \cup {c} /\ workers' = workers + 1
      /\ connectionsBySource' = [connectionsBySource EXCEPT ![SourceOf[c]] = @ + 1]
      /\ UNCHANGED <<loops, caller, exit, open, slots, flags, toClose>>
  BY DEF Register, Welcome, Moves
<1>2. SourceOf[c] \in Sources
  BY <1>1, ServerAssumption DEF SourcesKnown, Identified, Phases
<1>3. OpenHandled' /\ InHand' /\ LoopsOver' /\ LossReported' /\ ListComplete'
  <2>1. serve # "returned"
    BY <1>1, Moved DEF InHand, LoopsOver, Phases
  <2> QED BY <1>1, <2>1, MovedOn DEF Phases, loops
<1>4. CountsMatch'
  <2>1. PhasesCounted'
    BY <1>1, Moved, CountsMatchParts, InFinite DEF PhasesCounted, Phases
  <2>2. SourcesCounted'
    <3> SUFFICES ASSUME NEW s \in Sources
                 PROVE  connectionsBySource'[s] = Cardinality(From(s)')
      BY DEF SourcesCounted
    <3>1. c \notin From(s)
      BY <1>1 DEF From, CountsMatch, In
    <3>2. From(s)' = IF s = SourceOf[c] THEN From(s) \cup {c} ELSE From(s)
      BY <1>1 DEF From
    <3>3. Cardinality(From(s)') = IF s = SourceOf[c] THEN Cardinality(From(s)) + 1
                                                     ELSE Cardinality(From(s))
      BY <3>1, <3>2, FromFinite, FS_AddElement
    <3> QED BY <1>1, <3>3, CountsMatchParts DEF SourcesCounted, TypeOK
  <2> QED BY <2>1, <2>2 DEF CountsMatch, PhasesCounted, SourcesCounted, From
<1>5. TypeOK'
  <2>1. workers' \in 0..Cardinality(Connections)
    <3>1. workers' = Cardinality(In({"running", "returned", "unregistered", "released"})')
      BY <1>4 DEF CountsMatch
    <3>2. In({"running", "returned", "unregistered", "released"})' \subseteq Connections
      BY DEF In
    <3> QED BY <3>1, <3>2, FS_Subset, FS_CardinalityType, ServerAssumption
  <2>2. connectionsBySource' \in [Sources -> 0..MaxTCPConnectionsPerSource]
    BY <1>1, <1>2, ServerAssumption DEF TypeOK
  <2> QED BY <1>1, <2>1, <2>2 DEF TypeOK, loops, flags, Phases, Moves
<1>6. SourcesKnown'
  BY <1>1 DEF TypeOK, SourcesKnown, Identified, Moves, Phases
<1> QED BY <1>3, <1>4, <1>5, <1>6

-----------------------------------------------------------------------------
(* The goroutine of a connection                                           *)

LEMMA HandlerReturnsStep ==
  ASSUME IInv, Alive, NEW c \in Connections, HandlerReturns(c)
  PROVE  IInv'
<1> USE DEF IInv
<1>1. /\ Moves(c, "returned") /\ phase[c] = "running" /\ open' = open \ {c}
      /\ UNCHANGED <<loops, caller, exit, connections, connectionsBySource, slots, workers,
                     flags, toClose>>
  BY DEF HandlerReturns, Moves
<1>2. OpenHandled' /\ InHand' /\ LoopsOver' /\ LossReported' /\ ListComplete'
  BY <1>1, MovedOn DEF Phases, loops
<1>3. TypeOK'
  BY <1>1 DEF TypeOK, loops, flags, Phases, Moves
<1>4. CountsMatch'
  <2>1. PhasesCounted'
    BY <1>1, Moved, CountsMatchParts, InFinite DEF PhasesCounted, Phases
  <2>2. SourcesCounted'
    BY <1>1, CountsMatchParts, SourcesKept
  <2> QED BY <2>1, <2>2 DEF CountsMatch, PhasesCounted, SourcesCounted, From
<1>5. SourcesKnown'
  BY <1>1 DEF TypeOK, SourcesKnown, Identified, Moves, Phases
<1> QED BY <1>2, <1>3, <1>4, <1>5

LEMMA UnregisterStep ==
  ASSUME IInv, Alive, NEW c \in Connections, Unregister(c)
  PROVE  IInv'
<1> USE DEF IInv
<1>1. /\ Moves(c, "unregistered") /\ phase[c] = "returned"
      /\ connections' = connections \ {c}
      /\ connectionsBySource' = [connectionsBySource EXCEPT
           ![SourceOf[c]] = IF @ - 1 <= 0 THEN 0 ELSE @ - 1]
      /\ UNCHANGED <<loops, caller, exit, open, slots, workers, flags, toClose>>
  BY DEF Unregister, Moves
<1>2. SourceOf[c] \in Sources
  BY <1>1, ServerAssumption DEF SourcesKnown, Identified, Phases
<1>3. OpenHandled' /\ InHand' /\ LoopsOver' /\ LossReported' /\ ListComplete'
  <2>1. open' = open \ {c}
    BY <1>1 DEF OpenHandled, In
  <2> QED BY <1>1, <2>1, MovedOn DEF Phases, loops
<1>4. CountsMatch'
  <2>1. PhasesCounted'
    BY <1>1, Moved, CountsMatchParts, InFinite DEF PhasesCounted, Phases
  <2>2. SourcesCounted'
    <3> SUFFICES ASSUME NEW s \in Sources
                 PROVE  connectionsBySource'[s] = Cardinality(From(s)')
      BY DEF SourcesCounted
    <3>1. s = SourceOf[c] => c \in From(s)
      BY <1>1 DEF From, CountsMatch, In
    <3>2. From(s)' = IF s = SourceOf[c] THEN From(s) \ {c} ELSE From(s)
      BY <1>1 DEF From
    <3>3. Cardinality(From(s)') = IF s = SourceOf[c] THEN Cardinality(From(s)) - 1
                                                     ELSE Cardinality(From(s))
      BY <3>1, <3>2, FromFinite, FS_RemoveElement
    <3>4. Cardinality(From(s)') \in Nat
      BY <3>2, FromFinite, FS_RemoveElement, FS_CardinalityType
    <3>5. connectionsBySource[s] = Cardinality(From(s))
      BY CountsMatchParts DEF SourcesCounted
    <3>6. connectionsBySource'[s] =
            IF s = SourceOf[c]
            THEN IF connectionsBySource[s] - 1 <= 0 THEN 0 ELSE connectionsBySource[s] - 1
            ELSE connectionsBySource[s]
      BY <1>1 DEF TypeOK
    <3> QED BY <3>3, <3>4, <3>5, <3>6
  <2> QED BY <2>1, <2>2 DEF CountsMatch, PhasesCounted, SourcesCounted, From
<1>5. TypeOK'
  <2>1. connectionsBySource' \in [Sources -> 0..MaxTCPConnectionsPerSource]
    BY <1>1, <1>2, ServerAssumption DEF TypeOK
  <2> QED BY <1>1, <2>1 DEF TypeOK, loops, flags, Phases, Moves
<1>6. SourcesKnown'
  BY <1>1 DEF TypeOK, SourcesKnown, Identified, Moves, Phases
<1> QED BY <1>3, <1>4, <1>5, <1>6

LEMMA EndStep ==
  ASSUME IInv, Alive, NEW c \in Connections, FreeSlot(c) \/ WorkerDone(c)
  PROVE  IInv'
<1> USE DEF IInv
<1>1. \/ /\ Moves(c, "released") /\ phase[c] = "unregistered"
         /\ slots' = slots - 1 /\ UNCHANGED workers
      \/ /\ Moves(c, "gone") /\ phase[c] = "released"
         /\ workers' = workers - 1 /\ UNCHANGED slots
  BY DEF FreeSlot, WorkerDone, Moves
<1>2. UNCHANGED <<loops, caller, exit, open, connections, connectionsBySource, flags, toClose>>
  BY DEF FreeSlot, WorkerDone
<1>3. OpenHandled' /\ InHand' /\ LoopsOver' /\ LossReported' /\ ListComplete'
  <2>1. open' = open \ {c}
    BY <1>1, <1>2 DEF OpenHandled, In
  <2> QED BY <1>1, <1>2, <2>1, MovedOn DEF Phases, loops
<1>4. CountsMatch'
  <2>1. PhasesCounted'
    BY <1>1, <1>2, Moved, CountsMatchParts, InFinite DEF PhasesCounted, Phases
  <2>2. SourcesCounted'
    BY <1>2, CountsMatchParts, SourcesKept
  <2> QED BY <2>1, <2>2 DEF CountsMatch, PhasesCounted, SourcesCounted, From
<1>5. TypeOK'
  <2>1. slots' \in Nat /\ workers' \in Nat
    BY <1>1, <1>4, Moved DEF CountsMatch, Phases
  <2>2. slots' \in 0..MaxTCPConnections /\ workers' \in 0..Cardinality(Connections)
    BY <1>1, <2>1, FS_CardinalityType, ServerAssumption DEF TypeOK
  <2> QED BY <1>1, <1>2, <2>2 DEF TypeOK, loops, flags, Phases, Moves
<1>6. SourcesKnown'
  BY <1>1 DEF TypeOK, SourcesKnown, Identified, Moves, Phases
<1> QED BY <1>3, <1>4, <1>5, <1>6

-----------------------------------------------------------------------------
LEMMA InitIInv == Init => IInv
<1> SUFFICES ASSUME Init PROVE IInv
  OBVIOUS
<1>1. \A P : In(P) = IF "new" \in P THEN Connections ELSE {}
  BY DEF Init, In
<1>2. Cardinality({}) = 0 /\ Cardinality(Connections) \in Nat
  BY FS_EmptySet, FS_CardinalityType, ServerAssumption
<1>3. TypeOK
  <2>1. toClose \in [{"serve", "caller"} -> SUBSET Connections]
    BY DEF Init
  <2>2. {shuttingDown, serving, cancelled, listening} \subseteq BOOLEAN
    BY DEF Init
  <2>3. phase \in [Connections -> Phases]
    BY DEF Init, Phases
  <2>4. slots \in 0..MaxTCPConnections /\ workers \in 0..Cardinality(Connections)
    BY <1>2, ServerAssumption DEF Init
  <2>5. connectionsBySource \in [Sources -> 0..MaxTCPConnectionsPerSource]
    BY ServerAssumption DEF Init
  <2> QED BY <2>1, <2>2, <2>3, <2>4, <2>5 DEF Init, TypeOK
<1>4. PhasesCounted
  BY <1>1, <1>2 DEF Init, PhasesCounted
<1>5. SourcesCounted
  <2>1. \A s : From(s) = {}
    BY DEF Init, From
  <2> QED BY <1>2, <2>1 DEF Init, SourcesCounted
<1>6. SourcesKnown /\ OpenHandled /\ InHand /\ LoopsOver /\ LossReported /\ ListComplete
  BY <1>1 DEF Init, SourcesKnown, OpenHandled, InHand, LoopsOver, LossReported, ListComplete, Alive
<1> QED BY <1>3, <1>4, <1>5, <1>6, CountsMatchParts DEF IInv

LEMMA StepIInv == IInv /\ [Next]_vars => IInv'
<1> SUFFICES ASSUME IInv, [Next]_vars PROVE IInv'
  OBVIOUS
<1>1. CASE UNCHANGED vars
  <2>1. CountsMatch' /\ SourcesKnown' /\ \A P : In(P)' = In(P)
    BY <1>1, NobodyMoves DEF vars, pool
  <2> QED BY <1>1, <2>1 DEF IInv, vars, loops, pool, flags, TypeOK, OpenHandled, InHand, LoopsOver,
                            LossReported, ListComplete, Alive
<1>2. CASE Next
  <2>1. Alive
    BY <1>2 DEF Next
  <2>2. \/ ServeSteps \/ LoopSteps \/ UDPEnds \/ CallerSteps \/ AcceptFails \/ UDPFails
        \/ Signal \/ TimedOut
        \/ \E c \in Connections : Accept(c) \/ HandlerReturns(c) \/ ConnectionSteps(c)
    BY <1>2 DEF Next
  <2>3. CASE ServeSteps
    BY <2>1, <2>3, ServeStep, CloseStep DEF ServeSteps
  <2>4. CASE LoopSteps
    BY <2>1, <2>4, LoopEnds, TakeSlotStep, RefusedStep, RegisterStep DEF LoopSteps
  <2>5. CASE UDPEnds \/ AcceptFails \/ UDPFails
    BY <2>1, <2>5, LoopEnds
  <2>6. CASE CallerSteps \/ Signal \/ TimedOut
    BY <2>1, <2>6, CallerStep, CloseStep DEF CallerSteps
  <2>7. ASSUME NEW c \in Connections, Accept(c) \/ HandlerReturns(c) \/ ConnectionSteps(c)
        PROVE  IInv'
    BY <2>1, <2>7, AcceptStep, HandlerReturnsStep, UnregisterStep, EndStep DEF ConnectionSteps
  <2> QED BY <2>2, <2>3, <2>4, <2>5, <2>6, <2>7
<1> QED BY <1>1, <1>2

LEMMA Invariance == Spec => []IInv
BY InitIInv, StepIInv, PTL DEF Spec

-----------------------------------------------------------------------------
\* The runtime's variables keep their types: neither MaxTCPConnections nor
\* MaxTCPConnectionsPerSource is exceeded, and no counter falls below zero.
THEOREM TypeCorrect == Spec => []TypeOK
<1>1. IInv => TypeOK
  BY DEF IInv
<1> QED BY <1>1, Invariance, PTL

\* connectionSlots, the WaitGroup, the connection set and the counts per source
\* agree with what the goroutines are doing, at every point between their steps.
THEOREM CountersExact == Spec => []CountsMatch
<1>1. IInv => CountsMatch
  BY DEF IInv
<1> QED BY <1>1, Invariance, PTL

\* A Serve that has returned has closed every connection and waited for every
\* handler, and a process that reports success was asked to stop and did so.
THEOREM NothingLeft == Spec => []NoneLeftBehind
<1>1. IInv => NoneLeftBehind
  <2> SUFFICES ASSUME IInv PROVE NoneLeftBehind
    OBVIOUS
  <2>1. ASSUME serve = "returned"
        PROVE  open = {} /\ In(Phases \ {"new", "gone", "refused"}) = {}
    <3>1. /\ In({"accepted", "slotted"}) = {}
          /\ In({"running", "returned", "unregistered", "released"}) = {}
      BY <2>1 DEF IInv, InHand, LoopsOver
    <3>2. In(Phases \ {"new", "gone", "refused"}) = {}
      BY <3>1 DEF In, Phases
    <3> QED BY <3>1, <3>2 DEF IInv, OpenHandled, In
  <2>2. exit = "ok" => serve = "returned" /\ result = "nil" /\ shuttingDown
    BY DEF IInv, LossReported
  <2> QED BY <2>1, <2>2 DEF NoneLeftBehind
<1> QED BY <1>1, Invariance, PTL

\* closeConnections in Shutdown works on a copy of the connection set, and still
\* no handler keeps its socket: nobody registers behind the flag.
THEOREM NobodyMissed == Spec => []ShutdownReachesAll
<1>1. IInv => ShutdownReachesAll
  BY DEF IInv, ListComplete, ShutdownReachesAll
<1> QED BY <1>1, Invariance, PTL

-----------------------------------------------------------------------------
(* The router                                                              *)

\* Where the record that begins after the first j words ends.
Past(q, j) == j + RecordWords(q[j + 1])

\* S has the beginning of the stream and, with a record, the next one.
Reads(q, S) ==
  /\ S \subseteq 0..Len(q) /\ 0 \in S
  /\ \A j \in S : j < Len(q) /\ Past(q, j) <= Len(q) => Past(q, j) \in S

\* What every such set has.
Least(q) == {i \in 0..Len(q) : \A S \in SUBSET (0..Len(q)) : Reads(q, S) => i \in S}

LEMMA RecordSizes ==
  ASSUME NEW w \in Words
  PROVE  BodyWords(w) \in Nat /\ RecordWords(w) \in Nat \ {0}
BY RouterAssumption DEF BodyWords, RecordWords

LEMMA PastLater ==
  ASSUME NEW q \in Seq(Words), NEW j \in 0..Len(q), j < Len(q)
  PROVE  Past(q, j) \in Nat /\ Past(q, j) > j
<1>1. q[j + 1] \in Words
  OBVIOUS
<1> QED BY <1>1, RecordSizes DEF Past

LEMMA LeastReads ==
  ASSUME NEW q \in Seq(Words)
  PROVE  Reads(q, Least(q))
<1>1. ASSUME NEW j \in Least(q), j < Len(q), Past(q, j) <= Len(q)
      PROVE  Past(q, j) \in Least(q)
  <2>1. Past(q, j) \in 0..Len(q)
    BY <1>1, PastLater DEF Least
  <2> QED BY <1>1, <2>1 DEF Least, Reads
<1>2. 0 \in Least(q)
  BY DEF Least, Reads
<1> QED BY <1>1, <1>2 DEF Reads, Least

\* The recursion by which StartsOf is defined has a solution.
LEMMA Solution ==
  ASSUME NEW q \in Seq(Words)
  PROVE  \E f : f = [i \in 0..Len(q) |->
                       i = 0 \/ \E j \in 0..i - 1 : f[j] /\ i = j + RecordWords(q[j + 1])]
<1> DEFINE f == [i \in 0..Len(q) |-> i \in Least(q)]
<1>1. ASSUME NEW i \in Least(q), i # 0, \A j \in Least(q) : i # Past(q, j) \/ j >= i
      PROVE  FALSE
  <2> DEFINE S == Least(q) \ {i}
  <2>1. ASSUME NEW j \in S, j < Len(q), Past(q, j) <= Len(q) PROVE Past(q, j) \in S
    <3>1. Past(q, j) \in Least(q) /\ Past(q, j) > j
      BY <2>1, LeastReads, PastLater DEF Reads
    <3> QED BY <1>1, <2>1, <3>1 DEF Least
  <2>2. Reads(q, S)
    BY <1>1, <2>1, LeastReads DEF Reads
  <2>3. S \in SUBSET (0..Len(q))
    BY DEF Least
  <2> QED BY <2>2, <2>3 DEF Least
<1>2. ASSUME NEW i \in 0..Len(q)
      PROVE  i \in Least(q) <=> (i = 0 \/ \E j \in 0..i - 1 : j \in Least(q) /\ i = Past(q, j))
  <2>1. ASSUME NEW j \in 0..i - 1, j \in Least(q), i = Past(q, j) PROVE i \in Least(q)
    BY <2>1, LeastReads DEF Reads
  <2>2. \A j \in Least(q) : j < i => j \in 0..i - 1
    BY DEF Least
  <2>3. 0 \in Least(q)
    BY LeastReads DEF Reads
  <2>4. \A j \in Least(q) : j \in Int
    BY DEF Least
  <2> QED BY <1>1, <2>1, <2>2, <2>3, <2>4
<1>3. ASSUME NEW i \in 0..Len(q)
      PROVE  (\E j \in 0..i - 1 : j \in Least(q) /\ i = Past(q, j))
               <=> \E j \in 0..i - 1 : f[j] /\ i = j + RecordWords(q[j + 1])
  <2>1. \A j \in 0..i - 1 : j \in 0..Len(q)
    OBVIOUS
  <2> QED BY <2>1 DEF Past
<1>4. f = [i \in 0..Len(q) |->
             i = 0 \/ \E j \in 0..i - 1 : f[j] /\ i = j + RecordWords(q[j + 1])]
  <2>1. ASSUME NEW i \in 0..Len(q)
        PROVE  (i \in Least(q))
                 = (i = 0 \/ \E j \in 0..i - 1 : f[j] /\ i = j + RecordWords(q[j + 1]))
    BY <1>2, <1>3
  <2> QED BY <2>1
<1> QED BY <1>4

LEMMA StartsUnfold ==
  ASSUME NEW q \in Seq(Words), NEW i \in 0..Len(q)
  PROVE  i \in StartsOf(q) <=> i = 0 \/ \E j \in StartsOf(q) : j < i /\ i = Past(q, j)
<1> DEFINE F(f) == [k \in 0..Len(q) |->
                      k = 0 \/ \E j \in 0..k - 1 : f[j] /\ k = j + RecordWords(q[j + 1])]
           begins == CHOOSE f : f = F(f)
<1>1. begins = F(begins)
  BY Solution
<1>2. StartsOf(q) = {k \in 0..Len(q) : begins[k]}
  BY DEF StartsOf
<1> HIDE DEF begins
<1>3. begins[i] <=> i = 0 \/ \E j \in 0..i - 1 : begins[j] /\ i = j + RecordWords(q[j + 1])
  BY <1>1
<1> QED BY <1>2, <1>3 DEF Past

\* A non-empty set of naturals has a least element.
LEMMA LeastNumber ==
  ASSUME NEW T \in SUBSET Nat, T # {}
  PROVE  \E m \in T : \A n \in T : m <= n
<1> DEFINE R == OpToRel(<, Nat)
<1>1. PICK m \in T : \A n \in T : ~ (<<n, m>> \in R)
  BY NatLessThanWellFounded, WFMin
<1>2. \A n \in T : ~ (n < m)
  BY <1>1 DEF OpToRel
<1> QED BY <1>2

LEMMA StartsRead ==
  ASSUME NEW q \in Seq(Words)
  PROVE  /\ Reads(q, StartsOf(q))
         /\ \A S : Reads(q, S) => StartsOf(q) \subseteq S
<1>1. StartsOf(q) \subseteq 0..Len(q)
  BY DEF StartsOf
<1>2. ASSUME NEW j \in StartsOf(q), j < Len(q), Past(q, j) <= Len(q)
      PROVE  Past(q, j) \in StartsOf(q)
  BY <1>1, <1>2, PastLater, StartsUnfold
<1>3. 0 \in StartsOf(q)
  BY StartsUnfold
<1>4. ASSUME NEW S, Reads(q, S), ~ (StartsOf(q) \subseteq S)
      PROVE  FALSE
  <2> DEFINE T == StartsOf(q) \ S
  <2>1. T \in SUBSET Nat /\ T # {}
    BY <1>1, <1>4
  <2>2. PICK m \in T : \A n \in T : m <= n
    BY <2>1, LeastNumber
  <2>3. m \in 0..Len(q) /\ m # 0
    BY <1>1, <1>4 DEF Reads
  <2>4. PICK j \in StartsOf(q) : j < m /\ m = Past(q, j)
    BY <2>3, StartsUnfold
  <2>5. j \in S
    BY <1>1, <2>2, <2>3, <2>4
  <2> QED BY <1>1, <1>4, <2>3, <2>4, <2>5 DEF Reads
<1> QED BY <1>1, <1>2, <1>3, <1>4 DEF Reads

\* No record begins within another.
LEMMA StartsApart ==
  ASSUME NEW q \in Seq(Words), NEW a \in StartsOf(q), NEW b \in StartsOf(q), a < b
  PROVE  Past(q, a) <= b
<1> DEFINE After(k) == \A i \in StartsOf(q) : i < k => Past(q, i) <= k
           S == {k \in StartsOf(q) : After(k)}
<1>1. StartsOf(q) \subseteq 0..Len(q)
  BY DEF StartsOf
<1>2. \A k \in StartsOf(q) : k < Len(q) => Past(q, k) \in Nat /\ Past(q, k) > k
  BY <1>1, PastLater
<1>3. ASSUME NEW k \in S, k < Len(q), Past(q, k) <= Len(q)
      PROVE  Past(q, k) \in S
  <2> DEFINE U == {i \in StartsOf(q) : i <= k \/ Past(q, k) <= i}
  <2>1. ASSUME NEW i \in U, i < Len(q), Past(q, i) <= Len(q) PROVE Past(q, i) \in U
    <3>1. Past(q, i) \in StartsOf(q) /\ Past(q, i) > i
      BY <1>2, <2>1, StartsRead DEF Reads
    <3>2. i \in Nat /\ k \in Nat /\ Past(q, i) \in Nat /\ Past(q, k) \in Nat
      BY <1>1, <1>2, <1>3, <2>1
    <3>3. CASE i < k
      BY <1>3, <3>1, <3>3
    <3>4. CASE i = k
      BY <3>1, <3>2, <3>4
    <3>5. CASE i > k
      BY <2>1, <3>1, <3>2, <3>5
    <3> QED BY <3>2, <3>3, <3>4, <3>5
  <2>2. Reads(q, U)
    BY <1>1, <2>1, StartsRead DEF Reads
  <2>3. \A i \in StartsOf(q) : i <= k \/ Past(q, k) <= i
    BY <2>2, StartsRead
  <2>4. Past(q, k) \in StartsOf(q) /\ Past(q, k) > k
    BY <1>2, <1>3, StartsRead DEF Reads
  <2>5. ASSUME NEW i \in StartsOf(q), i < Past(q, k) PROVE Past(q, i) <= Past(q, k)
    <3>1. i \in Nat /\ k \in Nat /\ Past(q, k) \in Nat
      BY <1>1, <1>2, <1>3
    <3>2. i <= k
      BY <2>3, <2>5, <3>1
    <3>3. CASE i = k
      BY <3>1, <3>3
    <3>4. CASE i < k
      <4>1. Past(q, i) <= k /\ Past(q, i) \in Nat
        BY <1>2, <1>3, <3>1, <3>4
      <4> QED BY <2>4, <3>1, <4>1
    <3> QED BY <3>1, <3>2, <3>3, <3>4
  <2> QED BY <2>4, <2>5
<1>4. Reads(q, S)
  <2>1. 0 \in S
    BY <1>1, StartsRead DEF Reads
  <2> QED BY <1>1, <1>3, <2>1 DEF Reads
<1> QED BY <1>4, StartsRead

\* The words that arrive later change nothing in what came before.
LEMMA StartsAppend ==
  ASSUME NEW q \in Seq(Words), NEW w \in Words
  PROVE  /\ \A i \in 0..Len(q) : i \in StartsOf(Append(q, w)) <=> i \in StartsOf(q)
         /\ \A i \in 0..Len(q) - 1 : Append(q, w)[i + 1] = q[i + 1]
         /\ \A i \in 0..Len(q) - 1 : Past(Append(q, w), i) = Past(q, i)
<1> DEFINE r == Append(q, w)
<1>1. r \in Seq(Words) /\ Len(r) = Len(q) + 1 /\ \A i \in 0..Len(q) - 1 : r[i + 1] = q[i + 1]
  OBVIOUS
<1>2. \A i \in 0..Len(q) - 1 : Past(r, i) = Past(q, i)
  BY <1>1 DEF Past
<1> HIDE DEF r
<1>3. Len(q) \in Nat
  OBVIOUS
<1>4. \A i \in 0..Len(r) : i < Len(r) => Past(r, i) \in Nat /\ Past(r, i) > i
  BY <1>1, PastLater
<1>5. StartsOf(r) \subseteq StartsOf(q) \cup {Len(q) + 1}
  <2> DEFINE S == StartsOf(q) \cup {Len(q) + 1}
  <2>1. S \subseteq 0..Len(r) /\ 0 \in S
    BY <1>1, <1>3, StartsRead DEF Reads
  <2>2. ASSUME NEW j \in S, j < Len(r), Past(r, j) <= Len(r) PROVE Past(r, j) \in S
    <3>1. j \in StartsOf(q) /\ j \in 0..Len(q)
      BY <1>1, <1>3, <2>2, StartsRead DEF Reads
    <3>2. CASE j = Len(q)
      BY <1>1, <1>3, <1>4, <2>2, <3>2
    <3>3. CASE j < Len(q)
      <4>1. Past(r, j) = Past(q, j) /\ Past(r, j) \in Nat
        BY <1>1, <1>2, <1>3, <1>4, <3>1, <3>3
      <4>2. CASE Past(q, j) <= Len(q)
        BY <3>1, <3>3, <4>1, <4>2, StartsRead DEF Reads
      <4>3. CASE Past(q, j) > Len(q)
        BY <1>1, <1>3, <2>2, <4>1, <4>3
      <4> QED BY <1>3, <4>1, <4>2, <4>3
    <3> QED BY <1>3, <3>1, <3>2, <3>3
  <2>3. Reads(r, S)
    BY <2>1, <2>2 DEF Reads
  <2> QED BY <1>1, <2>3, StartsRead
<1>6. StartsOf(q) \subseteq StartsOf(r)
  <2> DEFINE S == StartsOf(r) \cap 0..Len(q)
  <2>1. 0 \in S
    BY <1>1, <1>3, StartsRead DEF Reads
  <2>2. ASSUME NEW j \in S, j < Len(q), Past(q, j) <= Len(q) PROVE Past(q, j) \in S
    BY <1>1, <1>2, <1>3, <1>4, <2>2, StartsRead DEF Reads
  <2>3. Reads(q, S)
    BY <2>1, <2>2 DEF Reads
  <2> QED BY <2>3, StartsRead
<1> QED BY <1>1, <1>2, <1>3, <1>5, <1>6 DEF r

-----------------------------------------------------------------------------
(* The records before a place in the stream                                *)

Before(q, n) == {i \in StartsOf(q) : i < n}

\* n is the place to which the records that have begun lead, arrived or not.
Skipping(q, n) ==
  \/ n \in StartsOf(q)
  \/ \E j \in StartsOf(q) : j < Len(q) /\ n = Past(q, j)

LEMMA StartsInStream ==
  ASSUME NEW q \in Seq(Words)
  PROVE  /\ StartsOf(q) \subseteq 0..Len(q) /\ 0 \in StartsOf(q)
         /\ \A n : IsFiniteSet(Before(q, n)) /\ Cardinality(Before(q, n)) \in Nat
<1>1. StartsOf(q) \subseteq 0..Len(q) /\ 0 \in StartsOf(q)
  BY StartsRead DEF Reads
<1>2. IsFiniteSet(0..Len(q))
  BY FS_Interval
<1>3. ASSUME NEW n PROVE IsFiniteSet(Before(q, n)) /\ Cardinality(Before(q, n)) \in Nat
  <2>1. Before(q, n) \in SUBSET (0..Len(q))
    BY <1>1 DEF Before
  <2> QED BY <1>2, <2>1, FS_Subset, FS_CardinalityType
<1> QED BY <1>1, <1>3

LEMMA SkippingInNat ==
  ASSUME NEW q \in Seq(Words), NEW n, Skipping(q, n)
  PROVE  n \in Nat
<1>1. StartsOf(q) \subseteq 0..Len(q)
  BY StartsInStream
<1>2. \A j \in StartsOf(q) : j < Len(q) => Past(q, j) \in Nat
  BY <1>1, PastLater
<1> QED BY <1>1, <1>2 DEF Skipping

\* Once the words up to n have arrived, a record begins or the last one ends there.
LEMMA SkippedIsStart ==
  ASSUME NEW q \in Seq(Words), NEW n, Skipping(q, n), n <= Len(q)
  PROVE  n \in StartsOf(q)
BY StartsRead DEF Skipping, Reads

\* A step over the record at j adds j to the records before the place.
LEMMA NextRecord ==
  ASSUME NEW q \in Seq(Words), NEW j \in StartsOf(q), j < Len(q)
  PROVE  /\ Skipping(q, Past(q, j))
         /\ j \notin Before(q, j)
         /\ Before(q, Past(q, j)) = Before(q, j) \cup {j}
         /\ Cardinality(Before(q, Past(q, j))) = Cardinality(Before(q, j)) + 1
         /\ Past(q, j) <= Len(q) => Past(q, j) \in StartsOf(q)
<1>1. StartsOf(q) \subseteq 0..Len(q) /\ IsFiniteSet(Before(q, j))
  BY StartsInStream
<1>2. Past(q, j) \in Nat /\ Past(q, j) > j /\ j \in Nat
  BY <1>1, PastLater
<1>3. j \notin Before(q, j)
  BY <1>2 DEF Before
<1>4. ASSUME NEW i \in StartsOf(q) PROVE i < Past(q, j) <=> i < j \/ i = j
  <2>1. i \in Nat
    BY <1>1
  <2>2. j < i => Past(q, j) <= i
    BY StartsApart
  <2> QED BY <1>2, <2>1, <2>2
<1>5. Before(q, Past(q, j)) = Before(q, j) \cup {j}
  BY <1>4 DEF Before
<1>6. Cardinality(Before(q, j) \cup {j}) = Cardinality(Before(q, j)) + 1
  BY <1>1, <1>3, FS_AddElement
<1>7. Skipping(q, Past(q, j))
  BY DEF Skipping
<1>8. Past(q, j) <= Len(q) => Past(q, j) \in StartsOf(q)
  BY StartsRead DEF Reads
<1> QED BY <1>3, <1>5, <1>6, <1>7, <1>8

\* A word that arrives changes none of the records before the place.
LEMMA BeforeAppend ==
  ASSUME NEW q \in Seq(Words), NEW w \in Words, NEW n, Skipping(q, n)
  PROVE  /\ Skipping(Append(q, w), n)
         /\ Before(Append(q, w), n) = Before(q, n)
         /\ \A i \in Before(q, n) : i \in 0..Len(q) - 1 /\ Append(q, w)[i + 1] = q[i + 1]
<1> DEFINE r == Append(q, w)
<1>1. /\ r \in Seq(Words) /\ Len(r) = Len(q) + 1 /\ Len(q) \in Nat
      /\ \A i \in 0..Len(q) - 1 : r[i + 1] = q[i + 1]
  OBVIOUS
<1>2. /\ \A i \in 0..Len(q) : i \in StartsOf(r) <=> i \in StartsOf(q)
      /\ \A i \in 0..Len(q) - 1 : Past(r, i) = Past(q, i)
  BY StartsAppend
<1> HIDE DEF r
<1>3. /\ StartsOf(q) \subseteq 0..Len(q) /\ StartsOf(r) \subseteq 0..Len(q) + 1
      /\ n \in Nat
  BY <1>1, StartsInStream, SkippingInNat
<1>4. Skipping(r, n)
  BY <1>1, <1>2, <1>3 DEF Skipping
<1>5. ASSUME NEW i, i \in StartsOf(q) \/ i \in StartsOf(r), i < n PROVE i < Len(q)
  <2>1. i \in Nat
    BY <1>3, <1>5
  <2>2. CASE n <= Len(q)
    BY <1>1, <1>3, <1>5, <2>1, <2>2
  <2>3. CASE n > Len(q)
    <3>1. PICK j \in StartsOf(q) : j < Len(q) /\ n = Past(q, j)
      BY <1>1, <1>3, <2>3 DEF Skipping
    <3>2. j \in 0..Len(q) - 1 /\ j \in StartsOf(r) /\ Past(r, j) = n
      BY <1>1, <1>2, <1>3, <3>1
    <3>3. i \in StartsOf(r)
      BY <1>2, <1>3, <1>5
    <3>4. ~ (j < i)
      BY <1>1, <1>3, <1>5, <2>1, <3>2, <3>3, StartsApart
    <3> QED BY <1>1, <2>1, <3>2, <3>4
  <2> QED BY <1>1, <1>3, <2>2, <2>3
<1>6. ASSUME NEW i PROVE i \in Before(r, n) <=> i \in Before(q, n)
  BY <1>2, <1>3, <1>5 DEF Before
<1>7. \A i \in Before(q, n) : i \in 0..Len(q) - 1
  BY <1>1, <1>3, <1>5 DEF Before
<1> QED BY <1>1, <1>4, <1>6, <1>7 DEF r

-----------------------------------------------------------------------------
(* The inductive invariant                                                 *)

Typed ==
  /\ sent \in Seq(Words)
  /\ stage \in {"router", "auth", "lobby"}
  /\ offset \in Nat /\ controlCount \in Nat
  /\ pos \in Nat /\ recordIndex \in Nat /\ served \in Nat /\ replies \in Nat

\* The router has skipped control records only, whole ones, and counted them.
RouterReads ==
  /\ Skipping(sent, offset)
  /\ controlCount = Cardinality(RecordsIn(offset))
  /\ \A i \in RecordsIn(offset) : ControlAt(i)
  /\ Routing => controlCount <= MaxLeading
  /\ stage = "router" => pos = 0

\* The service was picked by the whole frame that begins at the offset.
Picked ==
  stage \in {"auth", "lobby"} =>
    /\ controlCount <= MaxLeading
    /\ offset + 2 <= Len(sent) /\ offset + 1 + BodyWords(Size) <= Len(sent)
    /\ InitialFrame /\ Acceptable
    /\ Flag(FirstWord) = 0
    /\ MessageType(FirstWord) \in IF stage = "auth" THEN AuthTypes ELSE {LSGService}

RouterIInv == Typed /\ RouterReads /\ Picked /\ AnsweredExactly /\ RequestReached

LEMMA RecordsBefore == \A n : RecordsIn(n) = Before(sent, n)
BY DEF RecordsIn, starts, Before

LEMMA PickedFrame ==
  ASSUME Typed, RouterReads, Picked, stage \in {"auth", "lobby"}
  PROVE  /\ offset \in starts /\ offset < Len(sent) /\ ~ControlAt(offset)
         /\ Past(sent, offset) = offset + 1 + BodyWords(Size)
         /\ Past(sent, offset) <= Len(sent)
<1>1. offset + 2 <= Len(sent) /\ offset \in Nat /\ Len(sent) \in Nat
  BY DEF Picked, Typed
<1>2. offset \in starts
  BY <1>1, SkippedIsStart DEF Typed, RouterReads, starts
<1>3. Size \notin {Keepalive, Marker}
  BY DEF Picked, InitialFrame
<1>4. ~ControlAt(offset)
  BY <1>3 DEF ControlAt, Size
<1>5. Past(sent, offset) = offset + 1 + BodyWords(Size)
  <2>1. RecordWords(Size) = 1 + BodyWords(Size)
    BY <1>3 DEF RecordWords
  <2>2. Size \in Words
    BY <1>1 DEF Size, Typed
  <2>3. BodyWords(Size) \in Nat
    BY <2>2, RecordSizes
  <2> QED BY <1>1, <2>1, <2>3 DEF Past, Size
<1> QED BY <1>1, <1>2, <1>4, <1>5 DEF Picked

LEMMA ImpliesRoutedAsRead ==
  RouterIInv => RoutedAsRead
<1> SUFFICES ASSUME RouterIInv, stage \in {"auth", "lobby"} PROVE RoutedAsRead
  BY DEF RoutedAsRead
<1>1. /\ offset \in starts /\ offset < Len(sent) /\ ~ControlAt(offset)
      /\ Past(sent, offset) <= Len(sent)
  BY PickedFrame DEF RouterIInv
<1>2. FirstFrame(offset)
  BY <1>1 DEF FirstFrame, RouterIInv, RouterReads
<1>3. offset + RecordWords(sent[offset + 1]) \in starts
  BY <1>1, StartsRead DEF Past, Reads, starts, RouterIInv, Typed
<1>4. Cardinality(RecordsIn(offset)) <= MaxLeading
  BY DEF RouterIInv, RouterReads, Picked
<1>5. /\ Flag(sent[offset + 2]) = 0
      /\ MessageType(sent[offset + 2]) \in IF stage = "auth" THEN AuthTypes ELSE {LSGService}
  BY DEF RouterIInv, Picked, FirstWord
<1> QED BY <1>1, <1>2, <1>3, <1>4, <1>5 DEF RoutedAsRead

\* While the handler has answered no request it is at most at the frame by
\* which it was picked, and all it reads up to that frame's end has arrived.
LEMMA NotBeyondFrame ==
  ASSUME RouterIInv, stage = "auth", served = 0
  PROVE  /\ pos <= offset /\ recordIndex <= controlCount
         /\ ~ReaderBlocked /\ pos < Buffered
<1>1. /\ offset \in starts /\ offset < Len(sent) /\ ~ControlAt(offset)
      /\ Past(sent, offset) <= Len(sent) /\ Past(sent, offset) = Buffered
  BY PickedFrame DEF RouterIInv, Buffered
<1>2. /\ sent \in Seq(Words) /\ pos \in Nat /\ offset \in Nat /\ Len(sent) \in Nat
      /\ pos \in starts
  BY DEF RouterIInv, Typed, AnsweredExactly
<1>3. pos <= offset
  <2> DEFINE frames == {i \in RecordsIn(pos) : ~ControlAt(i)}
  <2>1. IsFiniteSet(frames)
    <3>1. IsFiniteSet(RecordsIn(pos)) /\ frames \in SUBSET RecordsIn(pos)
      BY <1>2, StartsInStream, RecordsBefore
    <3> QED BY <3>1, FS_Subset
  <2>2. Cardinality(frames) = 0
    BY DEF RouterIInv, AnsweredExactly
  <2>3. frames = {}
    BY <2>1, <2>2, FS_EmptySet
  <2>4. offset \notin RecordsIn(pos)
    BY <1>1, <2>3
  <2> QED BY <1>1, <1>2, <2>4 DEF RecordsIn
<1>4. recordIndex <= controlCount
  <2>1. RecordsIn(pos) \in SUBSET RecordsIn(offset)
    <3>1. \A i \in starts : i \in Int
      BY <1>2, StartsInStream DEF starts
    <3>2. \A i \in starts : i < pos => i < offset
      BY <1>2, <1>3, <3>1
    <3> QED BY <3>2 DEF RecordsIn
  <2>2. IsFiniteSet(RecordsIn(offset))
    BY <1>2, StartsInStream, RecordsBefore
  <2>3. Cardinality(RecordsIn(pos)) <= Cardinality(RecordsIn(offset))
    BY <2>1, <2>2, FS_Subset
  <2> QED BY <2>3 DEF RouterIInv, AnsweredExactly, RouterReads
<1>5. Past(sent, pos) <= Past(sent, offset) /\ Past(sent, pos) \in Nat /\ pos < Past(sent, pos)
  <2>1. pos \in 0..Len(sent) /\ pos < Len(sent)
    BY <1>1, <1>2, <1>3
  <2>2. Past(sent, pos) \in Nat /\ pos < Past(sent, pos)
    BY <1>2, <2>1, PastLater
  <2>3. CASE pos < offset
    <3>1. Past(sent, pos) <= offset
      BY <1>1, <1>2, <2>3, StartsApart DEF starts
    <3>2. Past(sent, offset) \in Nat /\ offset < Past(sent, offset)
      BY <1>1, <1>2, PastLater
    <3> QED BY <1>2, <2>2, <3>1, <3>2
  <2>4. CASE pos = offset
    BY <2>2, <2>4
  <2> QED BY <1>2, <1>3, <2>2, <2>3, <2>4
<1>6. /\ Arrived(1) /\ Arrived(RecordWords(Prefix))
  <2>1. RecordWords(Prefix) = Past(sent, pos) - pos
    <3>1. sent[pos + 1] \in Words
      BY <1>1, <1>2, <1>3
    <3> QED BY <1>2, <3>1, RecordSizes DEF Past, Prefix
  <2>2. Past(sent, offset) \in Nat
    BY <1>1, <1>2, PastLater
  <2> QED BY <1>1, <1>2, <1>3, <1>5, <2>1, <2>2 DEF Arrived
<1>7. pos < Buffered
  BY <1>1, <1>2, <1>5, PastLater
<1> QED BY <1>3, <1>4, <1>6, <1>7 DEF ReaderBlocked

LEMMA RouterInitIInv == RouterInit => RouterIInv
<1> SUFFICES ASSUME RouterInit PROVE RouterIInv
  OBVIOUS
<1>1. Typed
  BY DEF RouterInit, Typed
<1>2. sent \in Seq(Words) /\ 0 \in starts
  BY <1>1, StartsInStream DEF Typed, starts
<1>3. RecordsIn(0) = {}
  <2>1. \A i \in starts : i \in Nat
    BY <1>2, StartsInStream DEF starts
  <2> QED BY <2>1 DEF RecordsIn
<1>4. RouterReads
  BY <1>2, <1>3, FS_EmptySet, RouterAssumption DEF RouterInit, RouterReads, Skipping, starts
<1>5. Picked /\ RequestReached
  BY DEF RouterInit, Picked, RequestReached
<1>6. AnsweredExactly
  <2>1. {i \in RecordsIn(0) : ~ControlAt(i)} = {} /\ {i \in RecordsIn(0) : sent[i + 1] # Marker} = {}
    BY <1>3
  <2> QED BY <1>2, <1>3, <2>1, FS_EmptySet DEF RouterInit, AnsweredExactly
<1> QED BY <1>1, <1>4, <1>5, <1>6 DEF RouterIInv

LEMMA SendKeeps ==
  ASSUME RouterIInv, NEW w \in Words, Send(w)
  PROVE  RouterIInv'
<1> USE DEF RouterIInv
<1>1. /\ sent \in Seq(Words) /\ sent' = Append(sent, w) /\ offset \in Nat /\ pos \in Nat
      /\ UNCHANGED <<stage, outcome, routing, reading>> /\ outcome = "none"
  BY DEF Send, Typed
<1>2. /\ sent' \in Seq(Words) /\ Len(sent') = Len(sent) + 1 /\ Len(sent) \in Nat
      /\ \A i \in 0..Len(sent) - 1 : sent'[i + 1] = sent[i + 1]
  BY <1>1
<1>3. Typed'
  BY <1>1, <1>2 DEF Typed, routing, reading
<1>4. ASSUME NEW n, Skipping(sent, n)
      PROVE  /\ Skipping(sent', n) /\ RecordsIn(n)' = RecordsIn(n)
             /\ \A i \in RecordsIn(n) : sent'[i + 1] = sent[i + 1]
  <2>1. RecordsIn(n)' = Before(sent', n)
    BY DEF RecordsIn, starts, Before
  <2> QED BY <1>1, <1>4, <2>1, BeforeAppend, RecordsBefore
<1>5. RouterReads'
  <2>1. Skipping(sent, offset)
    BY DEF RouterReads
  <2>2. \A i \in RecordsIn(offset) : ControlAt(i)'
    BY <1>4, <2>1 DEF RouterReads, ControlAt
  <2>3. RecordsIn(offset') = RecordsIn(offset)
    BY <1>1 DEF routing
  <2>4. RecordsIn(offset)' = RecordsIn(offset)
    BY <1>4, <2>1, <1>1 DEF RecordsIn, starts, routing
  <2> QED BY <1>1, <1>4, <2>1, <2>2, <2>4 DEF RouterReads, Routing, routing, reading
<1>6. Picked'
  <2>1. ASSUME stage \in {"auth", "lobby"}
        PROVE  /\ Size' = Size /\ FirstWord' = FirstWord /\ offset + 2 <= Len(sent)
               /\ offset + 1 + BodyWords(Size) <= Len(sent)
    <3>1. offset + 2 <= Len(sent) /\ offset + 1 + BodyWords(Size) <= Len(sent)
      BY <2>1 DEF Picked
    <3>2. sent'[offset + 1] = sent[offset + 1] /\ sent'[offset + 2] = sent[offset + 2]
      BY <1>1, <1>2, <3>1
    <3> QED BY <1>1, <3>1, <3>2 DEF Size, FirstWord, routing
  <2> SUFFICES ASSUME stage \in {"auth", "lobby"} PROVE Picked'
    BY <1>1 DEF Picked
  <2>2. /\ Size' = Size /\ FirstWord' = FirstWord /\ offset + 2 <= Len(sent)
        /\ offset + 1 + BodyWords(Size) <= Len(sent)
    BY <2>1
  <2>3. /\ controlCount' <= MaxLeading /\ Acceptable' /\ Flag(FirstWord') = 0
        /\ MessageType(FirstWord') \in IF stage' = "auth" THEN AuthTypes ELSE {LSGService}
        /\ Size' \notin {Keepalive, Marker}
    BY <1>1, <2>2 DEF Picked, InitialFrame, Acceptable, routing
  <2>4. BodyWords(Size) \in Nat
    <3>1. Size \in Words
      BY <1>1, <2>2 DEF Size
    <3> QED BY <3>1, RecordSizes
  <2>5. offset' + 2 <= Len(sent') /\ offset' + 1 + BodyWords(Size') <= Len(sent')
    BY <1>1, <1>2, <2>2, <2>4 DEF routing
  <2>6. Peeked(1)'
    BY <1>1, <1>2, <2>5, <2>2 DEF Peeked, routing
  <2> QED BY <2>3, <2>5, <2>6 DEF Picked, InitialFrame
<1>7. AnsweredExactly'
  <2>1. Skipping(sent, pos) /\ pos \in starts /\ pos \in 0..Len(sent)
    BY <1>1, StartsInStream DEF AnsweredExactly, Skipping, starts
  <2>2. pos \in starts'
    BY <1>1, <2>1, StartsAppend DEF starts
  <2>3. RecordsIn(pos)' = RecordsIn(pos)
    BY <1>1, <1>4, <2>1 DEF RecordsIn, starts, reading
  <2>4. \A i \in RecordsIn(pos) : (ControlAt(i)' <=> ControlAt(i))
                                  /\ (sent'[i + 1] # Marker <=> sent[i + 1] # Marker)
    BY <1>4, <2>1 DEF ControlAt
  <2>5. {i \in RecordsIn(pos) : ControlAt(i)'} = {i \in RecordsIn(pos) : ControlAt(i)}
        /\ {i \in RecordsIn(pos) : ~ControlAt(i)'} = {i \in RecordsIn(pos) : ~ControlAt(i)}
        /\ {i \in RecordsIn(pos) : sent'[i + 1] # Marker}
             = {i \in RecordsIn(pos) : sent[i + 1] # Marker}
    BY <2>4
  <2> QED BY <1>1, <2>2, <2>3, <2>5 DEF AnsweredExactly, reading
<1>8. RequestReached'
  BY <1>1 DEF RequestReached
<1> QED BY <1>3, <1>5, <1>6, <1>7, <1>8

\* The steps that change no more than the stage and the outcome.
LEMMA ReadingKept ==
  ASSUME RouterIInv, UNCHANGED <<sent, routing, reading>>
  PROVE  /\ Typed' <=> stage' \in {"router", "auth", "lobby"}
         /\ RouterReads' <=> /\ Routing' => controlCount <= MaxLeading
                             /\ stage' = "router" => pos = 0
         /\ stage' = stage => Picked'
         /\ AnsweredExactly'
<1>1. Typed' <=> stage' \in {"router", "auth", "lobby"}
  BY DEF RouterIInv, Typed, routing, reading
<1>2. RouterReads' <=> /\ Routing' => controlCount <= MaxLeading
                       /\ stage' = "router" => pos = 0
  BY DEF RouterIInv, RouterReads, RecordsIn, starts, ControlAt, routing, reading
<1>3. stage' = stage => Picked'
  BY DEF RouterIInv, Picked, InitialFrame, Acceptable, Peeked, Size, FirstWord, routing
<1>4. AnsweredExactly'
  BY DEF RouterIInv, AnsweredExactly, RecordsIn, starts, ControlAt, routing, reading
<1> QED BY <1>1, <1>2, <1>3, <1>4

LEMMA EndKeeps ==
  ASSUME RouterIInv, NEW why, Ends(why), why # "none", UNCHANGED <<input, routing, reading>>,
         stage = "auth" /\ served = 0 /\ why \notin {"protocol", "writeFailed", "shutdown"}
           => why = "recordLimit" /\ controlCount >= MaxRecords
  PROVE  RouterIInv'
<1>1. UNCHANGED sent /\ stage' = stage /\ outcome' = why
  BY DEF Ends, input
<1>2. Typed' /\ RouterReads' /\ Picked' /\ AnsweredExactly'
  BY <1>1, ReadingKept DEF RouterIInv, Typed, RouterReads, Routing
<1>3. RequestReached'
  BY <1>1 DEF RequestReached, routing, reading
<1> QED BY <1>2, <1>3 DEF RouterIInv

LEMMA CloseKeeps ==
  ASSUME RouterIInv, Close
  PROVE  RouterIInv'
<1>1. UNCHANGED <<sent, stage, outcome, routing, reading>>
  BY DEF Close
<1>2. Typed' /\ RouterReads' /\ Picked' /\ AnsweredExactly'
  BY <1>1, ReadingKept DEF RouterIInv, Typed, RouterReads, Routing
<1>3. RequestReached'
  BY <1>1 DEF RouterIInv, RequestReached, routing, reading
<1> QED BY <1>2, <1>3 DEF RouterIInv

LEMMA SkipKeeps ==
  ASSUME RouterIInv, SkipControl
  PROVE  RouterIInv'
<1>1. /\ sent \in Seq(Words) /\ offset \in Nat /\ controlCount \in Nat /\ Len(sent) \in Nat
      /\ stage = "router" /\ outcome = "none" /\ controlCount <= MaxLeading /\ MaxLeading \in Nat
      /\ UNCHANGED <<sent, stage, reading>>
  BY RouterAssumption DEF RouterIInv, Typed, RouterReads, SkipControl, Routing, Ends, input
<1>2. offset < Len(sent) /\ offset \in starts /\ sent[offset + 1] \in {Keepalive, Marker}
  <2>1. offset < Len(sent)
    BY <1>1 DEF SkipControl, Peeked
  <2> QED BY <1>1, <2>1, SkippedIsStart DEF RouterIInv, RouterReads, SkipControl, Size, starts
<1>3. offset' = Past(sent, offset) /\ controlCount' = controlCount + 1
  BY <1>2 DEF SkipControl, Past, Skipped, Size, RecordWords, Keepalive, Marker
<1>4. /\ Skipping(sent, Past(sent, offset))
      /\ RecordsIn(Past(sent, offset)) = RecordsIn(offset) \cup {offset}
      /\ Cardinality(RecordsIn(Past(sent, offset))) = Cardinality(RecordsIn(offset)) + 1
  BY <1>1, <1>2, NextRecord, RecordsBefore DEF starts
<1>5. Typed'
  BY <1>1, <1>2, <1>3, PastLater DEF RouterIInv, Typed, reading
<1>6. RouterReads'
  <2>1. RecordsIn(offset)' = RecordsIn(Past(sent, offset))
    BY <1>1, <1>3 DEF RecordsIn, starts
  <2>2. \A i \in RecordsIn(offset)' : ControlAt(i)'
    BY <1>1, <1>2, <1>4, <2>1 DEF RouterIInv, RouterReads, ControlAt
  <2>3. Routing' => controlCount' <= MaxLeading
    BY <1>1, <1>3 DEF SkipControl, ControlsExhausted, Ends, Routing
  <2>4. controlCount' = Cardinality(RecordsIn(offset)')
    BY <1>3, <1>4, <2>1 DEF RouterIInv, RouterReads
  <2> QED BY <1>1, <1>3, <1>4, <2>1, <2>2, <2>3, <2>4 DEF RouterIInv, RouterReads, reading
<1>7. Picked' /\ RequestReached'
  BY <1>1 DEF Picked, RequestReached
<1>8. AnsweredExactly'
  BY <1>1 DEF RouterIInv, AnsweredExactly, RecordsIn, starts, ControlAt, reading
<1> QED BY <1>5, <1>6, <1>7, <1>8 DEF RouterIInv

LEMMA RouteKeeps ==
  ASSUME RouterIInv, Route
  PROVE  RouterIInv'
<1>1. /\ UNCHANGED <<sent, routing, reading>> /\ stage = "router" /\ outcome = "none"
      /\ offset \in Nat /\ Len(sent) \in Nat
  BY DEF RouterIInv, Typed, Route, Routing, input
<1>2. \/ /\ stage' = "auth" /\ UNCHANGED outcome
         /\ MessageType(FirstWord) \in AuthTypes
      \/ /\ stage' = "lobby" /\ UNCHANGED outcome
         /\ MessageType(FirstWord) = LSGService
      \/ Ends("unsupported")
  BY DEF Route, GoesTo
<1>3. CASE Ends("unsupported")
  BY <1>1, <1>3, EndKeeps DEF Route
<1>4. CASE stage' \in {"auth", "lobby"} /\ UNCHANGED outcome
  <2>1. Typed' /\ RouterReads' /\ AnsweredExactly'
    BY <1>1, <1>4, ReadingKept DEF Routing
  <2>2. /\ MessageType(FirstWord) \in IF stage' = "auth" THEN AuthTypes ELSE {LSGService}
    BY <1>1, <1>2, <1>4 DEF Ends
  <2>3. Picked'
    <3>1. Size' = Size /\ FirstWord' = FirstWord /\ InitialFrame' /\ Acceptable'
      BY <1>1 DEF Route, InitialFrame, Acceptable, Peeked, Size, FirstWord, routing
    <3>2. offset + 2 <= Len(sent) /\ offset + 1 + BodyWords(Size) <= Len(sent)
      <4>1. Size \in Words
        BY <1>1 DEF Route, Peeked, Size, RouterIInv, Typed
      <4>2. BodyWords(Size) \in Nat
        BY <4>1, RecordSizes
      <4> QED BY <1>1, <4>2 DEF Route, Peeked
    <3>3. controlCount <= MaxLeading /\ Flag(FirstWord) = 0
      BY DEF RouterIInv, RouterReads, Route
    <3> QED BY <1>1, <2>2, <3>1, <3>2, <3>3 DEF Picked, routing
  <2>4. RequestReached'
    BY <1>1, <1>4 DEF RequestReached
  <2> QED BY <2>1, <2>3, <2>4 DEF RouterIInv
<1> QED BY <1>2, <1>3, <1>4

\* The handler's step over a record, which it answers with a frame unless it
\* is a buffer record.
LEMMA ConsumeKeeps ==
  ASSUME RouterIInv, Reading, pos < Len(sent), Past(sent, pos) <= Len(sent),
         pos' = Past(sent, pos), recordIndex' = recordIndex + 1,
         served' = IF ControlAt(pos) THEN served ELSE served + 1,
         replies' = IF sent[pos + 1] = Marker THEN replies ELSE replies + 1,
         UNCHANGED <<input, stage, outcome, routing>>
  PROVE  RouterIInv'
<1>1. /\ sent \in Seq(Words) /\ pos \in starts /\ pos \in Nat /\ Len(sent) \in Nat
      /\ UNCHANGED sent /\ stage = "auth" /\ outcome = "none"
  BY DEF RouterIInv, Typed, AnsweredExactly, Reading, input
<1>2. /\ pos \notin RecordsIn(pos) /\ Past(sent, pos) \in starts
      /\ RecordsIn(Past(sent, pos)) = RecordsIn(pos) \cup {pos}
      /\ Cardinality(RecordsIn(Past(sent, pos))) = Cardinality(RecordsIn(pos)) + 1
  BY <1>1, NextRecord, RecordsBefore DEF starts
<1>3. Past(sent, pos) \in Nat
  BY <1>1, PastLater
<1>4. Typed'
  BY <1>1, <1>3 DEF RouterIInv, Typed, routing
<1>5. RouterReads' /\ Picked' /\ RequestReached'
  BY <1>1 DEF RouterIInv, RouterReads, Picked, RequestReached, Routing, RecordsIn, starts, ControlAt,
              InitialFrame, Acceptable, Peeked, Size, FirstWord, routing
<1>6. AnsweredExactly'
  <2>1. RecordsIn(pos)' = RecordsIn(pos) \cup {pos} /\ starts' = starts
    BY <1>1, <1>2 DEF RecordsIn, starts
  <2>2. IsFiniteSet(RecordsIn(pos))
    BY <1>1, StartsInStream, RecordsBefore
  <2>3. ASSUME NEW F \in SUBSET RecordsIn(pos)
        PROVE  Cardinality(F \cup {pos}) = Cardinality(F) + 1
    BY <1>2, <2>2, <2>3, FS_AddElement, FS_Subset
  <2>4. served' = Cardinality({i \in RecordsIn(pos)' : ~ControlAt(i)'})
    <3> DEFINE frames == {i \in RecordsIn(pos) : ~ControlAt(i)}
    <3>1. {i \in RecordsIn(pos)' : ~ControlAt(i)'}
            = IF ControlAt(pos) THEN frames ELSE frames \cup {pos}
      BY <1>1, <2>1 DEF ControlAt
    <3>2. Cardinality(frames \cup {pos}) = Cardinality(frames) + 1
      BY <2>3
    <3> QED BY <3>1, <3>2 DEF RouterIInv, AnsweredExactly
  <2>5. replies' = Cardinality({i \in RecordsIn(pos)' : sent'[i + 1] # Marker})
    <3> DEFINE answered == {i \in RecordsIn(pos) : sent[i + 1] # Marker}
    <3>1. {i \in RecordsIn(pos)' : sent'[i + 1] # Marker}
            = IF sent[pos + 1] = Marker THEN answered ELSE answered \cup {pos}
      BY <1>1, <2>1
    <3>2. Cardinality(answered \cup {pos}) = Cardinality(answered) + 1
      BY <2>3
    <3> QED BY <3>1, <3>2 DEF RouterIInv, AnsweredExactly
  <2>6. recordIndex' = Cardinality(RecordsIn(pos)')
    BY <1>1, <1>2, <2>1 DEF RouterIInv, AnsweredExactly
  <2> QED BY <1>2, <2>1, <2>4, <2>5, <2>6 DEF AnsweredExactly
<1> QED BY <1>4, <1>5, <1>6 DEF RouterIInv

LEMMA HandlerKeeps ==
  ASSUME RouterIInv, AnswerKeepalive \/ BufferAvailable \/ Serve
  PROVE  RouterIInv'
<1>1. sent \in Seq(Words) /\ pos \in Nat /\ Len(sent) \in Nat
  BY DEF RouterIInv, Typed
<1>2. pos < Len(sent) /\ sent[pos + 1] = Prefix /\ BodyWords(Prefix) \in Nat
  <2>1. ASSUME Arrived(1) \/ Arrived(2) PROVE pos < Len(sent)
    BY <1>1, <2>1 DEF Arrived
  <2>2. pos < Len(sent)
    BY <2>1 DEF AnswerKeepalive, BufferAvailable, Serve, FrameRead
  <2>3. Prefix \in Words
    BY <1>1, <2>2 DEF Prefix
  <2> QED BY <2>2, <2>3, RecordSizes DEF Prefix
<1>3. CASE AnswerKeepalive
  <2>1. Past(sent, pos) = pos + 1 /\ Prefix = Keepalive
    BY <1>2, <1>3 DEF AnswerKeepalive, Past, RecordWords
  <2> QED BY <1>1, <1>2, <1>3, <2>1, ConsumeKeeps
          DEF AnswerKeepalive, Arrived, Consumed, ControlAt, Keepalive, Marker
<1>4. CASE BufferAvailable
  <2>1. Past(sent, pos) = pos + 2 /\ Prefix = Marker
    BY <1>2, <1>4 DEF BufferAvailable, Past, RecordWords, Keepalive, Marker
  <2> QED BY <1>1, <1>2, <1>4, <2>1, ConsumeKeeps
          DEF BufferAvailable, Arrived, Consumed, BufferWords, BufferReplies, ControlAt
<1>5. CASE Serve
  <2>1. Past(sent, pos) = pos + (1 + BodyWords(Prefix)) /\ Prefix \notin {Keepalive, Marker}
    BY <1>2, <1>5 DEF Serve, FrameRead, Past, RecordWords
  <2>2. Past(sent, pos) <= Len(sent)
    BY <1>1, <1>2, <1>5, <2>1 DEF Serve, FrameRead, Arrived
  <2> QED BY <1>1, <1>2, <1>5, <2>1, <2>2, ConsumeKeeps
          DEF Serve, FrameRead, Consumed, ControlAt
<1> QED BY <1>3, <1>4, <1>5

LEMMA LimitKeeps ==
  ASSUME RouterIInv, RecordLimit
  PROVE  RouterIInv'
<1>1. stage = "auth" /\ served = 0 => controlCount >= MaxRecords
  <2>1. recordIndex = MaxRecords /\ controlCount \in Nat /\ MaxRecords \in Nat
    BY RouterAssumption DEF RecordLimit, LimitReached, RouterIInv, Typed
  <2> QED BY <2>1, NotBeyondFrame
<1> QED BY <1>1, EndKeeps DEF RecordLimit

LEMMA SilenceKeeps ==
  ASSUME RouterIInv, EndOfStream \/ Deadline
  PROVE  RouterIInv'
<1>1. ~ (stage = "auth" /\ served = 0)
  <2>1. Routing => stage # "auth"
    BY DEF Routing
  <2>2. stage = "auth" /\ served = 0 => ~ReaderBlocked /\ pos < Buffered
    BY NotBeyondFrame
  <2>3. ASSUME stage = "auth", served = 0 PROVE ~ (pos >= Buffered)
    <3>1. offset + 1 + BodyWords(Size) \in Nat
      <4>1. /\ offset \in starts /\ offset < Len(sent)
            /\ Past(sent, offset) = offset + 1 + BodyWords(Size)
        BY <2>3, PickedFrame DEF RouterIInv
      <4>2. sent \in Seq(Words) /\ offset \in 0..Len(sent)
        BY <4>1, StartsInStream DEF RouterIInv, Typed, starts
      <4> QED BY <4>1, <4>2, PastLater
    <3> QED BY <2>2, <2>3, <3>1 DEF Buffered, RouterIInv, Typed
  <2> QED BY <2>1, <2>2, <2>3 DEF EndOfStream, Deadline, Blocked
<1>2. /\ UNCHANGED <<input, routing, reading>>
      /\ Ends("eof") \/ Ends("timeout")
  BY DEF EndOfStream, Deadline
<1> QED BY <1>1, <1>2, EndKeeps

LEMMA RouterStepIInv ==
  RouterIInv /\ [RouterNext]_routerVars => RouterIInv'
<1> SUFFICES ASSUME RouterIInv, [RouterNext]_routerVars PROVE RouterIInv'
  OBVIOUS
<1>1. CASE Close
  BY <1>1, CloseKeeps
<1>2. ASSUME NEW w \in Words, Send(w) PROVE RouterIInv'
  BY <1>2, SendKeeps
<1>3. CASE SkipControl
  BY <1>3, SkipKeeps
<1>4. CASE SizeRefused \/ EncryptedRefused
  <2>1. stage # "auth"
    BY <1>4 DEF SizeRefused, EncryptedRefused, Routing
  <2> QED BY <1>4, <2>1, EndKeeps DEF SizeRefused, EncryptedRefused
<1>5. CASE Route
  BY <1>5, RouteKeeps
<1>6. CASE RecordLimit
  BY <1>6, LimitKeeps
<1>7. CASE AnswerKeepalive \/ BufferAvailable \/ Serve
  BY <1>7, HandlerKeeps
<1>8. CASE FrameRefused \/ FrameTooLarge \/ WriteFails \/ ShutDown
  BY <1>8, EndKeeps DEF FrameRefused, FrameTooLarge, WriteFails, ShutDown
<1>9. CASE EndOfStream \/ Deadline
  BY <1>9, SilenceKeeps
<1>10. CASE UNCHANGED routerVars
  <2>1. UNCHANGED <<sent, stage, outcome, routing, reading>>
    BY <1>10 DEF routerVars, input
  <2>2. Typed' /\ RouterReads' /\ Picked' /\ AnsweredExactly'
    BY <2>1, ReadingKept DEF RouterIInv, Typed, RouterReads, Routing
  <2>3. RequestReached'
    BY <2>1 DEF RouterIInv, RequestReached, routing, reading
  <2> QED BY <2>2, <2>3 DEF RouterIInv
<1> QED BY <1>1, <1>2, <1>3, <1>4, <1>5, <1>6, <1>7, <1>8, <1>9, <1>10 DEF RouterNext

-----------------------------------------------------------------------------
LEMMA Inductive == RouterSpec => []RouterIInv
<1>1. RouterInit => RouterIInv
  BY RouterInitIInv
<1>2. RouterIInv /\ [RouterNext]_routerVars => RouterIInv'
  BY RouterStepIInv
<1> QED BY <1>1, <1>2, PTL DEF RouterSpec

\* For every stream of whole words and every pair of limits, the frame by which
\* the router picks a service is the first one that service will read, whole, and
\* behind no more control records than the router allows: what HandleTCP of
\* backend/router.go peeked at is what ReadTransportRecord returns.
THEOREM FrameRouted == RouterSpec => []RoutedAsRead
<1>1. RouterIInv => RoutedAsRead
  BY ImpliesRoutedAsRead
<1> QED BY <1>1, Inductive, PTL

\* For every stream of whole words, the handler's loop stays on record boundaries
\* and writes one frame for each keepalive and each request, none for a buffer
\* record.
THEOREM RepliesExact == RouterSpec => []AnsweredExactly
<1>1. RouterIInv => AnsweredExactly
  BY DEF RouterIInv
<1> QED BY <1>1, Inductive, PTL

\* For every stream of whole words and every pair of limits, the request by which
\* a connection came to the authentication handler is answered or refused, unless
\* the server shuts down or a write fails before, and it is passed over only for
\* the handler's own limit on records.
THEOREM FirstRequestRead == RouterSpec => []RequestReached
<1>1. RouterIInv => RequestReached
  BY DEF RouterIInv
<1> QED BY <1>1, Inductive, PTL
==============================================================================
