SPECIFICATION Spec
CONSTANTS
  c1 = c1
  c2 = c2
  c3 = c3
  u1 = u1
  u2 = u2
  p1 = p1
  s1 = s1
  s2 = s2
  i1 = i1
  i2 = i2
  Peers = {p1}
  PeerOf <- OnePeer
  Instants <- MCInstants
  NoConn = NoConn
  NoTicket = NoTicket
  NoMatch = NoMatch
  Conns = {c1, c2}
  Services = {}
  MaxControls = 1
  MaxPushes = 0
  Users = {u1}
  Seeds = {s1, s2}
  MaxSessions = 2
  MaxSessionsPerAccount = 2
  MaxToken = 3
  SessionIDs = {i1}
  MaxMatches = 1
  MaxMatchesPerOwner = 1
  MaxOrder = 1
SYMMETRY Interchangeable
INVARIANTS
  TypeOK
  TicketSingleUse
  RegistrySound
PROPERTIES
  AdmissionRefined
CHECK_DEADLOCK FALSE
