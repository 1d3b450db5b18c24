SPECIFICATION SeatedSpec
CONSTANTS
  c1 = c1
  c2 = c2
  c3 = c3
  u1 = u1
  u2 = u2
  p1 = p1
  s1 = s1
  s2 = s2
  i1 = i1
  i2 = i2
  Peers = {p1}
  PeerOf <- OnePeer
  Instants <- MCInstants
  NoConn = NoConn
  NoTicket = NoTicket
  NoMatch = NoMatch
  Conns = {c1, c2, c3}
  Services = {"messaging"}
  MaxPushes = 1
  MaxOrder = 1
  MaxControls = 1
  Users = {u1, u2}
  Seeds = {s1}
  MaxSessions = 1
  MaxSessionsPerAccount = 1
  MaxToken = 3
  SessionIDs = {i1}
  MaxMatches = 1
  MaxMatchesPerOwner = 1
INVARIANTS
  SupersededDoomed
CHECK_DEADLOCK FALSE
