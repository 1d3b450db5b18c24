SPECIFICATION Spec
CONSTANTS
  s1 = s1
  s2 = s2
  s3 = s3
  s4 = s4
  u1 = u1
  u2 = u2
  p1 = p1
  p2 = p2
  Seeds = {s1, s2, s3, s4}
  Users = {u1, u2}
  Peers = {p1, p2}
  Instants <- MCInstants
  MaxSessions = 3
  MaxSessionsPerAccount = 2
  MaxToken = 6
  NoTicket = NoTicket
SYMMETRY Symmetric
INVARIANTS
  TypeOK
  CountsMatch
  WithinLimits
  LimitsCountLiveOnly
PROPERTY GenerationsOnlyGrow
CHECK_DEADLOCK FALSE
