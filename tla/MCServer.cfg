SPECIFICATION FairSpec
CONSTANTS
  c1 = c1
  c2 = c2
  c3 = c3
  c4 = c4
  a1 = a1
  a2 = a2
  Connections = {c1, c2, c3, c4}
  Sources = {a1, a2}
  SourceOf <- MCSourceOf
  NoSource = NoSource
  MaxTCPConnections = 2
  MaxTCPConnectionsPerSource = 1
INVARIANTS
  TypeOK
  CountsMatch
  
  ShutdownReachesAll
PROPERTIES
  AlwaysEnds
CHECK_DEADLOCK FALSE
