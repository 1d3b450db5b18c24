SPECIFICATION Spec
CONSTANTS
  i1 = i1
  i2 = i2
  i3 = i3
  i4 = i4
  o1 = o1
  o2 = o2
  any = any
  k = k
  SessionIDs = {i1, i2, i3, i4}
  Owners = {o1, o2}
  Infos <- MCInfos
  MaxMatches = 3
  MaxMatchesPerOwner = 2
  MaxOrder = 5
  NoMatch = NoMatch
  Keys = {any, k}
  Values = {0, 1}
  Wildcard = any
  Word = 4
SYMMETRY Symmetric
INVARIANTS
  TypeOK
  CountsMatch
  WithinLimits
  FindExact
PROPERTIES
  RanksStable
CHECK_DEADLOCK FALSE
