SPECIFICATION Spec
CONSTANTS
  Patterns <- MCPatterns
  RawLengths = {1, 8}
  MaxItems = 2
INVARIANTS
  ReadsBack
  StaysInStep
CHECK_DEADLOCK FALSE
