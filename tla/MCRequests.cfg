SPECIFICATION RequestSpec
CONSTANTS
  MaxHost = 90
  MaxText = 31
  MaxFind = 50
  MaxMessage = 4
  MaxEventBlob = 2
  Title <- MCTitle
  UsernameSize = 3
  PasswordSize = 2
  AuthBlobSize = 2
  StunSource <- MCStunSource
  Requests <- MCRequests
  Outcomes <- MCOutcomes
  Transaction <- MCTransaction
  MaxAlterations = 1
INVARIANTS
  Understood
  OnlyCanonical
CHECK_DEADLOCK FALSE
