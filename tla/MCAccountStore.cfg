SPECIFICATION Spec
CONSTANTS
  ann = ann
  ANN = ANN
  bob = bob
  cid = cid
  hann = hann
  hbob = hbob
  hcid = hcid
  Names = {ann, ANN, bob, cid}
  Passwords = {p1, p2}
  Hashes = {hann, hbob, hcid}
  BOZAccountHash <- MCBOZAccountHash
  Sources = {s1, s2}
  MaxAccounts = 3
  MaxAccountsPerSource = 2
  MaxReadable = 3
  MaxUserID = 4
  MaxLanding = 3
  NoAccount = NoAccount
INVARIANTS
  TypeOK
  AcknowledgedSurvive
  Recoverable
  MapsAgree
  FileAhead
CHECK_DEADLOCK FALSE
