SPECIFICATION Spec
CONSTANTS
  s1 = s1
  s2 = s2
  MaxHost = 255
  MaxText = 31
  MaxFind = 50
  MaxMessage = 4096
  MaxEventBlob = 65536
  Kinds = {"update", "find", "message"}
  Senders = {s1, s2}
  NameSizes = {21, 64}
  HostSizes = {80}
  MessageSizes = {132}
  MaxPage = 1
  MaxRecords = 3
  MaxPushes = 2
SYMMETRY Symmetry
INVARIANTS
  FramesWhole
  RepliesInOrder
CHECK_DEADLOCK FALSE
