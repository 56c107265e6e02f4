CONSTANTS
  Clients = {c1, c2}
  QueueSize = 1
  SendSize = 1
  MaxMessages = 3
SPECIFICATION FairSpec
INVARIANTS
  TypeOK
  NoSendOnClosed
  GapIsDoomed
PROPERTIES
  PumpsEnd
CHECK_DEADLOCK FALSE
