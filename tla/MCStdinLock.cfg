CONSTANTS
  Ids = {p1, p2}
  Parents = {p1}
  Senders = {s1}
  Callers = {c1}
  None = None
  Capacity = 1
  Payload = 1
SPECIFICATION FairSpec
INVARIANTS
  TypeOK
  NoWriteAfterClose
  NoLockLeaked
PROPERTIES
  StallsOnlyOnInput
  DeathIsRecorded
