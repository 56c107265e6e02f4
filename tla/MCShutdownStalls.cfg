CONSTANTS
  Ids = {p1}
  Parents = {}
  Senders = {s1}
  Callers = {}
  None = None
  Capacity = 1
  Payload = 2
SPECIFICATION FairSpec
PROPERTY ShutdownReturns
CHECK_DEADLOCK FALSE
