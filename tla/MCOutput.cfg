CONSTANTS
  Size = 3
  Zero = Zero
  Streams = {"stdout", "stderr"}
  PipeSize = 1
  MaxLine = 3
  MaxBytes = 5
SPECIFICATION FairSpec
INVARIANTS
  TypeOK
  NothingLost
PROPERTIES
  KeepsTheTail
  StuckOnlyBehindLongLine
CHECK_DEADLOCK FALSE
