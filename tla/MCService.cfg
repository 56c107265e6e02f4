CONSTANTS
  Ids = {p1}
  Callers = {c1}
  Commands <- AllCommands
  Profiles <- MixedProfiles
  MaxOutput = 1
  MaxRetries = 1
SPECIFICATION Spec
INVARIANTS
  TypeOK
  LifecycleInv
  AnnouncedOnce
  KilledIsTold
  OutcomeIsTrue
  RunningIsListed
  ShutdownLeavesNone
PROPERTIES
  OutputIsFramed
  ContractSpec
