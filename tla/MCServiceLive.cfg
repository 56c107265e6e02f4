CONSTANTS
  Ids = {p1}
  Callers = {c1}
  Commands = {"signal"}
  Profiles <- LiveProfiles
  MaxOutput = 0
  MaxRetries = 1
SPECIFICATION FairSpec
PROPERTIES
  EndIsAnnounced
  CancelEndsCommand
  TimeoutEndsCommand
  SignalEndsGroup
