CONSTANTS
  Ids = {p1}
  Callers = {c1}
  Commands <- AllCommands
  Profiles <- AttachedPlain
  MaxOutput = 0
  MaxRetries = 0
SPECIFICATION FairSpec
PROPERTY DoneFollowsExit
