SPECIFICATION FairSpec
CONSTANTS
  WithApt = TRUE
  Prompt = TRUE
  MaxTries = 1
  MaxMishaps = 1
INVARIANTS
  TypeOK
  VerdictSound
  DenyReplacementSeen
  NoWatcherLeft
PROPERTIES
  RemovedUnlessAsleep
CHECK_DEADLOCK FALSE
