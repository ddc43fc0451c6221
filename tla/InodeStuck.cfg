SPECIFICATION FairSpec
CONSTANTS
  WithApt = TRUE
  Prompt = TRUE
  MaxTries = 1
  MaxMishaps = 0
PROPERTY
  LabRemoved
CHECK_DEADLOCK FALSE
