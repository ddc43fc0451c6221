SPECIFICATION FairSpec
CONSTANTS
  LSM = {"yama", "apparmor", "bpf"}
  Default = {"yama", "apparmor"}
  MaxEdits = 1
  MaxMishaps = 1
INVARIANTS
  TypeOK
  OriginalKept
  DoneHolds
PROPERTIES
  AdviceConverges
