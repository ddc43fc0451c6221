SPECIFICATION Spec
CONSTANTS
  Tier = {"a", "b", "c", "d"}
  Workload = {w1}
  PASSES = 2
  MaxTries = 2
  FreshOut = TRUE
INVARIANTS
  WorkUnderRightGate
  AllReported
  StopIsHeard
  NoGateLeft
CHECK_DEADLOCK FALSE
