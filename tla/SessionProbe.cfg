SPECIFICATION Spec
CONSTANTS
  l1 = l1
  l2 = l2
  s1 = s1
  s2 = s2
  Login <- MCLogin
  Sid <- MCSid
  NoSid = NoSid
  NoScope = NoScope
  MaxPolls = 1
  MaxCollects = 2
SYMMETRY MCSymmetry
INVARIANTS
  PassRight
  NoFalseGap
  RowsKept
CHECK_DEADLOCK FALSE
