SPECIFICATION Spec
CONSTANTS
  MaxEnables = 3
  MaxEdits = 2
  MaxTorn = 1
INVARIANTS
  StackIsWhole
  TwoDisablesClean
