SPECIFICATION Spec
CONSTANTS
  MaxEnables = 2
  MaxEdits = 0
  MaxTorn = 0
PROPERTIES
  DisableRemovesAll
