SPECIFICATION Spec
CONSTANTS
  a = a
  b = b
  Pid1 = pid1
  Shell = shell
  Pid <- MCPid
  RootCg = root
  SessionCg = session
  Cgroup <- MCCgroup
  MaxEntries = 1
  NoRec = NoRec
SYMMETRY MCSymmetry
INVARIANTS
  TypeOK
  SessionKeepsTag
  DelegatedHasNone
  BatsTable
  RecordSound
