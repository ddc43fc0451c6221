SPECIFICATION FairSpec
CONSTANTS
  cpu0 = cpu0
  cpu1 = cpu1
  ssh = ssh
  other = other
  Cgroup <- MCCgroup
  TagCgroup = ssh
  NoCgroup = none
  Tier = 3
  CPU <- MCOneCPU
  Ttl = 0
  LatMax = 1
  MaxTime = 1
  MaxOpens = 1
PROPERTIES
  SigintDumps
CHECK_DEADLOCK FALSE
