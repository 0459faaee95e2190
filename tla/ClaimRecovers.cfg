SPECIFICATION RecoverySpec
CONSTANTS
  s1 = s1
  s2 = s2
  t1 = t1
  t2 = t2
  b1 = b1
  b2 = b2
  w = w
  Sessions = {s1, s2}
  Tasks = {t1}
  Branches = {b1}
  BranchTask <- OwnBranches
  Heads = {1, 2}
  FirstHead = 1
  DependsOn <- Independent
  Horizon = 1
  LastExpiry = 2
  Anonymous = Anonymous
  Reliable = TRUE
CHECK_DEADLOCK FALSE

PROPERTIES
  ExpiredIsRenewed
