SPECIFICATION Spec
CONSTANTS
  s1 = s1
  s2 = s2
  t1 = t1
  t2 = t2
  b1 = b1
  b2 = b2
  w = w
  Sessions = {s1, s2}
  Tasks = {t1, t2}
  Branches = {b1, b2, w}
  BranchTask <- OwnBranches
  Heads = {1}
  FirstHead = 1
  DependsOn <- Chained
  Horizon = 1
  LastExpiry = 2
  Anonymous = Anonymous
  Reliable = FALSE
SYMMETRY Symmetry
CHECK_DEADLOCK FALSE
INVARIANTS
  TypeOK
  TablesAgree
  OneOwnerAtATime
  DependenciesHold
PROPERTIES
  ImplementsContract
