SPECIFICATION Spec
CONSTANTS
  b2 = b2
  y = y
  x = x
  b1 = b1
  i1 = i1
  Ids = {i1}
  Branches = {b1}
  Bodies = {x, y}
  ClassOf <- AllGood
  ScanLimit = 100
  Budget <- PoisonBudget
  wild = wild
  lost = lost
  bad = bad
CHECK_DEADLOCK FALSE
INVARIANTS
  ReplayReturnsOriginal
