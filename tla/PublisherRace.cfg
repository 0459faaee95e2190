SPECIFICATION Spec
CONSTANTS
  y = y
  x = x
  b2 = b2
  b1 = b1
  i1 = i1
  Ids = {i1}
  Branches = {b1, b2}
  Bodies = {x, y}
  ClassOf <- AllGood
  ScanLimit = 100
  Budget <- RaceBudget
  wild = wild
  lost = lost
  bad = bad
SYMMETRY Symmetry
CHECK_DEADLOCK FALSE
INVARIANTS
  OneRequestPerId
  ReuseIsReal
