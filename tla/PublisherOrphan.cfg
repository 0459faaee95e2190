SPECIFICATION RerunSpec
CONSTANTS
  y = y
  b2 = b2
  x = x
  b1 = b1
  i1 = i1
  Ids = {i1}
  Branches = {b1}
  Bodies = {x}
  ClassOf <- AllGood
  ScanLimit = 100
  Budget <- OrphanBudget
  wild = wild
  lost = lost
  bad = bad
CHECK_DEADLOCK FALSE
PROPERTIES
  InstalledIsDispatched
