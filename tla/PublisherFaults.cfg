SPECIFICATION Spec
CONSTANTS
  y = y
  b2 = b2
  x = x
  b1 = b1
  i1 = i1
  Ids = {i1}
  Branches = {b1}
  Bodies = {x, wild, lost, bad}
  ClassOf <- MixedBodies
  ScanLimit = 100
  Budget <- FaultBudget
  wild = wild
  lost = lost
  bad = bad
CHECK_DEADLOCK FALSE
INVARIANTS
  TypeOK
  SuccessIsBacked
  SuccessesAgree
PROPERTIES
  AnsweredNeverPublishes
  ImplementsContract
