SPECIFICATION ReadersSpec
CONSTANTS
  core = core
  full = full
  t1 = t1
  t2 = t2
  Runs = {1, 2}
  ShaOf <- OneCommit
  Gates = {core, full}
  Steps = 2
  Tasks = {t1, t2}
  Edits = 2
  MilestoneOf <- OwnMilestones
  Task = t1
  Offers <- SmallOffers
SYMMETRY Symmetry
CHECK_DEADLOCK FALSE
INVARIANTS
  TypeOK
  KnownWasGreen
  RedIsNotKnown
  NewestGreenIsFound
  GatesAreIndependent
  BootstrapIsASnapshot
  CheckpointsKeepTheirGate
  PackIsASnapshot
  BudgetsHold
  OptionalNeverDisplaces
  NothingFittingIsOmitted
