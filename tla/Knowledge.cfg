SPECIFICATION KnowledgeSpec
CONSTANTS
  s1 = s1
  s2 = s2
  r1 = r1
  r2 = r2
  Keys <- SomeKeys
  LastMilestone = 6
  Landings = 3
  Sessions = {s1, s2}
  Corpora <- AllCorpora
  RequestIds = {r1, r2}
  Publications = 1
  Offers <- SomeOffers
  Artifacts <- SomeArtifacts
  HeadMoves = 1
CHECK_DEADLOCK FALSE
INVARIANTS
  TypeOK
  CompletedIsRecorded
  LedgerIsConsistent
  IdsStandForOneRequest
  PartitionsAreFewest
  FrontierIsCovered
  ArtifactsKeepHistory
PROPERTIES
  FreshMergesAreSafe
