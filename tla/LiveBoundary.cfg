SPECIFICATION Spec
CONSTANTS
  Requests <- AllRequests
  Answers <- AllAnswers
  Moves = 2
  Reruns = 1
CHECK_DEADLOCK FALSE
INVARIANTS
  LiveOK
  CredentialAfterChecks
  AttemptsAreCalls
  NoCallAfterAnswer
  AcceptedIsGrounded
PROPERTIES
  ImplementsContract
  EveryRunEnds
