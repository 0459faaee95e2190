SPECIFICATION Spec
CONSTANTS
  Requests <- Good
  Answers <- AllAnswers
  Moves = 0
  Reruns = 0
CHECK_DEADLOCK FALSE
INVARIANT
  EveryFailureIsReported
