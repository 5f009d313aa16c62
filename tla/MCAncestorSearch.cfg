SPECIFICATION FairSpec
CONSTANTS
  a = a
  b = b
  c = c
  n1 = n1
  EventID <- MCEventID
  Creator <- MCCreator
  Headers <- MCHeaders
  Maps <- MCMaps
INVARIANTS AnswerCorrect
PROPERTY SearchTerminates
CHECK_DEADLOCK FALSE
