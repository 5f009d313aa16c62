SPECIFICATION RoundSpec
CONSTANTS
  a = a
  b = b
  c = c
  d = d
  e = e
  n1 = n1
  n2 = n2
  BlockMs = 2
  NoEvent = NoEvent
  EventID <- MCEventID
  Creator <- MCCreator
  Headers <- MCHeaders
INVARIANT RoundNotBelowParents
CHECK_DEADLOCK FALSE
