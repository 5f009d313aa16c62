SPECIFICATION RoundSpec
CONSTANTS
  a = a
  b = b
  c = c
  d = d
  e = e
  n1 = n1
  n2 = n2
  BlockMs = 2
  NoEvent = NoEvent
  EventID <- MCEventID
  Creator <- MCCreator
  Headers <- MCHeaders
INVARIANTS RoundTypeOK RoundsContiguous RoundSupported EveryRoundHasRoot
  WitnessLostOnlyToPass RootLostOnlyToStore LastRoundIsGreatest
PROPERTY StoreIsWriteOnce
CHECK_DEADLOCK FALSE
