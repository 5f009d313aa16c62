SPECIFICATION EngineSpec
CONSTANTS
  a = a
  b = b
  n1 = n1
  n2 = n2
  BlockMs = 2
  NoEvent = NoEvent
  MinVotes = 3
  MinVisibility = 3
  GenesisCreator = n1
  FameAttached = TRUE
  QueueCap = 2
  BlockCap = 1
  VoteRounds <- MCVoteRounds
  EventID <- MCEventID
  Creator <- MCCreator
  Headers <- MCHeaders
INVARIANT StopIsGraceful
CHECK_DEADLOCK FALSE
