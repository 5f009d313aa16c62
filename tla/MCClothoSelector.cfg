SPECIFICATION ClothoSpec
CONSTANTS
  a = a
  b = b
  c = c
  d = d
  n1 = n1
  n2 = n2
  n3 = n3
  BlockMs = 2
  NoEvent = NoEvent
  MinVotes = 3
  MinVisibility = 3
  GenesisCreator = n1
  FameAttached = TRUE
  VoteRounds <- MCVoteRounds
  EventID <- MCEventID
  Creator <- MCCreator
  Headers <- MCHeaders
INVARIANTS FameInert VotesUnanimous
CHECK_DEADLOCK FALSE
