SPECIFICATION NetFairSpec
CONSTANTS
  p1 = p1
  p2 = p2
  e1 = e1
  e2 = e2
  Peer <- MCPeer
  Slot <- MCSlot
  Accepts <- MCAccepts
  Gossip <- MCGossip
  QueueCap = 1
  MaxOpens = 3
INVARIANTS NetTypeOK CountsCoverPeers NoGhostPeers
PROPERTIES QueuedIsTaken SilentPeerForgotten
CHECK_DEADLOCK FALSE
