-------------------------------- MODULE Network --------------------------------
(***************************************************************************)
(* The NetworkManager of network.go: the peer map and its statistics, kept *)
(* by two callbacks of libp2p and by the ticker goroutines, and the        *)
(* normal-priority message queue between GossipEvent and the goroutine     *)
(* that forwards messages to the peers.                                    *)
(*                                                                         *)
(* libp2p is external.  A peer may have several connections at once.  Each *)
(* connection is announced once and its end is announced once, in that     *)
(* order and each in its own time; the announcements of different          *)
(* connections may come in any order.  Every handler and every ticker body *)
(* runs under nm.mu and is one step.                                       *)
(*                                                                         *)
(* Nothing sends to the high- and low-priority queues, and nothing changes *)
(* a peer's stake, validator flag, latency or quality.                     *)
(***************************************************************************)
EXTENDS Integers, Sequences, FiniteSets, GoMap

CONSTANTS Peer,       \* peer IDs
          Slot,       \* connections that may exist, <<peer, number>>
          Accepts,    \* the peers that accept the event protocol
          Gossip,     \* events handed to GossipEvent, once each
          QueueCap,   \* capacity of normalPriority
          MaxOpens    \* bound: connections ever opened

ASSUME PeerAssumption == IsFiniteSet(Peer)
ASSUME SlotAssumption == Slot \subseteq Peer \X Nat
ASSUME NetAssumption == QueueCap \in Nat /\ MaxOpens \in Nat

VARIABLES conn,         \* state of each connection, see ConnState
          peers,        \* nm.peers: peer ID -> PeerInfo
          totalPeers,   \* stats.TotalPeers
          activePeers,  \* stats.ActivePeers
          queue,        \* messageQueue.normalPriority
          unsent,       \* events not yet handed to GossipEvent
          sending,      \* sendEventToPeer goroutines, <<event, peer>>
          stage,        \* "running", "cancelled", "closed": progress of Stop
          looping,      \* processMessageQueue has not returned
          opens         \* connections opened so far

netVars == <<conn, peers, totalPeers, activePeers, queue, unsent, sending,
             stage, looping, opens>>

(* opened: announced to us next; up: announced; closing: ended before it   *)
(* was announced; down: its end is announced next.                         *)
ConnState == {"none", "opened", "up", "closing", "down"}

(* How long ago LastSeen is: less than 5 minutes, or more. *)
Age == {"recent", "old"}

(* The peers in the map. *)
Known == DOMAIN peers

BaseScore == 100
MinScore == 10
NormalScore == 30
MaxScore == 1000

(* A PeerInfo as handlePeerConnected makes it. *)
NewPeerInfo == [age |-> "recent", score |-> BaseScore]

NetInit == /\ conn = [s \in Slot |-> "none"]
           /\ peers = <<>>
           /\ totalPeers = 0
           /\ activePeers = 0
           /\ queue = <<>>
           /\ unsent = Gossip
           /\ sending = {}
           /\ stage = "running"
           /\ looping = TRUE
           /\ opens = 0

-----------------------------------------------------------------------------
(* libp2p: connections begin and end. *)
Ended(c) == CASE c = "opened" -> "closing"
              [] c = "up"     -> "down"
              [] OTHER        -> c

Open(s) ==
    /\ stage # "closed"
    /\ opens < MaxOpens
    /\ conn[s] = "none"
    /\ conn' = [conn EXCEPT ![s] = "opened"]
    /\ opens' = opens + 1
    /\ UNCHANGED <<peers, totalPeers, activePeers, queue, unsent, sending, stage, looping>>

Close(s) ==
    /\ conn[s] \in {"opened", "up"}
    /\ conn' = [conn EXCEPT ![s] = Ended(@)]
    /\ UNCHANGED <<peers, totalPeers, activePeers, queue, unsent, sending, stage, looping, opens>>

(* handlePeerConnected: a new entry, also for a peer that has one. *)
HandleConnected(s) ==
    LET p == s[1] IN
    /\ conn[s] \in {"opened", "closing"}
    /\ conn' = [conn EXCEPT ![s] = IF @ = "opened" THEN "up" ELSE "down"]
    /\ peers' = Put(peers, p, NewPeerInfo)
    /\ totalPeers' = Cardinality(DOMAIN peers')
    /\ activePeers' = activePeers + 1
    /\ UNCHANGED <<queue, unsent, sending, stage, looping, opens>>

(* Mutant: keep the entry of a peer that was refreshed lately. *)
HandleDisconnectedUnlessRecent(s) ==
    LET p == s[1] IN
    /\ conn[s] = "down"
    /\ conn' = [conn EXCEPT ![s] = "none"]
    /\ IF p \in Known /\ peers[p].age = "old"
       THEN /\ peers' = Delete(peers, {p})
            /\ totalPeers' = Cardinality(DOMAIN peers')
            /\ activePeers' = activePeers - 1
       ELSE UNCHANGED <<peers, totalPeers, activePeers>>
    /\ UNCHANGED <<queue, unsent, sending, stage, looping, opens>>

(* handlePeerDisconnected: the entry goes with the first connection of the *)
(* peer that ends, and an unknown peer is not counted.                     *)
HandleDisconnected(s) ==
    LET p == s[1] IN
    /\ conn[s] = "down"
    /\ conn' = [conn EXCEPT ![s] = "none"]
    /\ IF p \in Known
       THEN /\ peers' = Delete(peers, {p})
            /\ totalPeers' = Cardinality(DOMAIN peers')
            /\ activePeers' = activePeers - 1
       ELSE UNCHANGED <<peers, totalPeers, activePeers>>
    /\ UNCHANGED <<queue, unsent, sending, stage, looping, opens>>

-----------------------------------------------------------------------------
(* The ticker goroutines; all of them leave when the context is cancelled. *)

(* Time passes for an entry that nothing refreshes. *)
GrowOld(p) ==
    /\ p \in Known
    /\ peers[p].age = "recent"
    /\ peers' = [peers EXCEPT ![p].age = "old"]
    /\ UNCHANGED <<conn, totalPeers, activePeers, queue, unsent, sending, stage, looping, opens>>

(* Mutant: a peer not seen for a day loses points instead of gaining none, *)
(* and nothing clamps a score from below.                                  *)
CalculatePeerScorePenalising(withinDay) ==
    LET score == BaseScore + (IF withinDay THEN 50 ELSE -200) + 50 + 30
    IN  IF score > MaxScore THEN MaxScore ELSE score

(* calculatePeerScore with the fields that vary: base 100, 50 when seen    *)
(* within a day, 50 for the quality and 30 for the latency, clamped above. *)
CalculatePeerScore(withinDay) ==
    LET score == BaseScore + (IF withinDay THEN 50 ELSE 0) + 50 + 30
    IN  IF score > MaxScore THEN MaxScore ELSE score

UpdatePeerScores ==
    /\ stage = "running"
    /\ \E dayOld \in SUBSET {p \in Known : peers[p].age = "old"} :
          peers' = [p \in Known |->
                       [peers[p] EXCEPT !.score = CalculatePeerScore(p \notin dayOld)]]
    /\ UNCHANGED <<conn, totalPeers, activePeers, queue, unsent, sending, stage, looping, opens>>

(* Mutant: the score alone decides. *)
PoorByScore == {p \in Known : peers[p].score < MinScore}

(* The peers cleanupPoorConnections throws out. *)
Poor == {p \in Known : peers[p].score < MinScore \/ peers[p].age = "old"}

(* Mutant: count the peers off here and leave their entries to the         *)
(* disconnect handler.                                                     *)
CleanupCountingOff ==
    /\ stage = "running"
    /\ Poor # {}
    /\ conn' = [s \in Slot |-> IF s[1] \in Poor THEN Ended(conn[s]) ELSE conn[s]]
    /\ activePeers' = activePeers - Cardinality(Poor)
    /\ UNCHANGED <<peers, totalPeers, queue, unsent, sending, stage, looping, opens>>

(* cleanupPoorConnections: the entries go, ClosePeer ends the connections; *)
(* the statistics are left alone.                                          *)
CleanupPoorConnections ==
    /\ stage = "running"
    /\ Poor # {}
    /\ peers' = Delete(peers, Poor)
    /\ conn' = [s \in Slot |-> IF s[1] \in Poor THEN Ended(conn[s]) ELSE conn[s]]
    /\ UNCHANGED <<totalPeers, activePeers, queue, unsent, sending, stage, looping, opens>>

-----------------------------------------------------------------------------
(* GossipEvent: a full queue refuses the message, which the engine ignores. *)
GossipEvent(e) ==
    /\ e \in unsent
    /\ unsent' = unsent \ {e}
    /\ queue' = IF Len(queue) < QueueCap THEN Append(queue, e) ELSE queue
    /\ UNCHANGED <<conn, peers, totalPeers, activePeers, sending, stage, looping, opens>>

(* Mutant: wait for a peer before taking a message. *)
ProcessMessageToSomebody ==
    /\ looping
    /\ queue # <<>>
    /\ Known # {}
    /\ queue' = Tail(queue)
    /\ sending' = sending \cup {<<Head(queue), p>> : p \in {x \in Known : peers[x].score > NormalScore}}
    /\ UNCHANGED <<conn, peers, totalPeers, activePeers, unsent, stage, looping, opens>>

(* processMessageQueue, one message: a goroutine per peer above the score. *)
ProcessMessage ==
    /\ looping
    /\ queue # <<>>
    /\ queue' = Tail(queue)
    /\ sending' = sending \cup {<<Head(queue), p>> : p \in {x \in Known : peers[x].score > NormalScore}}
    /\ UNCHANGED <<conn, peers, totalPeers, activePeers, unsent, stage, looping, opens>>

(* sendEventToPeer.  The stream is refused by a peer that does not accept  *)
(* the protocol; a message sent refreshes the entry the peer has by then,  *)
(* if it has one, also after the connection has ended.                     *)
SendEventToPeer(e, p) ==
    /\ <<e, p>> \in sending
    /\ sending' = sending \ {<<e, p>>}
    /\ \/ UNCHANGED peers
       \/ /\ p \in Accepts \cap Known
          /\ peers' = [peers EXCEPT ![p].age = "recent"]
    /\ UNCHANGED <<conn, totalPeers, activePeers, queue, unsent, stage, looping, opens>>

-----------------------------------------------------------------------------
(* Stop: cancel the context, then close the host with all connections. *)
Stop ==
    /\ \/ /\ stage = "running"
          /\ stage' = "cancelled"
          /\ UNCHANGED conn
       \/ /\ stage = "cancelled"
          /\ stage' = "closed"
          /\ conn' = [s \in Slot |-> Ended(conn[s])]
    /\ UNCHANGED <<peers, totalPeers, activePeers, queue, unsent, sending, looping, opens>>

(* processMessageQueue sees ctx.Done; messages may be left in the queue.   *)
LeaveLoop ==
    /\ looping
    /\ stage # "running"
    /\ looping' = FALSE
    /\ UNCHANGED <<conn, peers, totalPeers, activePeers, queue, unsent, sending, stage, opens>>

NetNext == \/ \E s \in Slot : Open(s) \/ Close(s) \/ HandleConnected(s) \/ HandleDisconnected(s)
           \/ \E p \in Peer : GrowOld(p)
           \/ UpdatePeerScores
           \/ CleanupPoorConnections
           \/ \E e \in Gossip : GossipEvent(e)
           \/ ProcessMessage
           \/ \E e \in Gossip, p \in Peer : SendEventToPeer(e, p)
           \/ Stop
           \/ LeaveLoop

NetSpec == NetInit /\ [][NetNext]_netVars

(* Time passes, tickers fire, the queue's goroutine runs and libp2p makes  *)
(* its announcements.  Connecting, gossiping and stopping are up to        *)
(* others.                                                                 *)
NetFairSpec == /\ NetSpec
               /\ \A s \in Slot : WF_netVars(HandleConnected(s)) /\ WF_netVars(HandleDisconnected(s))
               /\ \A p \in Peer : WF_netVars(GrowOld(p))
               /\ WF_netVars(CleanupPoorConnections)
               /\ WF_netVars(ProcessMessage)

-----------------------------------------------------------------------------
(* Types: a score lies between 0 and maxScore, the message queue within    *)
(* its capacity, TotalPeers is never negative.                             *)
NetTypeOK ==
    /\ conn \in [Slot -> ConnState]
    /\ Known \subseteq Peer
    /\ peers \in [Known -> [age : Age, score : 0..MaxScore]]
    /\ totalPeers \in Nat
    /\ activePeers \in Int
    /\ queue \in Seq(Gossip) /\ Len(queue) <= QueueCap
    /\ unsent \in SUBSET Gossip
    /\ sending \in SUBSET (Gossip \X Peer)
    /\ stage \in {"running", "cancelled", "closed"}
    /\ looping \in BOOLEAN
    /\ opens \in 0..MaxOpens

(* The peer counters never fall below the number of peers in the map, in   *)
(* whatever order connections of one peer are announced, ended and thrown  *)
(* out: a second connection and a cleanup make them too high, nothing makes *)
(* them too low (network.go:541, network.go:562, network.go:500-507).      *)
CountsCoverPeers == /\ activePeers >= Cardinality(Known)
                    /\ totalPeers >= Cardinality(Known)

(* No ghosts: a peer in the map has a connection that was announced and    *)
(* whose end has not been handled, although entries are replaced and thrown *)
(* out while announcements are under way (network.go:537, network.go:558). *)
NoGhostPeers == \A p \in Known : \E s \in Slot : s[1] = p /\ conn[s] \in {"up", "down"}

(* A queued message is taken out, unless the network is stopped            *)
(* (network.go:338).                                                       *)
QueuedIsTaken ==
    \A e \in Gossip : (\E i \in DOMAIN queue : queue[i] = e)
        ~> (\A i \in DOMAIN queue : queue[i] # e) \/ stage # "running"

(* A peer that does not accept the event protocol is forgotten again: only *)
(* a message sent to it would refresh LastSeen (network.go:505,            *)
(* network.go:612).  No program of this repository registers a handler for *)
(* the protocol, so this is the fate of every peer.                        *)
SilentPeerForgotten ==
    \A p \in Peer \ Accepts : p \in Known ~> p \notin Known \/ stage # "running"

=============================================================================
