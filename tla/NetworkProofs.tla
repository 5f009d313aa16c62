---------------------------- MODULE NetworkProofs ----------------------------
(***************************************************************************)
(* The peer map and its counters, for any peers, any number of connections *)
(* of each, and any order of their announcements.                          *)
(***************************************************************************)
EXTENDS Network, FiniteSetTheorems, TLAPS

(* The inductive invariant. *)
NetInv == NetTypeOK /\ CountsCoverPeers /\ NoGhostPeers

PeerInfo == [age : Age, score : 0..MaxScore]

(* The peer of a connection. *)
LEMMA SlotPeer ==
    ASSUME NEW s \in Slot
    PROVE  s[1] \in Peer
BY SlotAssumption

(* A map with an entry added. *)
LEMMA PutFacts ==
    ASSUME NEW f, NEW V, f \in [DOMAIN f -> V], NEW k, NEW v \in V
    PROVE  /\ DOMAIN Put(f, k, v) = DOMAIN f \cup {k}
           /\ Put(f, k, v) \in [DOMAIN Put(f, k, v) -> V]
BY DEF Put

(* A map with entries removed. *)
LEMMA DeleteFacts ==
    ASSUME NEW f, NEW V, f \in [DOMAIN f -> V], NEW K
    PROVE  /\ DOMAIN Delete(f, K) = DOMAIN f \ K
           /\ Delete(f, K) \in [DOMAIN Delete(f, K) -> V]
BY DEF Delete

(* The set of known peers is finite. *)
LEMMA KnownFinite ==
    ASSUME NetTypeOK
    PROVE  IsFiniteSet(Known) /\ Cardinality(Known) \in Nat
<1>1. IsFiniteSet(Known)
  BY PeerAssumption, FS_Subset DEF NetTypeOK
<1> QED BY <1>1, FS_CardinalityType

(* Removing peers from the map lowers their number. *)
LEMMA FewerKnown ==
    ASSUME NetTypeOK, NEW S \in SUBSET Known
    PROVE  Cardinality(S) \in Nat /\ Cardinality(S) <= Cardinality(Known)
BY KnownFinite, FS_Subset, FS_CardinalityType

LEMMA NetInitInv == NetInit => NetInv
<1> SUFFICES ASSUME NetInit PROVE NetInv
  OBVIOUS
<1>1. Known = {} /\ Cardinality(Known) = 0
  BY FS_EmptySet DEF NetInit, Known
<1>2. NetTypeOK
  BY <1>1, NetAssumption DEF NetInit, NetTypeOK, ConnState, Known
<1>3. CountsCoverPeers
  BY <1>1 DEF NetInit, CountsCoverPeers
<1>4. NoGhostPeers
  BY <1>1 DEF NoGhostPeers
<1> QED BY <1>2, <1>3, <1>4 DEF NetInv

(* The state of a connection that is up, or whose end is to be handled,    *)
(* stays so when the connection ends.                                      *)
LEMMA EndedFacts ==
    ASSUME NEW c \in ConnState
    PROVE  /\ Ended(c) \in ConnState
           /\ c \in {"up", "down"} => Ended(c) \in {"up", "down"}
BY DEF Ended, ConnState

(* A step that leaves the map, the counters and the connections alone. *)
LEMMA QuietStep ==
    ASSUME NetInv, NetTypeOK', UNCHANGED <<conn, totalPeers, activePeers>>,
           Known' = Known
    PROVE  NetInv'
<1>1. CountsCoverPeers'
  BY DEF NetInv, CountsCoverPeers
<1>2. NoGhostPeers'
  BY DEF NetInv, NoGhostPeers
<1> QED BY <1>1, <1>2 DEF NetInv

LEMMA OpenInv ==
    ASSUME NetInv, NEW s \in Slot, Open(s)
    PROVE  NetInv'
<1>1. NetTypeOK'
  BY NetAssumption DEF NetInv, NetTypeOK, Open, ConnState, Known
<1>2. CountsCoverPeers'
  BY DEF NetInv, CountsCoverPeers, Open, Known
<1>3. NoGhostPeers'
  BY DEF NetInv, NetTypeOK, NoGhostPeers, Open, Known
<1> QED BY <1>1, <1>2, <1>3 DEF NetInv

(* The connections of some slots end. *)
LEMMA EndingInv ==
    ASSUME NetInv, NEW S \in SUBSET Slot,
           conn' = [s \in Slot |-> IF s \in S THEN Ended(conn[s]) ELSE conn[s]]
    PROVE  /\ conn' \in [Slot -> ConnState]
           /\ Known' \subseteq Known => NoGhostPeers'
<1>1. conn' \in [Slot -> ConnState]
  BY EndedFacts DEF NetInv, NetTypeOK
<1>2. \A s \in Slot : conn[s] \in {"up", "down"} => conn'[s] \in {"up", "down"}
  BY EndedFacts DEF NetInv, NetTypeOK
<1>3. Known' \subseteq Known => NoGhostPeers'
  BY <1>2 DEF NetInv, NoGhostPeers
<1> QED BY <1>1, <1>3

LEMMA CloseInv ==
    ASSUME NetInv, NEW s \in Slot, Close(s)
    PROVE  NetInv'
<1>1. conn' = [t \in Slot |-> IF t \in {s} THEN Ended(conn[t]) ELSE conn[t]]
  BY DEF NetInv, NetTypeOK, Close
<1>2. Known' = Known
  BY DEF Close, Known
<1>3. conn' \in [Slot -> ConnState] /\ NoGhostPeers'
  BY <1>1, <1>2, EndingInv
<1>4. NetTypeOK'
  BY <1>2, <1>3 DEF NetInv, NetTypeOK, Close
<1>5. CountsCoverPeers'
  BY <1>2 DEF NetInv, CountsCoverPeers, Close
<1> QED BY <1>3, <1>4, <1>5 DEF NetInv

LEMMA ConnectedInv ==
    ASSUME NetInv, NEW s \in Slot, HandleConnected(s)
    PROVE  NetInv'
<1> DEFINE p == s[1]
<1>0. p \in Peer
  BY SlotPeer
<1>1. Known' = Known \cup {p} /\ peers' \in [Known' -> PeerInfo]
  <2>1. NewPeerInfo \in PeerInfo
    BY DEF NewPeerInfo, PeerInfo, Age, BaseScore, MaxScore
  <2>2. peers \in [DOMAIN peers -> PeerInfo] /\ peers' = Put(peers, p, NewPeerInfo)
    BY DEF NetInv, NetTypeOK, PeerInfo, Known, HandleConnected
  <2> QED BY <2>1, <2>2, PutFacts DEF Known
<1>2. /\ Cardinality(Known') \in Nat
      /\ Cardinality(Known') <= Cardinality(Known) + 1
      /\ Cardinality(Known) \in Nat
  <2>1. IsFiniteSet(Known) /\ Cardinality(Known) \in Nat
    BY KnownFinite DEF NetInv
  <2>2. Cardinality(Known \cup {p}) =
          IF p \in Known THEN Cardinality(Known) ELSE Cardinality(Known) + 1
    BY <2>1, FS_AddElement
  <2>3. Cardinality(Known') = Cardinality(Known \cup {p})
    BY <1>1
  <2> HIDE DEF p
  <2> QED BY <2>1, <2>2, <2>3
<1>3. totalPeers' = Cardinality(Known') /\ activePeers' = activePeers + 1
  BY DEF HandleConnected, Known
<1>4. conn' = [conn EXCEPT ![s] = IF @ = "opened" THEN "up" ELSE "down"]
  BY DEF HandleConnected
<1>5. conn' \in [Slot -> ConnState]
  BY <1>4 DEF NetInv, NetTypeOK, ConnState
<1>6. NetTypeOK'
  BY <1>0, <1>1, <1>2, <1>3, <1>5 DEF NetInv, NetTypeOK, HandleConnected, PeerInfo
<1>7. CountsCoverPeers'
  <2>1. activePeers \in Int /\ activePeers >= Cardinality(Known)
    BY DEF NetInv, NetTypeOK, CountsCoverPeers
  <2> QED BY <1>2, <1>3, <2>1 DEF CountsCoverPeers
<1>8. NoGhostPeers'
  <2>1. \A t \in Slot : conn[t] \in {"up", "down"} => conn'[t] \in {"up", "down"}
    BY <1>4 DEF NetInv, NetTypeOK
  <2>2. conn'[s] \in {"up", "down"}
    BY <1>4 DEF NetInv, NetTypeOK
  <2> QED BY <1>1, <2>1, <2>2 DEF NetInv, NoGhostPeers
<1> QED BY <1>6, <1>7, <1>8 DEF NetInv

LEMMA DisconnectedInv ==
    ASSUME NetInv, NEW s \in Slot, HandleDisconnected(s)
    PROVE  NetInv'
<1> DEFINE p == s[1]
<1>1. conn' = [conn EXCEPT ![s] = "none"] /\ conn' \in [Slot -> ConnState]
  BY DEF HandleDisconnected, NetInv, NetTypeOK, ConnState
<1>2. peers \in [DOMAIN peers -> PeerInfo]
  BY DEF NetInv, NetTypeOK, PeerInfo, Known
<1>3. CASE p \notin Known
  <2>1. Known' = Known /\ UNCHANGED <<peers, totalPeers, activePeers>>
    BY <1>3 DEF HandleDisconnected, Known
  <2>2. NetTypeOK'
    BY <1>1, <2>1 DEF NetInv, NetTypeOK, HandleDisconnected
  <2>3. CountsCoverPeers'
    BY <2>1 DEF NetInv, CountsCoverPeers
  <2>4. NoGhostPeers'
    BY <1>1, <1>3, <2>1 DEF NetInv, NetTypeOK, NoGhostPeers
  <2> QED BY <2>2, <2>3, <2>4 DEF NetInv
<1>4. CASE p \in Known
  <2>1. /\ peers' = Delete(peers, {p})
        /\ totalPeers' = Cardinality(DOMAIN peers')
        /\ activePeers' = activePeers - 1
    BY <1>4 DEF HandleDisconnected
  <2>2. Known' = Known \ {p} /\ peers' \in [Known' -> PeerInfo]
    BY <1>2, <2>1, DeleteFacts DEF Known
  <2>3. Cardinality(Known') = Cardinality(Known) - 1 /\ Cardinality(Known') \in Nat
        /\ Cardinality(Known) \in Nat
    <3>1. IsFiniteSet(Known) /\ Cardinality(Known) \in Nat
      BY KnownFinite DEF NetInv
    <3>2. Cardinality(Known') \in Nat
      BY <2>2, FewerKnown DEF NetInv
    <3>3. Cardinality(Known \ {p}) =
            IF p \in Known THEN Cardinality(Known) - 1 ELSE Cardinality(Known)
      BY <3>1, FS_RemoveElement
    <3>4. Cardinality(Known') = Cardinality(Known \ {p})
      BY <2>2
    <3> HIDE DEF p
    <3> QED BY <1>4, <3>1, <3>2, <3>3, <3>4
  <2>4. totalPeers' = Cardinality(Known')
    BY <2>1 DEF Known
  <2>5. NetTypeOK'
    <3>1. activePeers' \in Int /\ totalPeers' \in Nat
      BY <2>1, <2>3, <2>4 DEF NetInv, NetTypeOK
    <3>2. UNCHANGED <<queue, unsent, sending, stage, looping, opens>>
      BY DEF HandleDisconnected
    <3>3. Known' \subseteq Peer
      BY <2>2 DEF NetInv, NetTypeOK
    <3> QED BY <1>1, <2>2, <3>1, <3>2, <3>3 DEF NetInv, NetTypeOK, PeerInfo
  <2>6. CountsCoverPeers'
    <3>1. activePeers \in Int /\ activePeers >= Cardinality(Known)
      BY DEF NetInv, NetTypeOK, CountsCoverPeers
    <3> QED BY <2>1, <2>3, <2>4, <3>1 DEF CountsCoverPeers
  <2>7. NoGhostPeers'
    BY <1>1, <2>2 DEF NetInv, NetTypeOK, NoGhostPeers
  <2> QED BY <2>5, <2>6, <2>7 DEF NetInv
<1> QED BY <1>3, <1>4

LEMMA CleanupInv ==
    ASSUME NetInv, CleanupPoorConnections
    PROVE  NetInv'
<1>1. Poor \subseteq Known
  BY DEF Poor
<1>2. Known' = Known \ Poor /\ peers' \in [Known' -> PeerInfo]
  <2>1. peers \in [DOMAIN peers -> PeerInfo] /\ peers' = Delete(peers, Poor)
    BY DEF NetInv, NetTypeOK, PeerInfo, Known, CleanupPoorConnections
  <2> QED BY <2>1, DeleteFacts DEF Known
<1> DEFINE S == {s \in Slot : s[1] \in Poor}
<1>3. conn' = [s \in Slot |-> IF s \in S THEN Ended(conn[s]) ELSE conn[s]]
  BY DEF CleanupPoorConnections
<1>4. conn' \in [Slot -> ConnState] /\ NoGhostPeers'
  <2> HIDE DEF S
  <2>1. S \in SUBSET Slot
    BY DEF S
  <2> QED BY <1>2, <1>3, <2>1, EndingInv
<1>5. NetTypeOK'
  BY <1>2, <1>4 DEF NetInv, NetTypeOK, CleanupPoorConnections, PeerInfo
<1>6. CountsCoverPeers'
  <2>1. Cardinality(Known') \in Nat /\ Cardinality(Known') <= Cardinality(Known)
    BY <1>2, FewerKnown DEF NetInv
  <2>2. Cardinality(Known) \in Nat
    BY KnownFinite DEF NetInv
  <2>3. activePeers' = activePeers /\ totalPeers' = totalPeers
    BY DEF CleanupPoorConnections
  <2>4. activePeers \in Int /\ totalPeers \in Nat
    BY DEF NetInv, NetTypeOK
  <2> QED BY <2>1, <2>2, <2>3, <2>4 DEF NetInv, CountsCoverPeers
<1> QED BY <1>4, <1>5, <1>6 DEF NetInv

(* Time, scores and messages change neither the map's domain nor the       *)
(* connections.                                                            *)
LEMMA TickInv ==
    ASSUME NetInv, UpdatePeerScores \/ \E p \in Peer : GrowOld(p)
    PROVE  NetInv'
<1>1. CASE UpdatePeerScores
  <2>1. PICK D : peers' = [p \in Known |->
                     [peers[p] EXCEPT !.score = CalculatePeerScore(p \notin D)]]
    BY <1>1 DEF UpdatePeerScores
  <2>2. \A b \in BOOLEAN : CalculatePeerScore(b) \in 0..MaxScore
    BY DEF CalculatePeerScore, BaseScore, MaxScore
  <2>3. Known' = Known
    BY <2>1 DEF Known
  <2>4. peers' \in [Known -> PeerInfo]
    BY <2>1, <2>2 DEF NetInv, NetTypeOK, PeerInfo
  <2>5. NetTypeOK'
    BY <1>1, <2>3, <2>4 DEF NetInv, NetTypeOK, UpdatePeerScores, PeerInfo
  <2> QED BY <1>1, <2>3, <2>5, QuietStep DEF UpdatePeerScores
<1>2. ASSUME NEW p \in Peer, GrowOld(p) PROVE NetInv'
  <2>1. peers' = [peers EXCEPT ![p].age = "old"] /\ Known' = Known
    BY <1>2 DEF GrowOld, Known
  <2>2. peers' \in [Known -> PeerInfo]
    BY <2>1 DEF NetInv, NetTypeOK, PeerInfo, Age
  <2>3. NetTypeOK'
    BY <1>2, <2>1, <2>2 DEF NetInv, NetTypeOK, GrowOld, PeerInfo
  <2> QED BY <1>2, <2>1, <2>3, QuietStep DEF GrowOld
<1> QED BY <1>1, <1>2

LEMMA MessageInv ==
    ASSUME NetInv,
           \/ \E e \in Gossip : GossipEvent(e)
           \/ ProcessMessage
           \/ \E e \in Gossip, p \in Peer : SendEventToPeer(e, p)
    PROVE  NetInv'
<1>1. ASSUME NEW e \in Gossip, GossipEvent(e) PROVE NetInv'
  <2>1. queue' \in Seq(Gossip) /\ Len(queue') <= QueueCap
    BY <1>1, NetAssumption DEF NetInv, NetTypeOK, GossipEvent
  <2>2. Known' = Known
    BY <1>1 DEF GossipEvent, Known
  <2>3. NetTypeOK'
    BY <1>1, <2>1, <2>2 DEF NetInv, NetTypeOK, GossipEvent
  <2> QED BY <1>1, <2>2, <2>3, QuietStep DEF GossipEvent
<1>2. CASE ProcessMessage
  <2>1. /\ queue' \in Seq(Gossip) /\ Len(queue') <= QueueCap
        /\ Head(queue) \in Gossip
    BY <1>2, NetAssumption DEF NetInv, NetTypeOK, ProcessMessage
  <2>2. sending' \in SUBSET (Gossip \X Peer)
    BY <1>2, <2>1 DEF NetInv, NetTypeOK, ProcessMessage
  <2>3. Known' = Known
    BY <1>2 DEF ProcessMessage, Known
  <2>4. NetTypeOK'
    BY <1>2, <2>1, <2>2, <2>3 DEF NetInv, NetTypeOK, ProcessMessage
  <2> QED BY <1>2, <2>3, <2>4, QuietStep DEF ProcessMessage
<1>3. ASSUME NEW e \in Gossip, NEW p \in Peer, SendEventToPeer(e, p) PROVE NetInv'
  <2>1. Known' = Known /\ peers' \in [Known -> PeerInfo]
    <3>1. \A q \in Known : peers[q] \in PeerInfo
      BY DEF NetInv, NetTypeOK, PeerInfo
    <3>2. \A i \in PeerInfo : [i EXCEPT !.age = "recent"] \in PeerInfo
      BY DEF PeerInfo, Age
    <3> QED BY <1>3, <3>1, <3>2 DEF SendEventToPeer, NetInv, NetTypeOK, PeerInfo, Known
  <2>2. NetTypeOK'
    BY <1>3, <2>1 DEF NetInv, NetTypeOK, SendEventToPeer, PeerInfo
  <2> QED BY <1>3, <2>1, <2>2, QuietStep DEF SendEventToPeer
<1> QED BY <1>1, <1>2, <1>3

LEMMA StopInv ==
    ASSUME NetInv, Stop \/ LeaveLoop
    PROVE  NetInv'
<1>1. CASE Stop
  <2>1. Known' = Known /\ UNCHANGED <<totalPeers, activePeers>>
    BY <1>1 DEF Stop, Known
  <2>2. CASE UNCHANGED conn
    <3>1. NetTypeOK'
      BY <1>1, <2>1, <2>2 DEF NetInv, NetTypeOK, Stop
    <3> QED BY <2>1, <2>2, <3>1, QuietStep
  <2>3. CASE conn' = [s \in Slot |-> Ended(conn[s])]
    <3>1. conn' = [s \in Slot |-> IF s \in Slot THEN Ended(conn[s]) ELSE conn[s]]
      BY <2>3
    <3>2. conn' \in [Slot -> ConnState] /\ NoGhostPeers'
      BY <2>1, <3>1, EndingInv
    <3>3. NetTypeOK'
      BY <1>1, <2>1, <3>2 DEF NetInv, NetTypeOK, Stop
    <3>4. CountsCoverPeers'
      BY <2>1 DEF NetInv, CountsCoverPeers
    <3> QED BY <3>2, <3>3, <3>4 DEF NetInv
  <2> QED BY <1>1, <2>2, <2>3 DEF Stop
<1>2. CASE LeaveLoop
  <2>1. Known' = Known
    BY <1>2 DEF LeaveLoop, Known
  <2>2. NetTypeOK'
    BY <1>2, <2>1 DEF NetInv, NetTypeOK, LeaveLoop
  <2> QED BY <1>2, <2>1, <2>2, QuietStep DEF LeaveLoop
<1> QED BY <1>1, <1>2

LEMMA NetStepInv == NetInv /\ [NetNext]_netVars => NetInv'
<1> SUFFICES ASSUME NetInv, [NetNext]_netVars PROVE NetInv'
  OBVIOUS
<1>1. CASE UNCHANGED netVars
  <2>1. Known' = Known
    BY <1>1 DEF netVars, Known
  <2>2. NetTypeOK'
    BY <1>1, <2>1 DEF NetInv, NetTypeOK, netVars
  <2> QED BY <1>1, <2>1, <2>2, QuietStep DEF netVars
<1>2. CASE NetNext
  BY <1>2, OpenInv, CloseInv, ConnectedInv, DisconnectedInv, CleanupInv, TickInv,
     MessageInv, StopInv DEF NetNext
<1> QED BY <1>1, <1>2

(* The type invariant holds for any peers, connections and messages: in    *)
(* particular the queue of GossipEvent keeps to its capacity.              *)
THEOREM NetworkTyped == NetSpec => []NetTypeOK
<1>1. NetInv => NetTypeOK
  BY DEF NetInv
<1> QED BY <1>1, NetInitInv, NetStepInv, PTL DEF NetSpec

(* The counters of handlePeerConnected, handlePeerDisconnected and         *)
(* cleanupPoorConnections never fall below the number of peers.            *)
THEOREM PeersCounted == NetSpec => []CountsCoverPeers
<1>1. NetInv => CountsCoverPeers
  BY DEF NetInv
<1> QED BY <1>1, NetInitInv, NetStepInv, PTL DEF NetSpec

(* A peer in the map has an announced connection whose end is not handled. *)
THEOREM PeersConnected == NetSpec => []NoGhostPeers
<1>1. NetInv => NoGhostPeers
  BY DEF NetInv
<1> QED BY <1>1, NetInitInv, NetStepInv, PTL DEF NetSpec

=============================================================================
