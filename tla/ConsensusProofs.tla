---------------------------- MODULE ConsensusProofs ----------------------------
(***************************************************************************)
(* That fame voting and clotho selection never decide anything, for every  *)
(* set of events, any minVoteCount of at least two and any rounds asked    *)
(* about, with stores, passes and resets at any time; and that the engine  *)
(* that runs them keeps its types and never finalises an event or makes a  *)
(* block, whatever is submitted, stored, raced on or stopped meanwhile.    *)
(***************************************************************************)
EXTENDS ConsensusEngine, RoundAssignmentProofs

(* No pass runs during a vote, so that what is voted on stays in its       *)
(* round.                                                                  *)
VoteLocked == /\ ~(voting /\ passing)
              /\ ballot # {} => voting
              /\ ballot \subseteq EventsOfRound(voteRound)

(* Votes are kept per witness and round. *)
PairKeys == \A k \in DOMAIN votes : k = <<k[1], k[2]>>

NobodyFamous == \A x \in DOMAIN events : ~events[x].isFamous

FameInv == /\ RoundTypeOK
           /\ VoteLocked
           /\ PairKeys
           /\ FameInert
           /\ VotesUnanimous
           /\ NobodyFamous
           /\ SelectionEmpty

(* The types of the store and of the pass, when only crashed may change. *)
LEMMA SameRoundTypes ==
    ASSUME RoundTypeOK, UNCHANGED <<events, heads, rounds, lastRound, storing, storeStep,
                                    passing, todo, visiting, visitStep>>,
           crashed' \in BOOLEAN
    PROVE  RoundTypeOK'
<1>1. StoreRound' = StoreRound /\ VisitRound' = VisitRound
  BY DEF StoreRound, VisitRound, LamportRound
<1>2. PosetTypeOK'
  BY <1>1 DEF RoundTypeOK, PosetTypeOK
<1> QED BY <1>1, <1>2 DEF RoundTypeOK

-----------------------------------------------------------------------------
(* Steps of the store and of the passes. *)

LEMMA SameTypes ==
    ASSUME RoundTypeOK, UNCHANGED roundVars
    PROVE  RoundTypeOK'
<1>1. crashed' \in BOOLEAN
  BY DEF RoundTypeOK, roundVars
<1> QED BY <1>1, SameRoundTypes DEF roundVars

LEMMA StoreKeeps ==
    ASSUME FameInv, NEW h \in Headers, Store(h), UNCHANGED <<fameVars, clothos>>
    PROVE  FameInv'
<1>1. UNCHANGED <<votes, famous, decided, ballot, voting, voteRound, fvDeadlocked, clothos>>
  BY DEF fameVars
<1>2. RoundTypeOK'
  BY StoreType DEF FameInv
<1>3. /\ DOMAIN events' = DOMAIN events \cup {Hash(h)}
      /\ events'[Hash(h)] = NewEvent(h)
      /\ \A x \in DOMAIN events : events'[x] = events[x]
  BY StoreFacts DEF FameInv
<1>4. VoteLocked'
  <2>1. passing' = passing
    BY DEF Store
  <2> QED BY <1>1, <1>3, <2>1 DEF FameInv, VoteLocked, EventsOfRound
<1>5. NobodyFamous'
  BY <1>3 DEF FameInv, NobodyFamous, NewEvent
<1> QED
  BY <1>1, <1>2, <1>4, <1>5 DEF FameInv, PairKeys, FameInert, VotesUnanimous, SelectionEmpty

LEMMA VisitKeeps ==
    ASSUME FameInv, NEW id \in todo, Visit(id), UNCHANGED <<fameVars, clothos>>
    PROVE  FameInv'
<1>1. UNCHANGED <<votes, famous, decided, ballot, voting, voteRound, fvDeadlocked, clothos>>
  BY DEF fameVars
<1>2. RoundTypeOK'
  BY VisitType DEF FameInv
<1>3. ~voting /\ ballot = {}
  BY DEF FameInv, VoteLocked, RoundTypeOK
<1>4. VoteLocked'
  BY <1>1, <1>3 DEF FameInv, VoteLocked, Visit
<1>5. NobodyFamous'
  <2>1. CASE events' = events
    BY <2>1 DEF FameInv, NobodyFamous
  <2>2. CASE events' # events
    <3>1. PICK r \in Nat, w \in BOOLEAN : SetRound(id, r, w)
      BY <2>2, VisitCases DEF FameInv
    <3>2. events' = [events EXCEPT ![id].round = r, ![id].isRoot = @ \/ w]
      BY <3>1 DEF SetRound
    <3>3. id \in DOMAIN events /\ events \in [DOMAIN events -> Event]
      BY DEF FameInv, RoundTypeOK, PosetTypeOK, IsMap
    <3> QED BY <3>2, <3>3 DEF FameInv, NobodyFamous, Event
  <2> QED BY <2>1, <2>2
<1> QED
  BY <1>1, <1>2, <1>4, <1>5 DEF FameInv, PairKeys, FameInert, VotesUnanimous, SelectionEmpty

(* Steps on the table leave the events alone. *)
LEMMA TableKeeps ==
    ASSUME FameInv, StoreGoesOn \/ VisitGoesOn, UNCHANGED <<fameVars, clothos>>
    PROVE  FameInv'
<1>1. UNCHANGED <<votes, famous, decided, ballot, voting, voteRound, fvDeadlocked, clothos>>
  BY DEF fameVars
<1>2. UNCHANGED <<events, passing>>
  BY StoreSteps, VisitSteps DEF FameInv
<1>3. RoundTypeOK'
  BY TableType DEF FameInv
<1> QED
  BY <1>1, <1>2, <1>3 DEF FameInv, VoteLocked, EventsOfRound, PairKeys, FameInert,
                          VotesUnanimous, NobodyFamous, SelectionEmpty

LEMMA PassKeeps ==
    ASSUME FameInv, (StartPass /\ ~voting) \/ EndPass, UNCHANGED <<fameVars, clothos>>
    PROVE  FameInv'
<1>1. /\ UNCHANGED <<votes, famous, decided, ballot, voting, voteRound, fvDeadlocked, clothos>>
      /\ UNCHANGED events
  BY DEF fameVars, StartPass, EndPass, posetVars
<1>2. RoundTypeOK'
  BY PassType DEF FameInv
<1>3. VoteLocked'
  BY <1>1 DEF FameInv, VoteLocked, EventsOfRound, StartPass, EndPass
<1> QED
  BY <1>1, <1>2, <1>3
     DEF FameInv, PairKeys, FameInert, VotesUnanimous, NobodyFamous, SelectionEmpty

-----------------------------------------------------------------------------
(* Votes. *)

(* The one vote of a witness is not the minVoteCount that fame asks for. *)
LEMMA TooFewVotes ==
    ASSUME NEW vs, \A k \in DOMAIN vs : k = <<k[1], k[2]>>, NEW w, NEW r
    PROVE  ~CheckConsensus(vs, w, r)
<1> DEFINE cast == {k \in DOMAIN vs : k[1] = w /\ k[2] = r}
<1>1. cast \subseteq {<<w, r>>}
  OBVIOUS
<1>2. IsFiniteSet({<<w, r>>}) /\ Cardinality({<<w, r>>}) = 1
  BY FS_Singleton
<1>3. Cardinality(cast) <= 1 /\ Cardinality(cast) \in Nat
  <2>1. Cardinality(cast) <= Cardinality({<<w, r>>}) /\ IsFiniteSet(cast)
    BY <1>1, <1>2, FS_Subset
  <2> QED BY <1>2, <2>1, FS_CardinalityType
<1>4. ~(Cardinality(cast) >= MinVotes)
  <2> HIDE DEF cast
  <2> QED BY <1>3, MinVotesAssumption
<1> QED BY <1>4 DEF CheckConsensus

(* The electors of a witness are of its own round, and all of them see it. *)
LEMMA VoteIsYes ==
    ASSUME RoundTypeOK, NEW r, NEW w \in EventsOfRound(r)
    PROVE  CalculateVote(w, r) = TRUE
<1> DEFINE E == EventsOfRound(r)
<1>1. {x \in E : CanSee(x, w)} = E
  BY DEF EventsOfRound, CanSee
<1>2. IsFiniteSet(E)
  <2>1. E \subseteq EventID
    BY DEF EventsOfRound, RoundTypeOK, PosetTypeOK, IsMap
  <2> QED BY <2>1, EventIDAssumption, FS_Subset
<1>3. Cardinality(E) \in Nat /\ Cardinality(E) # 0
  BY <1>2, FS_CardinalityType, FS_EmptySet
<1>4. TwoThirds(Cardinality(E), Cardinality(E))
  <2> HIDE DEF E
  <2> QED BY <1>3 DEF TwoThirds
<1>5. CalculateVote(w, r) = TwoThirds(Cardinality(E), Cardinality(E))
  BY <1>1 DEF CalculateVote
<1> QED BY <1>4, <1>5 DEF TwoThirds

LEMMA VoteKeeps ==
    ASSUME FameInv, NEW w \in ballot, VoteFor(w), UNCHANGED clothos
    PROVE  FameInv'
<1>1. /\ UNCHANGED <<events, passing>>
      /\ UNCHANGED <<decided, voting, voteRound>>
      /\ ballot' = ballot \ {w}
      /\ UNCHANGED roundVars
  BY DEF VoteFor, roundVars
<1>2. RoundTypeOK' /\ NobodyFamous' /\ VoteLocked' /\ SelectionEmpty'
  <2>1. RoundTypeOK'
    BY <1>1, SameTypes DEF FameInv
  <2> QED BY <1>1, <2>1 DEF FameInv, NobodyFamous, VoteLocked, EventsOfRound, SelectionEmpty
<1>3. CASE UNCHANGED <<votes, famous, fvDeadlocked>>
  BY <1>1, <1>2, <1>3 DEF FameInv, PairKeys, FameInert, VotesUnanimous
<1>4. CASE /\ votes' = Put(votes, <<w, voteRound>>, CalculateVote(w, voteRound))
           /\ fvDeadlocked' = CheckConsensus(votes', w, voteRound)
           /\ famous' = IF fvDeadlocked' THEN famous \cup {w} ELSE famous
  <2>1. CalculateVote(w, voteRound) = TRUE
    BY VoteIsYes DEF FameInv, VoteLocked
  <2>2. /\ DOMAIN votes' = DOMAIN votes \cup {<<w, voteRound>>}
        /\ votes'[<<w, voteRound>>] = TRUE
        /\ \A k \in DOMAIN votes : k # <<w, voteRound>> => votes'[k] = votes[k]
    BY <1>4, <2>1 DEF Put
  <2>3. PairKeys'
    BY <2>2 DEF FameInv, PairKeys
  <2>4. VotesUnanimous'
    BY <2>2 DEF FameInv, VotesUnanimous
  <2>5. ~CheckConsensus(votes', w, voteRound)
    BY <2>3, TooFewVotes DEF PairKeys
  <2>6. FameInert'
    BY <1>1, <1>4, <2>5 DEF FameInv, FameInert
  <2> QED BY <1>2, <2>3, <2>4, <2>6 DEF FameInv
<1> QED BY <1>3, <1>4 DEF VoteFor

LEMMA CallKeeps ==
    ASSUME FameInv, (\E r \in VoteRounds : BeginVoting(r)) \/ EndVoting \/ ResetFame,
           UNCHANGED clothos
    PROVE  FameInv'
<1>1. UNCHANGED roundVars /\ UNCHANGED <<events, passing>>
  BY DEF BeginVoting, EndVoting, ResetFame, roundVars
<1>2. RoundTypeOK' /\ NobodyFamous' /\ SelectionEmpty'
  <2>1. RoundTypeOK'
    BY <1>1, SameTypes DEF FameInv
  <2> QED BY <1>1, <2>1 DEF FameInv, NobodyFamous, SelectionEmpty
<1>3. FameInert' /\ PairKeys' /\ VotesUnanimous'
  BY DEF FameInv, FameInert, PairKeys, VotesUnanimous, BeginVoting, EndVoting, ResetFame
<1>4. VoteLocked'
  <2>1. CASE \E r \in VoteRounds : BeginVoting(r)
    BY <1>1, <2>1 DEF FameInv, VoteLocked, BeginVoting, GetWitnesses, EventsOfRound
  <2>2. CASE EndVoting
    BY <1>1, <2>2 DEF FameInv, VoteLocked, EndVoting, EventsOfRound
  <2>3. CASE ResetFame
    BY <1>1, <2>3 DEF FameInv, VoteLocked, ResetFame, EventsOfRound
  <2> QED BY <2>1, <2>2, <2>3
<1> QED BY <1>2, <1>3, <1>4 DEF FameInv

-----------------------------------------------------------------------------
(* Selections. *)

LEMMA SelectKeeps ==
    ASSUME FameInv, (\E r \in VoteRounds : SelectClothos(r)) \/ ResetClothos
    PROVE  FameInv'
<1>1. /\ UNCHANGED roundVars /\ UNCHANGED <<events, passing>>
      /\ UNCHANGED <<votes, famous, decided, ballot, voting, voteRound, fvDeadlocked>>
  BY DEF SelectClothos, ResetClothos, roundVars, fameVars
<1>2. /\ RoundTypeOK' /\ NobodyFamous' /\ VoteLocked'
      /\ FameInert' /\ PairKeys' /\ VotesUnanimous'
  <2>1. RoundTypeOK'
    BY <1>1, SameTypes DEF FameInv
  <2> QED BY <1>1, <2>1 DEF FameInv, NobodyFamous, VoteLocked, EventsOfRound,
                            FameInert, PairKeys, VotesUnanimous
<1>3. SelectionEmpty'
  <2>1. CASE ResetClothos
    BY <2>1 DEF ResetClothos, SelectionEmpty
  <2>2. ASSUME NEW r \in VoteRounds, SelectClothos(r) PROVE SelectionEmpty'
    <3>1. PICK W \in FamousWitnesses(r) : \E S \in SUBSET W :
             /\ \A w \in S : \E met \in FirstMet(r) : IsClothoCandidate(w, r, met)
             /\ clothos' = Put(clothos, r, S)
      BY <2>2 DEF SelectClothos
    <3>2. PICK S \in SUBSET W :
             /\ \A w \in S : \E met \in FirstMet(r) : IsClothoCandidate(w, r, met)
             /\ clothos' = Put(clothos, r, S)
      BY <3>1
    <3>3. W \subseteq DOMAIN events
      BY DEF FamousWitnesses, EventsOfRound
    <3>4. \A w \in W : ~IsFamous(w)
      BY <3>3 DEF FameInv, FameInert, NobodyFamous, IsFamous
    <3>5. S = {}
      BY <3>2, <3>4 DEF IsClothoCandidate
    <3>6. clothos' = Put(clothos, r, {})
      BY <3>2, <3>5
    <3> QED BY <3>6 DEF FameInv, SelectionEmpty, Put
  <2> QED BY <2>1, <2>2
<1> QED BY <1>2, <1>3 DEF FameInv

LEMMA SameFame ==
    ASSUME FameInv, UNCHANGED <<roundVars, fameVars, clothos>>
    PROVE  FameInv'
<1>1. RoundTypeOK'
  BY SameTypes DEF FameInv
<1> QED BY <1>1 DEF roundVars, fameVars, FameInv, VoteLocked, EventsOfRound, PairKeys,
                    FameInert, VotesUnanimous, NobodyFamous, SelectionEmpty

LEMMA FameInvInit == ClothoInit => FameInv
<1> SUFFICES ASSUME ClothoInit PROVE FameInv
  OBVIOUS
<1>1. /\ events = <<>> /\ heads = <<>> /\ rounds = <<>> /\ lastRound = 0
      /\ storing = NoEvent /\ storeStep = "idle" /\ visiting = NoEvent /\ visitStep = "idle"
      /\ passing = FALSE /\ todo = {} /\ crashed = FALSE
  BY DEF ClothoInit, RoundInit, PosetInit
<1>2. RoundTypeOK
  <2>1. DOMAIN events = {} /\ DOMAIN rounds = {}
    BY <1>1
  <2> QED BY <1>1, <2>1, EmptyMap DEF RoundTypeOK, PosetTypeOK, Steps
<1>3. VoteLocked /\ NobodyFamous
  BY <1>1 DEF ClothoInit, FameInit, VoteLocked, NobodyFamous
<1>4. PairKeys /\ FameInert /\ VotesUnanimous /\ SelectionEmpty
  BY DEF ClothoInit, FameInit, PairKeys, FameInert, VotesUnanimous, SelectionEmpty
<1> QED BY <1>2, <1>3, <1>4 DEF FameInv

(* The inductive invariant of voting and selection. *)
THEOREM FameInvariant == ClothoSpec => []FameInv
<1>1. ClothoInit => FameInv
  BY FameInvInit
<1>2. FameInv /\ [ClothoNext]_selectorVars => FameInv'
  <2> SUFFICES ASSUME FameInv, [ClothoNext]_selectorVars PROVE FameInv'
    OBVIOUS
  <2>1. CASE ClothoNext
    BY <2>1, StoreKeeps, VisitKeeps, TableKeeps, PassKeeps, VoteKeeps, CallKeeps, SelectKeeps
       DEF ClothoNext, FameStep
  <2>2. CASE UNCHANGED selectorVars
    BY <2>2, SameFame DEF selectorVars, roundVars, fameVars
  <2> QED BY <2>1, <2>2
<1> QED BY <1>1, <1>2, PTL DEF ClothoSpec

(* No witness becomes famous, no round is decided, and decideRound's       *)
(* second lock is never reached (fame_voting.go:88-103,                    *)
(* fame_voting.go:232).                                                    *)
THEOREM FameStaysInert == ClothoSpec => []FameInert
<1>1. FameInv => FameInert
  BY DEF FameInv
<1> QED BY <1>1, FameInvariant, PTL

(* No vote is ever "no" (fame_voting.go:117, fame_voting.go:181). *)
THEOREM EveryVoteYes == ClothoSpec => []VotesUnanimous
<1>1. FameInv => VotesUnanimous
  BY DEF FameInv
<1> QED BY <1>1, FameInvariant, PTL

(* No Clotho is ever selected (clotho.go:42-84, clotho.go:117-124),        *)
(* although the comments let events of round 0 become Clothos before there *)
(* is a next round (clotho.go:138-142, clotho.go:164-167).                 *)
THEOREM NoClotho == ClothoSpec => []SelectionEmpty
<1>1. FameInv => SelectionEmpty
  BY DEF FameInv
<1> QED BY <1>1, FameInvariant, PTL

-----------------------------------------------------------------------------
(* The engine. *)

(* The stages under ce.mu: a pass and a vote run in theirs. *)
StageLocks == (passing => stage = "rounds") /\ (voting => stage = "voting")

(* Nothing that finality could promote, and nothing promoted. *)
NoClothoListed == \A r \in DOMAIN rounds : rounds[r].clothos = {}
NoClothoCached == \A r \in DOMAIN feCache : feCache[r].kind = "clothos" => feCache[r].ids = {}
NoAtropos == \A x \in DOMAIN events : ~events[x].atropos
Barren == NoClothoListed /\ NoClothoCached /\ NoAtropos /\ blocks = 0

VoteTypes == /\ IsMap(votes, EventID \X VoteRounds, BOOLEAN)
             /\ voting \in BOOLEAN
             /\ voting => voteRound \in VoteRounds
             /\ fvDeadlocked \in BOOLEAN
             /\ IsMap(clothos, VoteRounds, SUBSET EventID)
QueueTypes == /\ eventQueue \in Seq(Headers) /\ Len(eventQueue) <= QueueCap
              /\ IsMap(eventCache, EventID, Headers)
Stage == {"loop", "select", "rounds", "fame", "voting", "clotho",
          "finality", "finalizing", "blocks"}
FlagTypes == /\ stage \in Stage
             /\ stopStage \in {"running", "cancelled", "processorStopped", "stopped"}
             /\ panicked \in {"no", "submitter", "consensus", "worker", "blocks"}

EngineInv == FameInv /\ StageLocks /\ Barren
             /\ VoteTypes /\ FinalityTypeOK /\ QueueTypes /\ FlagTypes

(* What the parts of the invariant look at. *)
LEMMA SameVotes ==
    ASSUME VoteTypes, UNCHANGED <<fameVars, clothos>>
    PROVE  VoteTypes'
BY DEF VoteTypes, fameVars

LEMMA SameBarren ==
    ASSUME Barren, FinalityTypeOK, UNCHANGED <<events, rounds, feCache, blocks>>,
           finTodo' \subseteq finTodo
    PROVE  Barren' /\ FinalityTypeOK'
BY DEF Barren, NoClothoListed, NoClothoCached, NoAtropos, FinalityTypeOK

-----------------------------------------------------------------------------
(* Steps that leave the data of consensus alone. *)
LEMMA FlagStep ==
    ASSUME EngineInv, UNCHANGED <<dagVars, blocks>>, QueueTypes', FlagTypes',
           stage' = stage \/ (stage' # "rounds" /\ stage \notin {"rounds", "voting"})
    PROVE  EngineInv'
<1>1. UNCHANGED <<roundVars, fameVars, clothos, feCache, finTodo, events, rounds, passing, voting>>
  BY DEF dagVars, roundVars, fameVars
<1>2. FameInv' /\ VoteTypes' /\ Barren' /\ FinalityTypeOK'
  BY <1>1, SameFame, SameVotes, SameBarren DEF EngineInv
<1>3. StageLocks'
  BY <1>1 DEF EngineInv, StageLocks
<1> QED BY <1>2, <1>3 DEF EngineInv

LEMMA SubmitInv ==
    ASSUME EngineInv, NEW h \in Headers, Submit(h)
    PROVE  EngineInv'
<1>1. UNCHANGED <<dagVars, blocks>> /\ stage' = stage /\ UNCHANGED <<eventCache, stopStage>>
  BY DEF Submit
<1>2. QueueTypes'
  <2>1. \/ eventQueue' = eventQueue
        \/ eventQueue' = Append(eventQueue, h) /\ Len(eventQueue) < QueueCap
    BY DEF Submit
  <2> QED BY <1>1, <2>1, CapAssumption DEF EngineInv, QueueTypes
<1>3. FlagTypes'
  BY <1>1 DEF EngineInv, FlagTypes, Submit
<1> QED BY <1>1, <1>2, <1>3, FlagStep

LEMMA IdleInv ==
    ASSUME EngineInv, LoopTick \/ SelectDone \/ FinalityDone \/ TaskPanic \/ WorkerPanic \/ Stop
    PROVE  EngineInv'
<1>1. UNCHANGED <<dagVars, blocks, eventQueue, eventCache>>
  BY DEF LoopTick, SelectDone, FinalityDone, TaskPanic, WorkerPanic, Stop, StopStep, At
<1>2. stage' = stage \/ (stage' # "rounds" /\ stage \notin {"rounds", "voting"})
  BY DEF LoopTick, SelectDone, FinalityDone, TaskPanic, WorkerPanic, Stop, StopStep, At
<1>3. FlagTypes'
  BY DEF EngineInv, FlagTypes, Stage,
         LoopTick, SelectDone, FinalityDone, TaskPanic, WorkerPanic, Stop, StopStep, At
<1>4. QueueTypes'
  BY <1>1 DEF EngineInv, QueueTypes
<1> QED BY <1>1, <1>2, <1>3, <1>4, FlagStep

(* createBlock finds nothing to make a block of. *)
LEMMA CreateBlockInv ==
    ASSUME EngineInv, CreateBlock
    PROVE  EngineInv'
<1>1. Cardinality(GetFinalizedEvents) = 0
  <2>1. GetFinalizedEvents = {}
    BY DEF EngineInv, Barren, NoAtropos, GetFinalizedEvents
  <2> QED BY <2>1, FS_EmptySet
<1>2. PICK n \in 0..0 :
         /\ blocks' = IF blocks + n > BlockCap THEN BlockCap ELSE blocks + n
         /\ panicked' = IF n > 0 /\ stopStage = "stopped" THEN "blocks" ELSE "no"
  BY <1>1 DEF CreateBlock
<1>3. blocks' = blocks
  BY <1>2, CapAssumption DEF EngineInv, Barren
<1>4. UNCHANGED <<dagVars, eventQueue, eventCache, stage, stopStage>>
  BY DEF CreateBlock
<1>5. QueueTypes' /\ FlagTypes'
  BY <1>2, <1>4 DEF EngineInv, QueueTypes, FlagTypes
<1> QED BY <1>3, <1>4, <1>5, FlagStep

-----------------------------------------------------------------------------
(* The store. *)

(* Storing an event makes no Clotho. *)
LEMMA StoreBarren ==
    ASSUME RoundTypeOK, Barren, FinalityTypeOK, NEW h \in Headers, Store(h),
           UNCHANGED <<feCache, finTodo, blocks>>
    PROVE  Barren' /\ FinalityTypeOK'
<1>1. /\ DOMAIN events' = DOMAIN events \cup {Hash(h)}
      /\ events'[Hash(h)] = NewEvent(h)
      /\ \A x \in DOMAIN events : events'[x] = events[x]
      /\ rounds' = rounds
  BY StoreFacts
<1>2. NoAtropos'
  BY <1>1 DEF Barren, NoAtropos, NewEvent
<1> QED BY <1>1, <1>2 DEF Barren, NoClothoListed, NoClothoCached, FinalityTypeOK

(* Nor does registering one in the table. *)
LEMMA TableBarren ==
    ASSUME RoundTypeOK, Barren, FinalityTypeOK, StoreGoesOn \/ VisitGoesOn,
           UNCHANGED <<feCache, blocks>>,
           finTodo' \subseteq finTodo \cup (DOMAIN rounds' \ DOMAIN rounds)
    PROVE  Barren' /\ FinalityTypeOK'
<1>1. /\ events' = events
      /\ DOMAIN rounds \subseteq DOMAIN rounds'
  BY StoreSteps, VisitSteps, TableGrows
<1>2. NoClothoListed'
  BY TableGrows DEF Barren, NoClothoListed
<1> QED BY <1>1, <1>2 DEF Barren, NoAtropos, NoClothoCached, FinalityTypeOK

LEMMA ProcessEventInv ==
    ASSUME EngineInv, ProcessEvent
    PROVE  EngineInv'
<1> DEFINE h == FromCache(Head(eventQueue))
<1>1. /\ eventQueue # <<>>
      /\ eventQueue' = Tail(eventQueue)
      /\ eventCache' = Put(eventCache, Hash(h), h)
      /\ UNCHANGED roundVars \/ Store(h)
      /\ UNCHANGED <<fameVars, clothos, feCache, finTodo, stage, blocks, stopStage, panicked>>
  BY DEF ProcessEvent
<1>2. h \in Headers /\ Hash(h) \in EventID
  <2>1. Head(eventQueue) \in Headers
    BY <1>1 DEF EngineInv, QueueTypes
  <2>2. h \in Headers
    BY <2>1 DEF FromCache, EngineInv, QueueTypes, IsMap
  <2> HIDE DEF h
  <2> QED BY <2>2, HeadersAssumption DEF Hash
<1> HIDE DEF h
<1>3. QueueTypes'
  <2>1. eventQueue' \in Seq(Headers) /\ Len(eventQueue') <= QueueCap
    <3>1. /\ eventQueue \in Seq(Headers) /\ Len(eventQueue) <= QueueCap /\ QueueCap \in Nat
      BY CapAssumption DEF EngineInv, QueueTypes
    <3> QED BY <1>1, <3>1
  <2>2. IsMap(eventCache', EventID, Headers)
    BY <1>1, <1>2, PutFacts DEF EngineInv, QueueTypes
  <2> QED BY <2>1, <2>2 DEF QueueTypes
<1>4. FlagTypes' /\ VoteTypes'
  BY <1>1, SameVotes DEF EngineInv, FlagTypes
<1>5. CASE UNCHANGED roundVars
  <2>1. FameInv'
    BY <1>1, <1>5, SameFame DEF EngineInv
  <2>2. Barren' /\ FinalityTypeOK' /\ StageLocks'
    BY <1>1, <1>5, SameBarren DEF EngineInv, StageLocks, roundVars, fameVars
  <2> QED BY <1>3, <1>4, <2>1, <2>2 DEF EngineInv
<1>6. CASE Store(h)
  <2>1. FameInv'
    BY <1>1, <1>2, <1>6, StoreKeeps DEF EngineInv
  <2>2. Barren' /\ FinalityTypeOK'
    BY <1>1, <1>2, <1>6, StoreBarren DEF EngineInv, FameInv
  <2>3. StageLocks'
    BY <1>1, <1>6 DEF EngineInv, StageLocks, Store, fameVars
  <2> QED BY <1>3, <1>4, <2>1, <2>2, <2>3 DEF EngineInv
<1> QED BY <1>1, <1>5, <1>6

LEMMA ProcessStoreInv ==
    ASSUME EngineInv, ProcessStore
    PROVE  EngineInv'
<1>1. /\ StoreGoesOn
      /\ UNCHANGED <<fameVars, clothos, feCache, engineOnly>>
      /\ finTodo' \subseteq finTodo \cup (DOMAIN rounds' \ DOMAIN rounds)
  BY DEF ProcessStore, RangeMayMeet
<1>2. FameInv'
  BY <1>1, TableKeeps DEF EngineInv
<1>3. Barren' /\ FinalityTypeOK'
  BY <1>1, TableBarren DEF EngineInv, FameInv, engineOnly
<1>4. passing' = passing
  BY <1>1 DEF StoreGoesOn, raVars
<1>5. StageLocks' /\ QueueTypes' /\ FlagTypes'
  BY <1>1, <1>4 DEF EngineInv, StageLocks, QueueTypes, FlagTypes, fameVars, engineOnly
<1> QED BY <1>1, <1>2, <1>3, <1>5, SameVotes DEF EngineInv

LEMMA StoreRaceInv ==
    ASSUME EngineInv, StoreRace
    PROVE  EngineInv'
<1>1. /\ crashed' = TRUE
      /\ UNCHANGED <<events, heads, rounds, lastRound, storing, storeStep,
                     passing, todo, visiting, visitStep, fameVars, clothos,
                     feCache, finTodo, engineOnly>>
  BY DEF StoreRace, posetVars
<1>2. crashed' \in BOOLEAN
  BY <1>1, Zenon
<1>3. FameInv'
  <2>1. RoundTypeOK'
    BY <1>1, <1>2, SameRoundTypes DEF EngineInv, FameInv
  <2> QED BY <1>1, <2>1 DEF EngineInv, fameVars, FameInv, VoteLocked, EventsOfRound,
             PairKeys, FameInert, VotesUnanimous, NobodyFamous, SelectionEmpty
<1>4. Barren' /\ FinalityTypeOK' /\ VoteTypes'
  BY <1>1, SameBarren, SameVotes DEF EngineInv, engineOnly
<1>5. StageLocks' /\ QueueTypes' /\ FlagTypes'
  BY <1>1 DEF EngineInv, StageLocks, QueueTypes, FlagTypes, fameVars, engineOnly
<1> QED BY <1>3, <1>4, <1>5 DEF EngineInv

-----------------------------------------------------------------------------
(* The stages of the consensus goroutine. *)

(* At leaves the queues and flags alone. *)
LEMMA AtFacts ==
    ASSUME EngineInv, NEW from, NEW to \in Stage, At(from, to)
    PROVE  /\ stage = from /\ stage' = to /\ blocks' = blocks
           /\ QueueTypes' /\ FlagTypes'
BY DEF At, EngineInv, QueueTypes, FlagTypes

(* A visit makes no Atropos. *)
LEMMA VisitBarren ==
    ASSUME RoundTypeOK, Barren, FinalityTypeOK, NEW id \in todo, Visit(id),
           UNCHANGED <<feCache, finTodo, blocks>>
    PROVE  Barren' /\ FinalityTypeOK'
<1>1. rounds' = rounds
  BY DEF Visit
<1>2. CASE events' = events
  BY <1>1, <1>2, SameBarren
<1>3. CASE events' # events
  <2>1. PICK r \in Nat, w \in BOOLEAN : SetRound(id, r, w)
    BY <1>3, VisitCases
  <2>2. id \in DOMAIN events /\ events \in [DOMAIN events -> Event]
    BY DEF RoundTypeOK, PosetTypeOK, IsMap
  <2>3. NoAtropos'
    <3>1. events' = [events EXCEPT ![id].round = r, ![id].isRoot = @ \/ w]
      BY <2>1 DEF SetRound
    <3> QED BY <2>2, <3>1 DEF Barren, NoAtropos, Event
  <2> QED BY <1>1, <2>3 DEF Barren, NoClothoListed, NoClothoCached, FinalityTypeOK
<1> QED BY <1>2, <1>3

LEMMA PassInv ==
    ASSUME EngineInv, SelectTick \/ RoundsVisit \/ RoundsDone
    PROVE  EngineInv'
<1>1. UNCHANGED <<fameVars, clothos, feCache, finTodo, voting>>
  BY DEF SelectTick, RoundsVisit, RoundsDone, fameVars
<1>2. /\ {"select", "rounds", "fame"} \subseteq Stage
      /\ \E from, to \in {"select", "rounds", "fame"} : At(from, to)
  BY DEF SelectTick, RoundsVisit, RoundsDone, Stage
<1>3. /\ QueueTypes' /\ FlagTypes' /\ blocks' = blocks
      /\ stage # "voting"
  BY <1>2, AtFacts
<1>4. ~voting
  BY <1>3 DEF EngineInv, StageLocks
<1>5. FameInv' /\ Barren' /\ FinalityTypeOK'
  <2>1. CASE SelectTick \/ RoundsDone
    <3>1. (StartPass /\ ~voting) \/ EndPass
      BY <1>4, <2>1 DEF SelectTick, RoundsDone
    <3>2. UNCHANGED <<events, rounds>>
      BY <3>1 DEF StartPass, EndPass, posetVars
    <3> QED BY <1>1, <1>3, <3>1, <3>2, PassKeeps, SameBarren DEF EngineInv
  <2>2. CASE RoundsVisit
    BY <1>1, <1>3, <2>2, VisitKeeps, VisitBarren, TableKeeps, TableBarren
       DEF RoundsVisit, EngineInv, FameInv
  <2> QED BY <2>1, <2>2
<1>6. StageLocks'
  <2>1. CASE SelectTick
    BY <1>1, <1>4, <2>1 DEF SelectTick, At, StageLocks
  <2>2. CASE RoundsVisit
    BY <1>1, <1>4, <2>2 DEF RoundsVisit, At, StageLocks
  <2>3. CASE RoundsDone
    BY <1>1, <1>4, <2>3 DEF RoundsDone, EndPass, At, StageLocks
  <2> QED BY <2>1, <2>2, <2>3
<1> QED BY <1>1, <1>3, <1>5, <1>6, SameVotes DEF EngineInv

LEMMA FameInvStep ==
    ASSUME EngineInv, FameBegin \/ FameVote \/ FameDone
    PROVE  EngineInv'
<1>1. UNCHANGED <<clothos, feCache, finTodo>>
  BY DEF FameBegin, FameVote, FameDone
<1>2. /\ {"fame", "voting", "clotho"} \subseteq Stage
      /\ \E from, to \in {"fame", "voting", "clotho"} : At(from, to)
  BY DEF FameBegin, FameVote, FameDone, Stage
<1>3. QueueTypes' /\ FlagTypes' /\ blocks' = blocks /\ stage # "rounds"
  BY <1>2, AtFacts
<1>4. UNCHANGED roundVars
  BY DEF FameBegin, FameVote, FameDone, BeginVoting, VoteFor, EndVoting
<1>5. Barren' /\ FinalityTypeOK'
  BY <1>1, <1>3, <1>4, SameBarren DEF EngineInv, roundVars
<1>6. ~passing /\ ~passing'
  BY <1>3, <1>4 DEF EngineInv, StageLocks, roundVars
<1>7. CASE UNCHANGED fameVars /\ At("fame", "clotho")
  <2>1. ~voting /\ ~voting'
    BY <1>7 DEF EngineInv, StageLocks, At, fameVars
  <2> QED BY <1>1, <1>3, <1>4, <1>5, <1>6, <1>7, <2>1, SameFame, SameVotes DEF EngineInv, StageLocks
<1>8. CASE At("fame", "voting") /\ BeginVoting(CurrentRound)
  <2>1. FameInv'
    BY <1>1, <1>8, CallKeeps, CurrentRoundAssumption DEF EngineInv
  <2>2. VoteTypes'
    <3>1. /\ voting' = TRUE /\ voteRound' = CurrentRound
          /\ UNCHANGED <<votes, fvDeadlocked>>
      BY <1>8 DEF BeginVoting
    <3>2. voting' \in BOOLEAN
      BY <3>1, Zenon
    <3> QED BY <1>1, <3>1, <3>2, CurrentRoundAssumption DEF EngineInv, VoteTypes
  <2>3. StageLocks'
    BY <1>6, <1>8 DEF StageLocks, At
  <2> QED BY <1>3, <1>5, <2>1, <2>2, <2>3 DEF EngineInv
<1>9. ASSUME At("voting", "voting"), NEW w \in ballot, VoteFor(w)
      PROVE  EngineInv'
  <2>1. FameInv'
    BY <1>1, <1>9, VoteKeeps DEF EngineInv
  <2>2. w \in EventID /\ voteRound \in VoteRounds /\ CalculateVote(w, voteRound) \in BOOLEAN
    <3>1. voting /\ w \in EventsOfRound(voteRound)
      BY DEF EngineInv, FameInv, VoteLocked
    <3>2. CalculateVote(w, voteRound) = TRUE
      BY <3>1, VoteIsYes DEF EngineInv, FameInv
    <3>3. w \in EventID /\ voteRound \in VoteRounds
      BY <3>1 DEF EngineInv, FameInv, RoundTypeOK, PosetTypeOK, IsMap, EventsOfRound, VoteTypes
    <3>4. CalculateVote(w, voteRound) \in BOOLEAN
      BY <3>2, Zenon
    <3> QED BY <3>3, <3>4
  <2>3. IsMap(votes', EventID \X VoteRounds, BOOLEAN)
    <3>1. \/ votes' = votes
          \/ votes' = Put(votes, <<w, voteRound>>, CalculateVote(w, voteRound))
      BY <1>9 DEF VoteFor
    <3>2. IsMap(votes, EventID \X VoteRounds, BOOLEAN) /\ <<w, voteRound>> \in EventID \X VoteRounds
      BY <2>2 DEF EngineInv, VoteTypes
    <3> DEFINE v == CalculateVote(w, voteRound)
               k == <<w, voteRound>>
    <3>3. v \in BOOLEAN /\ k \in EventID \X VoteRounds
      BY <2>2, <3>2
    <3> HIDE DEF v, k
    <3>4. IsMap(Put(votes, k, v), EventID \X VoteRounds, BOOLEAN)
      BY <3>2, <3>3, PutFacts, Zenon
    <3> QED BY <3>1, <3>2, <3>4, Zenon DEF v, k
  <2>4. voting' = voting /\ voteRound' = voteRound
    BY <1>9 DEF VoteFor
  <2>5. fvDeadlocked' \in BOOLEAN
    <3>1. fvDeadlocked' = fvDeadlocked \/ fvDeadlocked' = CheckConsensus(votes', w, voteRound)
      BY <1>9 DEF VoteFor
    <3>2. CASE fvDeadlocked' = fvDeadlocked
      BY <3>2 DEF EngineInv, VoteTypes
    <3>3. CASE fvDeadlocked' = CheckConsensus(votes', w, voteRound)
      BY <3>3, Zenon DEF CheckConsensus
    <3> QED BY <3>1, <3>2, <3>3
  <2>6. VoteTypes'
    BY <1>1, <2>3, <2>4, <2>5 DEF EngineInv, VoteTypes
  <2>7. StageLocks'
    BY <1>6, <1>9 DEF StageLocks, At
  <2> QED BY <1>3, <1>5, <2>1, <2>6, <2>7 DEF EngineInv
<1>10. CASE FameDone
  <2>1. FameInv'
    BY <1>1, <1>10, CallKeeps DEF EngineInv, FameDone
  <2>2. UNCHANGED <<votes, fvDeadlocked>> /\ voting' = FALSE
    BY <1>10 DEF FameDone, EndVoting
  <2>3. voting' \in BOOLEAN
    BY <2>2, Zenon
  <2>4. VoteTypes' /\ StageLocks'
    BY <1>1, <1>6, <2>2, <2>3 DEF EngineInv, VoteTypes, StageLocks
  <2> QED BY <1>3, <1>5, <2>1, <2>4 DEF EngineInv
<1> QED BY <1>7, <1>8, <1>9, <1>10 DEF FameBegin, FameVote

LEMMA ClothoInv ==
    ASSUME EngineInv, Clotho
    PROVE  EngineInv'
<1>1. UNCHANGED <<roundVars, fameVars, feCache, finTodo>> /\ At("clotho", "finality")
  BY DEF Clotho, SelectClothos
<1>2. QueueTypes' /\ FlagTypes' /\ blocks' = blocks /\ stage = "clotho"
  BY <1>1, AtFacts DEF Stage
<1>3. Barren' /\ FinalityTypeOK'
  BY <1>1, <1>2, SameBarren DEF EngineInv, roundVars
<1>4. StageLocks'
  BY <1>1, <1>2 DEF EngineInv, StageLocks, roundVars, fameVars
<1>5. CASE UNCHANGED clothos
  BY <1>1, <1>2, <1>3, <1>4, <1>5, SameFame, SameVotes DEF EngineInv
<1>6. CASE SelectClothos(CurrentRound)
  <2>1. FameInv'
    BY <1>6, CurrentRoundAssumption, SelectKeeps DEF EngineInv
  <2>2. PICK S : clothos' = Put(clothos, CurrentRound, S)
    BY <1>6 DEF SelectClothos
  <2>3. S = {}
    <3>1. CurrentRound \in DOMAIN clothos' /\ clothos'[CurrentRound] = S
      BY <2>2 DEF Put
    <3> QED BY <2>1, <3>1 DEF FameInv, SelectionEmpty
  <2>4. IsMap(clothos', VoteRounds, SUBSET EventID)
    BY <2>2, <2>3, CurrentRoundAssumption, PutFacts DEF EngineInv, VoteTypes
  <2>5. VoteTypes'
    BY <1>1, <2>4 DEF EngineInv, VoteTypes, fameVars
  <2> QED BY <1>2, <1>3, <1>4, <2>1, <2>5 DEF EngineInv
<1> QED BY <1>5, <1>6 DEF Clotho

(* Finality reads lists without a Clotho, and changes nothing but its cache. *)
LEMMA NothingPromoted ==
    ASSUME EngineInv, NEW r \in finTodo, FinalizeRound(r)
    PROVE  /\ events' = events /\ rounds' = rounds /\ finTodo' = finTodo \ {r}
           /\ \/ feCache' = feCache
              \/ feCache' = Put(feCache, r, [kind |-> "clothos", ids |-> {}])
<1> DEFINE cl == Lookup(feCache, r, "clothos", TableClothos(r))
           cache1 == Remember(feCache, r, "clothos", TableClothos(r))
           later == r + FinalityDelay
           asked == {x \in cl : /\ ~events[x].atropos
                                /\ events[x].isClotho /\ events[x].isFamous}
           famousLater == Lookup(cache1, later, "famous_witnesses", TableFamous(later))
           promoted == {x \in asked : CanBecomeAtropos(x, famousLater)}
<1>1. /\ finTodo' = finTodo \ {r}
      /\ events' = [x \in DOMAIN events |->
                       [events[x] EXCEPT !.atropos = @ \/ x \in promoted]]
      /\ rounds' = RegisterAtropos(rounds, later, promoted)
      /\ feCache' = IF asked = {} THEN cache1
                    ELSE Remember(cache1, later, "famous_witnesses", TableFamous(later))
  BY DEF FinalizeRound
<1>2. r \in DOMAIN rounds /\ TableClothos(r) = {}
  BY DEF EngineInv, FinalityTypeOK, TableClothos, Barren, NoClothoListed
<1>3. cl = {}
  <2>1. CASE Cached(feCache, r, "clothos")
    BY <2>1 DEF Lookup, Cached, EngineInv, Barren, NoClothoCached
  <2>2. CASE ~Cached(feCache, r, "clothos")
    BY <1>2, <2>2 DEF Lookup
  <2> QED BY <2>1, <2>2
<1>4. asked = {} /\ promoted = {}
  BY <1>3
<1> HIDE DEF cl, asked, famousLater, promoted
<1>5. rounds' = rounds
  BY <1>1, <1>4 DEF RegisterAtropos
<1>6. events' = events
  <2>1. events = [x \in DOMAIN events |-> events[x]] /\ \A x \in DOMAIN events : events[x] \in Event
    BY DEF EngineInv, FameInv, RoundTypeOK, PosetTypeOK, IsMap
  <2>2. ASSUME NEW x \in DOMAIN events
        PROVE  [events[x] EXCEPT !.atropos = @ \/ x \in promoted] = events[x]
    <3>1. (events[x].atropos \/ x \in promoted) = events[x].atropos
      <4>1. x \notin promoted
        BY <1>4
      <4>2. events[x].atropos \in BOOLEAN
        BY <2>1 DEF Event
      <4> QED BY <4>1, <4>2
    <3>2. [events[x] EXCEPT !.atropos = events[x].atropos] = events[x]
      BY <2>1 DEF Event
    <3> QED BY <3>1, <3>2, Zenon
  <2> QED BY <1>1, <2>1, <2>2
<1>7. feCache' = cache1
  BY <1>1, <1>4
<1>8. cache1 = feCache \/ cache1 = Put(feCache, r, [kind |-> "clothos", ids |-> {}])
  BY <1>2 DEF Remember
<1> QED BY <1>1, <1>5, <1>6, <1>7, <1>8

(* What the cache of finality holds, and what it notes of a round without a Clotho. *)
CacheEntry == [kind : {"clothos", "famous_witnesses"}, ids : SUBSET EventID]
NoClothos == [kind |-> "clothos", ids |-> {}]

LEMMA FinalityInv ==
    ASSUME EngineInv, FinalityBegin \/ FinalityVisit
    PROVE  EngineInv'
<1>1. /\ {"finality", "finalizing"} \subseteq Stage
      /\ \E from, to \in {"finality", "finalizing"} : At(from, to)
  BY DEF FinalityBegin, FinalityVisit, Stage
<1>2. QueueTypes' /\ FlagTypes' /\ blocks' = blocks /\ stage \notin {"rounds", "voting"}
  BY <1>1, AtFacts
<1>3. UNCHANGED <<roundVars, fameVars, clothos>>
  <2>1. CASE FinalityBegin
    BY <2>1 DEF FinalityBegin
  <2>2. CASE FinalityVisit
    <3>1. PICK r \in finTodo : FinalizeRound(r)
      BY <2>2 DEF FinalityVisit
    <3> QED BY <2>2, <3>1, NothingPromoted DEF FinalityVisit, roundVars, raVars
  <2> QED BY <2>1, <2>2
<1>4. FameInv' /\ VoteTypes' /\ StageLocks'
  BY <1>2, <1>3, SameFame, SameVotes DEF EngineInv, StageLocks, roundVars, fameVars
<1>5. Barren' /\ FinalityTypeOK'
  <2>1. CASE FinalityBegin
    BY <1>2, <1>3, <2>1 DEF FinalityBegin, StartFinality, EngineInv, Barren, NoClothoListed,
       NoClothoCached, NoAtropos, FinalityTypeOK, roundVars
  <2>2. CASE FinalityVisit
    <3>1. PICK r \in finTodo : FinalizeRound(r)
      BY <2>2 DEF FinalityVisit
    <3>2. /\ events' = events /\ rounds' = rounds /\ finTodo' \subseteq finTodo
          /\ \/ feCache' = feCache
             \/ feCache' = Put(feCache, r, NoClothos)
      BY <3>1, NothingPromoted DEF NoClothos
    <3>3. CASE feCache' = feCache
      BY <1>2, <3>2, <3>3, SameBarren DEF EngineInv
    <3>4. CASE feCache' = Put(feCache, r, NoClothos)
      <4>1. r \in Nat /\ IsMap(feCache, Nat, CacheEntry)
        BY DEF EngineInv, FinalityTypeOK, FameInv, RoundTypeOK, PosetTypeOK, IsMap, CacheEntry
      <4>2. /\ IsMap(feCache', Nat, CacheEntry)
            /\ DOMAIN feCache' = DOMAIN feCache \cup {r}
            /\ feCache'[r].ids = {}
            /\ \A x \in DOMAIN feCache : x # r => feCache'[x] = feCache[x]
        <5>1. NoClothos \in CacheEntry /\ NoClothos.ids = {}
          BY DEF NoClothos, CacheEntry
        <5> QED BY <3>4, <4>1, <5>1 DEF IsMap, Put
      <4>3. NoClothoCached'
        BY <4>2 DEF EngineInv, Barren, NoClothoCached
      <4>4. finTodo' \subseteq DOMAIN rounds'
        BY <3>2 DEF EngineInv, FinalityTypeOK
      <4> QED BY <1>2, <3>2, <4>2, <4>3, <4>4
              DEF EngineInv, Barren, NoClothoListed, NoAtropos, FinalityTypeOK, CacheEntry
    <3> QED BY <3>2, <3>3, <3>4
  <2> QED BY <2>1, <2>2
<1> QED BY <1>2, <1>4, <1>5 DEF EngineInv

(* The inductive invariant of the engine: passes and votes run in their    *)
(* stages, and no list that finality reads holds a Clotho.                 *)
THEOREM EngineInvariant == EngineSpec => []EngineInv
<1>1. EngineInit => EngineInv
  <2> SUFFICES ASSUME EngineInit PROVE EngineInv
    OBVIOUS
  <2>1. FameInv
    BY FameInvInit DEF EngineInit
  <2>2. /\ events = <<>> /\ rounds = <<>> /\ passing = FALSE /\ voting = FALSE
        /\ votes = <<>> /\ fvDeadlocked = FALSE /\ clothos = <<>> /\ feCache = <<>> /\ finTodo = {}
        /\ eventQueue = <<>> /\ eventCache = <<>> /\ stage = "loop" /\ blocks = 0
        /\ stopStage = "running" /\ panicked = "no"
    BY DEF EngineInit, ClothoInit, RoundInit, PosetInit, FameInit, FinalityInit
  <2>3. StageLocks /\ Barren
    BY <2>2 DEF StageLocks, Barren, NoClothoListed, NoClothoCached, NoAtropos
  <2>4. VoteTypes
    <3>1. voting \in BOOLEAN /\ fvDeadlocked \in BOOLEAN
      BY <2>2, Zenon
    <3> QED BY <2>2, <3>1, EmptyMap DEF VoteTypes
  <2>5. FinalityTypeOK
    BY <2>2, EmptyMap DEF FinalityTypeOK
  <2>6. QueueTypes
    BY <2>2, EmptyMap, CapAssumption DEF QueueTypes
  <2>7. FlagTypes
    BY <2>2 DEF FlagTypes, Stage
  <2> QED BY <2>1, <2>3, <2>4, <2>5, <2>6, <2>7 DEF EngineInv
<1>2. EngineInv /\ [EngineNext]_engineVars => EngineInv'
  <2> SUFFICES ASSUME EngineInv, [EngineNext]_engineVars PROVE EngineInv'
    OBVIOUS
  <2>1. CASE EngineNext
    BY <2>1, SubmitInv, IdleInv, CreateBlockInv, ProcessEventInv, ProcessStoreInv,
       StoreRaceInv, PassInv, FameInvStep, ClothoInv, FinalityInv
       DEF EngineNext, EventLoop, ConsensusStep
  <2>2. CASE UNCHANGED engineVars
    <3>1. UNCHANGED <<dagVars, blocks, stage>> /\ UNCHANGED engineOnly
      BY <2>2 DEF engineVars, dagVars, roundVars, fameVars, engineOnly
    <3>2. QueueTypes' /\ FlagTypes'
      BY <3>1 DEF engineOnly, EngineInv, QueueTypes, FlagTypes
    <3> QED BY <3>1, <3>2, FlagStep
  <2> QED BY <2>1, <2>2
<1> QED BY <1>1, <1>2, PTL DEF EngineSpec

(* Every variable of the engine keeps its type, and eventQueue its bound,  *)
(* whatever is submitted, however its goroutines interleave and whenever   *)
(* it is stopped (consensus.go:394-431).                                   *)
THEOREM EngineTypes == EngineSpec => []EngineTypeOK
<1>1. EngineInv => EngineTypeOK
  <2> SUFFICES ASSUME EngineInv PROVE EngineTypeOK
    OBVIOUS
  <2>1. FameTypeOK
    <3>1. famous = {} /\ decided = {}
      BY DEF EngineInv, FameInv, FameInert
    <3>2. ballot \subseteq DOMAIN events
      BY DEF EngineInv, FameInv, VoteLocked, EventsOfRound
    <3> QED BY <3>1, <3>2 DEF FameTypeOK, EngineInv, VoteTypes
  <2>2. ClothoTypeOK
    BY <2>1 DEF ClothoTypeOK, EngineInv, VoteTypes, FameInv
  <2>3. blocks \in 0..BlockCap
    BY CapAssumption DEF EngineInv, Barren
  <2> QED BY <2>2, <2>3 DEF EngineTypeOK, EngineInv, QueueTypes, FlagTypes, Stage
<1> QED BY <1>1, EngineInvariant, PTL

(* No event is ever finalised and no block ever made, for any events,      *)
(* queue and schedule, with Stop at any time (finality.go:97-104,          *)
(* finality.go:209, consensus.go:464-467), although the comments have      *)
(* Clothos become Atropos and blocks (finality.go:65, consensus.go:719).   *)
THEOREM NothingFinal == EngineSpec => []NothingFinalized
<1>1. EngineInv => NothingFinalized
  BY DEF EngineInv, Barren, NoAtropos, NothingFinalized, GetFinalizedEvents
<1> QED BY <1>1, EngineInvariant, PTL

=============================================================================
