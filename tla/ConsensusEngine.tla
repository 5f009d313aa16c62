---------------------------- MODULE ConsensusEngine ----------------------------
(***************************************************************************)
(* The ConsensusEngine of consensus.go: three goroutines and the callers   *)
(* of AddEvent and Stop.                                                   *)
(*   - processEvents takes events from eventQueue and stores them;         *)
(*   - consensusLoop calls runConsensus, which on its first tick runs      *)
(*     round assignment, fame voting, clotho selection and finality, each  *)
(*     under ce.mu, and then calls createBlocks, a loop without exit;      *)
(*   - a second createBlocks, started by Start.                            *)
(* The parallel processor (ParallelProcessor) only matters here through    *)
(* its channels: a send to one that Stop has closed panics.  Gossip leaves *)
(* the engine's state alone.  The event cache is below its limit here; a   *)
(* full one is the subject of CacheManager.                                *)
(***************************************************************************)
EXTENDS FinalityEngine, Sequences

CONSTANTS QueueCap,   \* capacity of eventQueue
          BlockCap    \* capacity of blockQueue

ASSUME CapAssumption == QueueCap \in Nat \ {0} /\ BlockCap \in Nat

VARIABLES eventQueue,   \* the events accepted by AddEvent
          eventCache,   \* cacheManager.eventCache: EventID -> event
          stage,        \* where the consensus goroutine is
          blocks,       \* length of blockQueue; nothing receives from it
          stopStage,    \* how far Stop has got
          panicked      \* who died of a send to a closed channel

engineOnly == <<eventQueue, eventCache, stage, blocks, stopStage, panicked>>
dagVars == <<roundVars, fameVars, clothos, feCache, finTodo>>
engineVars == <<events, heads, rounds, lastRound, storing, storeStep,
                passing, todo, visiting, visitStep, crashed,
                votes, famous, decided, ballot, voting, voteRound, fvDeadlocked,
                clothos, feCache, finTodo,
                eventQueue, eventCache, stage, blocks, stopStage, panicked>>

EngineInit == /\ ClothoInit
              /\ FinalityInit
              /\ eventQueue = <<>>
              /\ eventCache = <<>>
              /\ stage = "loop"
              /\ blocks = 0
              /\ stopStage = "running"
              /\ panicked = "no"

Alive == ~crashed /\ panicked = "no"
ChannelsClosed == stopStage \in {"processorStopped", "stopped"}

(* currentRound: nothing ever assigns it. *)
CurrentRound == 0

ASSUME CurrentRoundAssumption == CurrentRound \in VoteRounds

-----------------------------------------------------------------------------
(* AddEvent(h): the parallel processor's queue first (a full one drops the *)
(* event, a closed one panics), then eventQueue; an error when it is full. *)
Submit(h) ==
    /\ Alive
    /\ \/ /\ ChannelsClosed
          /\ panicked' = "submitter"
          /\ UNCHANGED eventQueue
       \/ /\ ~ChannelsClosed
          /\ Len(eventQueue) < QueueCap
          /\ eventQueue' = Append(eventQueue, h)
          /\ UNCHANGED panicked
    /\ UNCHANGED <<dagVars, eventCache, stage, blocks, stopStage>>

(* The event processEvents goes on with: the cached one under this ID. *)
FromCache(h) == IF Hash(h) \in DOMAIN eventCache THEN eventCache[Hash(h)] ELSE h

(* Mutant: leave the loop when the context is cancelled. *)
ProcessEventUntilStop ==
    /\ Alive
    /\ stopStage = "running"
    /\ storeStep = "idle"
    /\ eventQueue # <<>>
    /\ LET h == FromCache(Head(eventQueue)) IN
       /\ eventQueue' = Tail(eventQueue)
       /\ eventCache' = Put(eventCache, Hash(h), h)
       /\ IF Hash(h) \in DOMAIN events THEN UNCHANGED roundVars ELSE Store(h)
    /\ UNCHANGED <<fameVars, clothos, feCache, finTodo, stage, blocks, stopStage, panicked>>

(* processEvents takes the next event: cache, duplicate check and the      *)
(* beginning of Poset.AddEvent.                                            *)
ProcessEvent ==
    /\ Alive
    /\ storeStep = "idle"
    /\ eventQueue # <<>>
    /\ LET h == FromCache(Head(eventQueue)) IN
       /\ eventQueue' = Tail(eventQueue)
       /\ eventCache' = Put(eventCache, Hash(h), h)
       /\ IF Hash(h) \in DOMAIN events THEN UNCHANGED roundVars ELSE Store(h)
    /\ UNCHANGED <<fameVars, clothos, feCache, finTodo, stage, blocks, stopStage, panicked>>

(* Poset.AddEvent goes on; a range of FinalizeEvents may meet the round it *)
(* creates.                                                                *)
ProcessStore ==
    /\ Alive
    /\ StoreGoesOn
    /\ RangeMayMeet(stage = "finalizing")
    /\ UNCHANGED <<fameVars, clothos, feCache, engineOnly>>

EventLoop == ProcessEvent \/ ProcessStore

(* The write of a new event, or of the round table, meets one of the       *)
(* goroutines that use these maps without p.mu: the runtime may kill the   *)
(* process.                                                                *)
StoreRace ==
    /\ Alive
    /\ \/ /\ storeStep = "idle"
          /\ eventQueue # <<>>
          /\ Hash(Head(eventQueue)) \notin DOMAIN events
       \/ storeStep # "idle" /\ (visitStep # "idle" \/ stage = "finalizing")
    /\ crashed' = TRUE
    /\ UNCHANGED <<posetVars, passing, todo, visiting, visitStep,
                   fameVars, clothos, feCache, finTodo, engineOnly>>

-----------------------------------------------------------------------------
(* The consensus goroutine.  At moves it to another stage. *)
At(from, to) == /\ Alive
                /\ stage = from
                /\ stage' = to
                /\ UNCHANGED <<eventQueue, eventCache, blocks, stopStage, panicked>>

(* consensusLoop's ticker: enter runConsensus. *)
LoopTick == At("loop", "select") /\ UNCHANGED dagVars

(* runConsensus sees ctx.Done and returns to consensusLoop, which never    *)
(* looks at the context.                                                   *)
SelectDone == /\ stopStage # "running"
              /\ At("select", "loop")
              /\ UNCHANGED dagVars

(* runConsensus' ticker: runRoundAssignment starts. *)
SelectTick == /\ At("select", "rounds")
              /\ StartPass
              /\ UNCHANGED <<fameVars, clothos, feCache, finTodo>>

RoundsVisit == /\ At("rounds", "rounds")
               /\ (\E id \in todo : Visit(id)) \/ VisitGoesOn
               /\ UNCHANGED <<fameVars, clothos, feCache, finTodo>>

RoundsDone == /\ At("rounds", "fame")
              /\ EndPass
              /\ UNCHANGED <<fameVars, clothos, feCache, finTodo>>

(* runFameVoting: AddConsensusTask, then StartFameVoting(currentRound),    *)
(* which may return at once.                                               *)
FameBegin == /\ ~ChannelsClosed
             /\ \/ At("fame", "voting") /\ BeginVoting(CurrentRound)
                \/ /\ At("fame", "clotho")
                   /\ CurrentRound \in decided \/ GetWitnesses(CurrentRound) = {}
                   /\ UNCHANGED <<roundVars, fameVars>>
             /\ UNCHANGED <<clothos, feCache, finTodo>>

FameVote == /\ At("voting", "voting")
            /\ \E w \in ballot : VoteFor(w)
            /\ UNCHANGED <<clothos, feCache, finTodo>>

FameDone == /\ At("voting", "clotho")
            /\ EndVoting
            /\ UNCHANGED <<clothos, feCache, finTodo>>

(* runClothoSelection; SelectClothos may return without a selection. *)
Clotho == /\ ~ChannelsClosed
          /\ At("clotho", "finality")
          /\ \/ SelectClothos(CurrentRound)
             \/ /\ \/ CurrentRound \in DOMAIN clothos
                   \/ FamousWitnesses(CurrentRound) \subseteq {{}}
                /\ UNCHANGED <<roundVars, fameVars, clothos>>
          /\ UNCHANGED <<feCache, finTodo>>

FinalityBegin == /\ ~ChannelsClosed
                 /\ At("finality", "finalizing")
                 /\ StartFinality
                 /\ UNCHANGED <<roundVars, fameVars, clothos, feCache>>

FinalityVisit == /\ At("finalizing", "finalizing")
                 /\ \E r \in finTodo : FinalizeRound(r)
                 /\ UNCHANGED <<heads, lastRound, storing, storeStep, raVars, fameVars, clothos>>

(* runConsensus calls createBlocks and never comes back. *)
FinalityDone == /\ At("finalizing", "blocks")
                /\ finTodo = {}
                /\ UNCHANGED dagVars

(* AddConsensusTask sends to the channel Stop has closed. *)
TaskPanic == /\ Alive
             /\ ChannelsClosed
             /\ stage \in {"fame", "clotho", "finality"}
             /\ panicked' = "consensus"
             /\ UNCHANGED <<dagVars, eventQueue, eventCache, stage, blocks, stopStage>>

(* Work has been handed to the parallel processor. *)
WorkSubmitted == \/ eventQueue # <<>> \/ DOMAIN eventCache # {}
                 \/ stage \in {"voting", "clotho", "finality", "finalizing", "blocks"}

(* A worker that still holds work sends its result to the closed channel.  *)
WorkerPanic == /\ Alive
               /\ ChannelsClosed
               /\ WorkSubmitted
               /\ panicked' = "worker"
               /\ UNCHANGED <<dagVars, eventQueue, eventCache, stage, blocks, stopStage>>

ConsensusStep == \/ LoopTick \/ SelectDone \/ SelectTick
                 \/ RoundsVisit \/ RoundsDone
                 \/ FameBegin \/ FameVote \/ FameDone
                 \/ Clotho
                 \/ FinalityBegin \/ FinalityVisit \/ FinalityDone
                 \/ TaskPanic

-----------------------------------------------------------------------------
(* createBlock(), in either createBlocks loop, under ce.mu: at most one     *)
(* block per finalised event (they are grouped by time), dropped when      *)
(* blockQueue is full; a block sent after Stop panics.                     *)
CreateBlock ==
    /\ Alive
    /\ stage \notin {"rounds", "voting", "finalizing"}
    /\ \E n \in 0..Cardinality(GetFinalizedEvents) :
          /\ blocks' = IF blocks + n > BlockCap THEN BlockCap ELSE blocks + n
          /\ panicked' = IF n > 0 /\ stopStage = "stopped" THEN "blocks" ELSE "no"
    /\ UNCHANGED <<dagVars, eventQueue, eventCache, stage, stopStage>>

(* Stop(): cancel the context, stop the parallel processor (which closes   *)
(* its channels), close eventQueue and blockQueue.                         *)
StopStep(from, to) == /\ Alive
                      /\ stopStage = from
                      /\ stopStage' = to
                      /\ UNCHANGED <<dagVars, eventQueue, eventCache, stage, blocks, panicked>>
Stop == \/ StopStep("running", "cancelled")
        \/ StopStep("cancelled", "processorStopped")
        \/ StopStep("processorStopped", "stopped")

EngineNext == \/ \E h \in Headers : Submit(h)
              \/ EventLoop
              \/ StoreRace
              \/ ConsensusStep
              \/ CreateBlock
              \/ WorkerPanic
              \/ Stop

EngineSpec == EngineInit /\ [][EngineNext]_engineVars

(* The Go scheduler runs every goroutine that can run. *)
EngineFairSpec == /\ EngineSpec
                  /\ WF_engineVars(EventLoop)
                  /\ WF_engineVars(ConsensusStep)

(* An engine that is never stopped. *)
RunningNext == \/ \E h \in Headers : Submit(h)
               \/ EventLoop
               \/ ConsensusStep
               \/ CreateBlock
RunningSpec == /\ EngineInit
               /\ [][RunningNext]_engineVars
               /\ WF_engineVars(EventLoop)
               /\ WF_engineVars(ConsensusStep)

-----------------------------------------------------------------------------
(* Types of the engine's state: a pass ranges over stored events, finality *)
(* over rounds of the table, the queues stay within their capacities       *)
(* (consensus.go:399-451, consensus.go:656, finality.go:68).               *)
EngineTypeOK ==
    /\ ClothoTypeOK
    /\ FinalityTypeOK
    /\ eventQueue \in Seq(Headers) /\ Len(eventQueue) <= QueueCap
    /\ IsMap(eventCache, EventID, Headers)
    /\ stage \in {"loop", "select", "rounds", "fame", "voting", "clotho",
                  "finality", "finalizing", "blocks"}
    /\ blocks \in 0..BlockCap
    /\ stopStage \in {"running", "cancelled", "processorStopped", "stopped"}
    /\ panicked \in {"no", "submitter", "consensus", "worker", "blocks"}

(* No event is ever finalised and no block ever made, under any schedule   *)
(* and for any events: nothing upstream marks a Clotho or a famous witness *)
(* in the fields that finality reads (finality.go:97-104, finality.go:209, *)
(* consensus.go:464-467).  The code departs from its comments here, which  *)
(* have Clothos become Atropos (finality.go:65, consensus.go:719).         *)
NothingFinalized == GetFinalizedEvents = {} /\ blocks = 0

(* An accepted event is stored, unless the process dies first: Stop closes *)
(* eventQueue and processEvents still drains it (consensus.go:394,         *)
(* consensus.go:414).                                                      *)
AcceptedIsStored ==
    \A id \in EventID :
        (\E i \in DOMAIN eventQueue : Hash(eventQueue[i]) = id)
            ~> (id \in DOMAIN events \/ ~Alive)

(* Unless the engine is stopped or dies, the consensus pass completes: the *)
(* four stages take ce.mu, fv.mu and cs.mu and none of them waits for ever *)
(* (consensus.go:641-644).                                                 *)
FirstPassCompletes == <>(stage = "blocks" \/ stopStage # "running" \/ ~Alive)

(* "Graceful shutdown" (consensus.go:384): the consensus goroutine         *)
(* survives Stop.                                                          *)
StopIsGraceful == panicked # "consensus"

(* "every 100ms like Fantom" (consensus.go:632): the consensus stages run  *)
(* again and again.                                                        *)
ConsensusKeepsRunning == []<>(stage = "rounds")

=============================================================================
