--------------------------- MODULE ParallelProcessor ---------------------------
(***************************************************************************)
(* The ParallelProcessor of consensus.go: event workers and consensus      *)
(* workers that take work from two bounded channels and send one result    *)
(* per piece of work to a third, read by the result processor.  Callers    *)
(* that meet a full queue drop the work.  Stop clears `running` and closes *)
(* the three channels one after the other under pp.mu, which no worker     *)
(* takes: a send to a closed channel, one that was already blocked too,    *)
(* panics and ends the process.                                            *)
(*                                                                         *)
(* What a worker computes has no effect on other components, so work is an *)
(* opaque member of Events or Tasks.  The engine calls Start and Stop once.  *)
(***************************************************************************)
EXTENDS Naturals, Sequences, FiniteSets

CONSTANTS Events, Tasks,                    \* the work callers may offer, each once
          EventWorkers, ConsensusWorkers,   \* the goroutines Start creates
          EventCap, TaskCap, ResultCap,     \* capacities of the channels
          NoWork                            \* a goroutine with nothing in hand

ASSUME WorkAssumption == /\ Events \cap Tasks = {}
                         /\ EventWorkers \cap ConsensusWorkers = {}
                         /\ NoWork \notin Events \cup Tasks
ASSUME ChannelAssumption == /\ EventCap \in Nat \ {0}
                            /\ TaskCap \in Nat \ {0}
                            /\ ResultCap \in Nat \ {0}

VARIABLES running,    \* the flag, read without the lock
          stopping,   \* where Stop is
          eventQueue, consensusQueue, results,   \* the channels
          closed,     \* those Stop has closed
          pc,         \* what each worker does next
          hand,       \* the work each worker has received
          rp, rpHand, \* the same for resultProcessor
          offered,    \* what callers have offered
          dropped,    \* what met a full queue, or a worker that saw running = false
          handled,    \* the results handleResult has had, in order
          panicked    \* a send to a closed channel has killed the process

vars == <<running, stopping, eventQueue, consensusQueue, results, closed, pc, hand,
          rp, rpHand, offered, dropped, handled, panicked>>

Work == Events \cup Tasks
Workers == EventWorkers \cup ConsensusWorkers

Init == /\ running = FALSE
        /\ stopping = "no"
        /\ eventQueue = <<>> /\ consensusQueue = <<>> /\ results = <<>>
        /\ closed = {}
        /\ pc = [w \in Workers |-> "none"]
        /\ hand = [w \in Workers |-> NoWork]
        /\ rp = "none" /\ rpHand = NoWork
        /\ offered = {} /\ dropped = {} /\ handled = <<>>
        /\ panicked = FALSE

callerVars == <<eventQueue, consensusQueue, offered>>
workerVars == <<pc, hand>>
rpVars == <<rp, rpHand, handled>>
stopVars == <<running, stopping, closed>>

-----------------------------------------------------------------------------
(* Start(): the goroutines begin to receive. *)
Start == /\ ~running
         /\ stopping = "no"
         /\ running' = TRUE
         /\ pc' = [w \in Workers |-> "receive"]
         /\ rp' = "receive"
         /\ UNCHANGED <<stopping, closed, hand, rpHand, handled, callerVars, results,
                        dropped, panicked>>

(* AddEvent(): drop when the queue is full, panic when it is closed. *)
AddEvent(e) ==
    /\ ~panicked
    /\ e \notin offered
    /\ offered' = offered \cup {e}
    /\ panicked' = ("events" \in closed)
    /\ IF Len(eventQueue) < EventCap /\ "events" \notin closed
       THEN eventQueue' = Append(eventQueue, e) /\ UNCHANGED dropped
       ELSE dropped' = dropped \cup {e} /\ UNCHANGED eventQueue
    /\ UNCHANGED <<stopVars, workerVars, rpVars, consensusQueue, results>>

(* AddConsensusTask(). *)
AddConsensusTask(t) ==
    /\ ~panicked
    /\ t \notin offered
    /\ offered' = offered \cup {t}
    /\ panicked' = ("tasks" \in closed)
    /\ IF Len(consensusQueue) < TaskCap /\ "tasks" \notin closed
       THEN consensusQueue' = Append(consensusQueue, t) /\ UNCHANGED dropped
       ELSE dropped' = dropped \cup {t} /\ UNCHANGED consensusQueue
    /\ UNCHANGED <<stopVars, workerVars, rpVars, eventQueue, results>>

-----------------------------------------------------------------------------
(* A worker takes the head of queue q, or leaves when the channel is       *)
(* closed and empty.                                                       *)
Take(w, q, channel) ==
    /\ ~panicked
    /\ pc[w] = "receive"
    /\ \/ /\ q # <<>>
          /\ q' = Tail(q)
          /\ hand' = [hand EXCEPT ![w] = Head(q)]
          /\ pc' = [pc EXCEPT ![w] = "check"]
       \/ /\ q = <<>> /\ channel \in closed
          /\ pc' = [pc EXCEPT ![w] = "gone"]
          /\ UNCHANGED <<q, hand>>
    /\ UNCHANGED <<stopVars, rpVars, results, offered, dropped, panicked>>

(* for ... range of eventWorker and of consensusWorker. *)
EventReceive(w) == Take(w, eventQueue, "events") /\ UNCHANGED consensusQueue
TaskReceive(w) == Take(w, consensusQueue, "tasks") /\ UNCHANGED eventQueue

(* if !pp.running { break }; otherwise the work is done. *)
Check(w) ==
    /\ ~panicked
    /\ pc[w] = "check"
    /\ IF running
       THEN pc' = [pc EXCEPT ![w] = "send"] /\ UNCHANGED <<hand, dropped>>
       ELSE /\ pc' = [pc EXCEPT ![w] = "gone"]
            /\ hand' = [hand EXCEPT ![w] = NoWork]
            /\ dropped' = dropped \cup {hand[w]}
    /\ UNCHANGED <<stopVars, rpVars, callerVars, results, panicked>>

(* Mutant: the send gives up when the result channel is full, as the       *)
(* callers' sends do.                                                      *)
SendResultOrSkip(w) ==
    /\ ~panicked
    /\ pc[w] = "send"
    /\ panicked' = ("results" \in closed)
    /\ results' = IF "results" \notin closed /\ Len(results) < ResultCap
                  THEN Append(results, hand[w]) ELSE results
    /\ pc' = [pc EXCEPT ![w] = "receive"]
    /\ hand' = [hand EXCEPT ![w] = NoWork]
    /\ UNCHANGED <<stopVars, rpVars, callerVars, dropped>>

(* pp.results <- ...: blocks while the channel is full, panics when it is  *)
(* closed.                                                                 *)
SendResult(w) ==
    /\ ~panicked
    /\ pc[w] = "send"
    /\ \/ /\ "results" \in closed
          /\ panicked' = TRUE
          /\ UNCHANGED <<results, workerVars>>
       \/ /\ "results" \notin closed
          /\ Len(results) < ResultCap
          /\ results' = Append(results, hand[w])
          /\ pc' = [pc EXCEPT ![w] = "receive"]
          /\ hand' = [hand EXCEPT ![w] = NoWork]
          /\ UNCHANGED panicked
    /\ UNCHANGED <<stopVars, rpVars, callerVars, dropped>>

WorkerStep(w) == \/ w \in EventWorkers /\ EventReceive(w)
                 \/ w \in ConsensusWorkers /\ TaskReceive(w)
                 \/ Check(w)
                 \/ SendResult(w)

(* Mutant: leave as soon as the channel is empty. *)
ResultReceiveOnce ==
    /\ ~panicked
    /\ rp = "receive"
    /\ \/ /\ results # <<>>
          /\ results' = Tail(results)
          /\ rpHand' = Head(results)
          /\ rp' = "check"
       \/ results = <<>> /\ rp' = "gone" /\ UNCHANGED <<results, rpHand>>
    /\ UNCHANGED <<stopVars, workerVars, callerVars, handled, dropped, panicked>>

(* Mutant: a plain receive, which a closed channel answers with nothing. *)
ResultReceiveUnranged ==
    /\ ~panicked
    /\ rp = "receive"
    /\ rp' = "check"
    /\ \/ results # <<>> /\ results' = Tail(results) /\ rpHand' = Head(results)
       \/ results = <<>> /\ "results" \in closed /\ UNCHANGED <<results, rpHand>>
    /\ UNCHANGED <<stopVars, workerVars, callerVars, handled, dropped, panicked>>

(* for ... range pp.results. *)
ResultReceive ==
    /\ ~panicked
    /\ rp = "receive"
    /\ \/ /\ results # <<>>
          /\ results' = Tail(results)
          /\ rpHand' = Head(results)
          /\ rp' = "check"
       \/ /\ results = <<>> /\ "results" \in closed
          /\ rp' = "gone"
          /\ UNCHANGED <<results, rpHand>>
    /\ UNCHANGED <<stopVars, workerVars, callerVars, handled, dropped, panicked>>

(* if !pp.running { break }; handleResult(). *)
HandleResult ==
    /\ ~panicked
    /\ rp = "check"
    /\ rpHand' = NoWork
    /\ IF running
       THEN rp' = "receive" /\ handled' = Append(handled, rpHand) /\ UNCHANGED dropped
       ELSE rp' = "gone" /\ dropped' = dropped \cup {rpHand} /\ UNCHANGED handled
    /\ UNCHANGED <<stopVars, workerVars, callerVars, results, panicked>>

ResultStep == ResultReceive \/ HandleResult

-----------------------------------------------------------------------------
(* Stop(): running = false, then close each channel. *)
StopStep(from, to, channels) ==
    /\ ~panicked
    /\ stopping = from
    /\ stopping' = to
    /\ closed' = closed \cup channels
    /\ UNCHANGED <<callerVars, workerVars, rpVars, results, dropped, panicked>>

(* Mutant: the consensus queue is never closed. *)
StopLeavingTasks ==
    \/ running /\ running' = FALSE /\ StopStep("no", "flag", {})
    \/ StopStep("flag", "tasks", {"events"}) /\ UNCHANGED running
    \/ StopStep("tasks", "done", {"results"}) /\ UNCHANGED running

Stop == \/ running /\ running' = FALSE /\ StopStep("no", "flag", {})
        \/ StopStep("flag", "events", {"events"}) /\ UNCHANGED running
        \/ StopStep("events", "tasks", {"tasks"}) /\ UNCHANGED running
        \/ StopStep("tasks", "done", {"results"}) /\ UNCHANGED running

Next == \/ Start
        \/ \E e \in Events : AddEvent(e)
        \/ \E t \in Tasks : AddConsensusTask(t)
        \/ \E w \in Workers : WorkerStep(w)
        \/ ResultStep
        \/ Stop

Spec == Init /\ [][Next]_vars

(* Goroutines that can run do run; Go serves the senders blocked on a      *)
(* channel in the order they came, so none of them is passed over for      *)
(* ever.  A Stop that has begun goes on.                                   *)
FairSpec == /\ Spec
            /\ \A w \in Workers : WF_vars(WorkerStep(w)) /\ SF_vars(SendResult(w))
            /\ WF_vars(ResultStep)
            /\ WF_vars(Stop /\ stopping # "no")

-----------------------------------------------------------------------------
(* Types: every channel holds work of its kind within its capacity, and    *)
(* what a goroutine has received is work (consensus.go:950-1005).          *)
TypeOK ==
    /\ running \in BOOLEAN
    /\ stopping \in {"no", "flag", "events", "tasks", "done"}
    /\ eventQueue \in Seq(Events) /\ Len(eventQueue) <= EventCap
    /\ consensusQueue \in Seq(Tasks) /\ Len(consensusQueue) <= TaskCap
    /\ results \in Seq(Work) /\ Len(results) <= ResultCap
    /\ closed \subseteq {"events", "tasks", "results"}
    /\ pc \in [Workers -> {"none", "receive", "check", "send", "gone"}]
    /\ hand \in [Workers -> Work \cup {NoWork}]
    /\ rp \in {"none", "receive", "check", "gone"}
    /\ rpHand \in Work \cup {NoWork}
    /\ offered \subseteq Work /\ dropped \subseteq Work
    /\ handled \in Seq(Work)
    /\ panicked \in BOOLEAN

Copies(s, x) == Cardinality({i \in DOMAIN s : s[i] = x})
One(b) == IF b THEN 1 ELSE 0

(* Work is neither lost nor done twice: every piece offered is in exactly  *)
(* one place, a queue, a worker's hand, the result channel, the result     *)
(* processor's hand, handled or dropped (consensus.go:950-1005).           *)
WorkConserved ==
    \A x \in Work :
        Copies(eventQueue, x) + Copies(consensusQueue, x) + Copies(results, x)
          + Copies(handled, x) + Cardinality({w \in Workers : hand[w] = x})
          + One(rpHand = x) + One(x \in dropped)
            = One(x \in offered)

(* Work a queue has accepted is handled unless the processor is stopped or *)
(* was never started: workers blocked on a full result channel never hold  *)
(* each other up (consensus.go:962, consensus.go:996).                     *)
AcceptedIsHandled ==
    \A x \in Work :
        (running /\ x \in offered \ dropped)
            ~> (stopping # "no" \/ \E i \in DOMAIN handled : handled[i] = x)

(* Once Stop has begun, every goroutine ends, by leaving its loop or by    *)
(* the panic of one of them (consensus.go:917-929).                        *)
StopTerminates ==
    stopping # "no" ~> panicked \/ (rp = "gone" /\ \A w \in Workers : pc[w] = "gone")

=============================================================================
