------------------------------ MODULE Blockchain ------------------------------
(***************************************************************************)
(* The Blockchain of blockchain.go and the writing methods of the DAG of   *)
(* dag.go that it reads.  The DAG shares its event map with the poset,     *)
(* which stores events under a lock of its own (module Poset), and         *)
(* finality marks events as Atropos (module FinalityEngine): both are      *)
(* steps of the surroundings here.                                         *)
(*                                                                         *)
(* AddBlock holds bc.mu and asks for the latest number under bc.mu again,  *)
(* DAG.AddEvent holds d.mu and assigns the round under d.mu again; what    *)
(* follows is kept behind the test whether the lock can be had.            *)
(***************************************************************************)
EXTENDS Goroutines, GoMap

CONSTANTS Event,       \* event IDs
          Body,        \* what two events with the same ID may differ in
          TimeWindow   \* AtroposTime / 1000 of an event

ASSUME WindowAssumption == TimeWindow \in [Event -> Nat]

VARIABLES dag,      \* d.Events: event ID -> the event's body
          direct,   \* the events that DAG.AddEvent has stored
          rounded,  \* the events AssignRound has got to
          atropos,  \* the events with Atropos set
          blocks,   \* bc.blocks
          latest,   \* the block bc.latest names, or Genesis
          scan,     \* events ProcessAtroposEvents still has to look at
          batch,    \* the Atropos events it has collected and not yet blocked
          draft     \* the block it is building

chainVars == <<dag, direct, rounded, atropos, blocks, latest, scan, batch, draft>>

Genesis == [number |-> 0, events |-> {}]
NoDraft == [number |-> 0, parent |-> Genesis, events |-> {}]

ChainOps == {"ProcessAtroposEvents", "GetBlockStats", "AddEvent"}

ChainInit == /\ dag = <<>> /\ direct = {} /\ rounded = {} /\ atropos = {}
             /\ blocks = {}
             /\ latest = Genesis
             /\ scan = [g \in Caller |-> {}]
             /\ batch = [g \in Caller |-> {}]
             /\ draft = [g \in Caller |-> NoDraft]

CallChain(g) ==
    /\ \/ Begin(g, "ProcessAtroposEvents", "rlock")
       \/ Begin(g, "GetBlockStats", "rlock")
       \/ Begin(g, "AddEvent", "lock")
    /\ UNCHANGED chainVars

(* The poset stores an event, finality makes one an Atropos. *)
PosetStores(e, b) == /\ e \notin DOMAIN dag
                     /\ dag' = Put(dag, e, b)
                     /\ UNCHANGED <<direct, rounded, atropos, blocks, latest, scan, batch, draft>>
FinalityMarks(e) == /\ e \in DOMAIN dag \ atropos
                    /\ atropos' = atropos \cup {e}
                    /\ UNCHANGED <<dag, direct, rounded, blocks, latest, scan, batch, draft>>

-----------------------------------------------------------------------------
LockDag(g) == /\ call[g].op = "AddEvent"
              /\ TakeLock(g, "dag")
              /\ UNCHANGED chainVars

(* DAG.AddEvent, and DAG.CreateAndAddEvent, which makes the event first:   *)
(* an error for an event that is there; a new one is stored, and then      *)
(* AssignRound asks GetParents, which locks for reading.                   *)
AddEvent(g) ==
    /\ In(g, "AddEvent", "body")
    /\ \E e \in Event, b \in Body :
          IF e \in DOMAIN dag
          THEN Finish(g, "dag") /\ UNCHANGED <<dag, direct, rounded>>
          ELSE /\ dag' = Put(dag, e, b)
               /\ direct' = direct \cup {e}
               /\ IF CanRLock(mu["dag"])
                  THEN rounded' = rounded \cup {e} /\ Finish(g, "dag")
                  ELSE Hang(g) /\ UNCHANGED rounded
    /\ UNCHANGED <<atropos, blocks, latest, scan, batch, draft>>

-----------------------------------------------------------------------------
(* ProcessAtroposEvents: lock the DAG for reading ... *)
ScanDag(g) ==
    /\ In(g, "ProcessAtroposEvents", "rlock")
    /\ TakeRLock(g, "dag")
    /\ scan' = [scan EXCEPT ![g] = DOMAIN dag]
    /\ batch' = [batch EXCEPT ![g] = {}]
    /\ GoTo(g, "collect")
    /\ UNCHANGED <<calls, died, dag, direct, rounded, atropos, blocks, latest, draft>>

IsEventInBlock(e) == \E b \in blocks : e \in b.events

(* ... visit its events; for an Atropos, isEventInBlock locks bc.mu ... *)
Collect(g, e) ==
    /\ In(g, "ProcessAtroposEvents", "collect")
    /\ e \in scan[g]
    /\ scan' = [scan EXCEPT ![g] = @ \ {e}]
    /\ \/ e \notin atropos /\ UNCHANGED batch
       \/ /\ e \in atropos
          /\ CanRLock(mu["chain"])
          /\ batch' = [batch EXCEPT ![g] = IF IsEventInBlock(e) THEN @ ELSE @ \cup {e}]
    /\ UNCHANGED <<goVars, dag, direct, rounded, atropos, blocks, latest, draft>>

(* ... and unlock the DAG. *)
ScanEnds(g) ==
    /\ In(g, "ProcessAtroposEvents", "collect")
    /\ scan[g] = {}
    /\ DropRLock(g, "dag")
    /\ IF batch[g] = {} THEN Return(g) ELSE GoTo(g, "build")
    /\ UNCHANGED <<calls, died, chainVars>>

(* groupAtroposEventsByTime: the groups, handled in any order. *)
Groups(S) == {{e \in S : TimeWindow[e] = TimeWindow[f]} : f \in S}

(* CreateBlock for one group: the number under the read lock ... *)
CreateBlock(g) ==
    /\ In(g, "ProcessAtroposEvents", "build")
    /\ CanRLock(mu["chain"])
    /\ \E group \in Groups(batch[g]) :
          draft' = [draft EXCEPT ![g] = [number |-> latest.number + 1,
                                         parent |-> Genesis, events |-> group]]
    /\ GoTo(g, "parent")
    /\ UNCHANGED <<mu, calls, died, dag, direct, rounded, atropos, blocks, latest, scan, batch>>

(* ... the parent without; signing may fail. *)
SignBlock(g) ==
    /\ In(g, "ProcessAtroposEvents", "parent")
    /\ \/ Return(g) /\ UNCHANGED draft
       \/ GoTo(g, "lock") /\ draft' = [draft EXCEPT ![g].parent = latest]
    /\ UNCHANGED <<mu, calls, died, dag, direct, rounded, atropos, blocks, latest, scan, batch>>

LockChain(g) == /\ call[g].op = "ProcessAtroposEvents"
                /\ TakeLock(g, "chain")
                /\ UNCHANGED chainVars

(* AddBlock.  Past GetLatestBlockNumber: an error for a wrong number or    *)
(* parent, or from the EVM; updateStateDB calls StateDB.SetBalance for a   *)
(* sender who can pay, which hangs by itself (module StateDB); else the    *)
(* block joins the chain, and ProcessAtroposEvents goes on with the next   *)
(* group or returns.                                                       *)
AddBlock(g) ==
    LET b == [number |-> draft[g].number, events |-> draft[g].events]
        rest == batch[g] \ b.events
        linked == b.number = latest.number + 1 /\ draft[g].parent = latest IN
    /\ In(g, "ProcessAtroposEvents", "body")
    /\ IF ~CanRLock(mu["chain"])
       THEN Hang(g) /\ UNCHANGED <<blocks, latest, batch>>
       ELSE \E outcome \in {"error", "hung", "added"} :
               /\ ~linked => outcome = "error"
               /\ IF outcome = "added"
                  THEN blocks' = blocks \cup {b} /\ latest' = b /\ batch' = [batch EXCEPT ![g] = rest]
                  ELSE UNCHANGED <<blocks, latest, batch>>
               /\ mu' = IF outcome = "hung" THEN mu ELSE [mu EXCEPT !["chain"] = Released(@)]
               /\ IF outcome = "hung" THEN GoTo(g, "stuck")
                  ELSE IF outcome = "added" /\ rest # {} THEN GoTo(g, "build")
                  ELSE Return(g)
               /\ UNCHANGED <<calls, died>>
    /\ UNCHANGED <<dag, direct, rounded, atropos, scan, draft>>

-----------------------------------------------------------------------------
(* GetBlockStats: read lock, then GetLatestBlockNumber and GetLatestBlock  *)
(* under another, which a waiting AddBlock keeps out.                      *)
StatsLock(g) ==
    /\ In(g, "GetBlockStats", "rlock")
    /\ TakeRLock(g, "chain")
    /\ GoTo(g, "nested")
    /\ UNCHANGED <<calls, died, chainVars>>

StatsNested(g) ==
    /\ In(g, "GetBlockStats", "nested")
    /\ CanRLock(mu["chain"])
    /\ DropRLock(g, "chain")
    /\ Return(g)
    /\ UNCHANGED <<calls, died, chainVars>>

ChainStep(g) == \/ LockDag(g) \/ AddEvent(g)
                \/ ScanDag(g) \/ (\E e \in Event : Collect(g, e)) \/ ScanEnds(g)
                \/ CreateBlock(g) \/ SignBlock(g) \/ LockChain(g) \/ AddBlock(g)
                \/ StatsLock(g) \/ StatsNested(g)

-----------------------------------------------------------------------------
ChainTypeOK ==
    /\ DOMAIN dag \subseteq Event /\ dag \in [DOMAIN dag -> Body]
    /\ direct \subseteq Event /\ rounded \subseteq Event /\ atropos \subseteq Event
    /\ blocks \subseteq [number : Nat, events : SUBSET Event]
    /\ latest \in [number : Nat, events : SUBSET Event]
    /\ scan \in [Caller -> SUBSET Event]
    /\ batch \in [Caller -> SUBSET Event]
    /\ draft \in [Caller -> [number : Nat, parent : [number : Nat, events : SUBSET Event],
                             events : SUBSET Event]]

(* No block joins the chain and no round is assigned through the DAG.      *)
(* Atropos events are said to become blocks (doc.txt:41,                   *)
(* blockchain.go:289) and DAG.AddEvent to assign a round (dag.go:34-35);   *)
(* each waits for the lock it holds (blockchain.go:191, dag.go:125).       *)
ChainStaysEmpty == blocks = {} /\ latest = Genesis /\ rounded = {}

=============================================================================
