--------------------------------- MODULE Poset ---------------------------------
(***************************************************************************)
(* The Poset of poset.go: the store every accepted event goes into.        *)
(* AddEvent runs under p.mu, one event at a time.  It derives a round from *)
(* the event's Lamport time and registers the event in the round table as  *)
(* witness and as root; the stages it calls next (fame voting, clotho      *)
(* selection, finalisation, block creation) have empty bodies in this file *)
(* and change nothing.                                                     *)
(*                                                                         *)
(* The table is shared with RoundAssignment, which writes other rounds,    *)
(* computed from the parents, into the same entries and does not take      *)
(* p.mu.  AddEvent is therefore split at its accesses to the table: the    *)
(* test for the round's entry, its creation, the witness, the root.        *)
(***************************************************************************)
EXTENDS EventDag

CONSTANTS BlockMs,   \* Config.BlockTime in milliseconds
          NoEvent    \* no event is being registered

ASSUME BlockMsAssumption == BlockMs \in Nat \ {0}

ASSUME NoEventAssumption == NoEvent \notin EventID

VARIABLES events,     \* Events: EventID -> event
          heads,      \* Heads: CreatorID -> EventID of the last one that arrived
          rounds,     \* Rounds: round number -> RoundInfo
          lastRound,  \* LastRound
          storing,    \* the event AddEvent is registering, or NoEvent
          storeStep   \* what AddEvent does next to the table, or "idle"

posetVars == <<events, heads, rounds, lastRound, storing, storeStep>>

PosetInit == /\ events = <<>>
             /\ heads = <<>>
             /\ rounds = <<>>
             /\ lastRound = 0
             /\ storing = NoEvent
             /\ storeStep = "idle"

-----------------------------------------------------------------------------
(* The round updateRoundAssignment gives an event. *)
LamportRound(lamport) == lamport \div BlockMs

(* isWitness(): no stored event of this creator and round is earlier. *)
IsWitness(evs, h, r) ==
    \A x \in DOMAIN evs :
        /\ evs[x].creator = h.creator
        /\ LamportRound(evs[x].lamport) = r
        => evs[x].lamport >= h.lamport

(* Mutant: one witness more than the majority is asked for. *)
IsRootStrict(evs, ri, id) ==
    Cardinality({w \in ri.witnesses : IsAncestor(evs, w, id)})
        > Cardinality(ri.witnesses) \div 2 + 1

(* isRoot(): the event descends from more than half of the witnesses       *)
(* registered in its round so far.                                         *)
IsRoot(evs, ri, id) ==
    Cardinality({w \in ri.witnesses : IsAncestor(evs, w, id)})
        > Cardinality(ri.witnesses) \div 2

(* Whoever registers an event in round r first looks for the entry of the  *)
(* round.  One that has found none creates it in its next step, whatever   *)
(* is there by then.                                                       *)
FirstStep(r) == IF r \in DOMAIN rounds THEN "witness" ELSE "create"

(* Mutant: store without looking for an event under the same ID. *)
AddEventOverwrite(h) ==
    /\ storeStep = "idle"
    /\ events' = Put(events, Hash(h), NewEvent(h))
    /\ heads' = Put(heads, h.creator, Hash(h))
    /\ storing' = Hash(h)
    /\ storeStep' = FirstStep(LamportRound(h.lamport))
    /\ UNCHANGED <<rounds, lastRound>>

(* AddEvent() takes p.mu: a second event under a stored ID is refused and  *)
(* changes nothing.  Store, head, and the test for the round's entry.      *)
AddEvent(h) ==
    /\ storeStep = "idle"
    /\ Hash(h) \notin DOMAIN events
    /\ events' = Put(events, Hash(h), NewEvent(h))
    /\ heads' = Put(heads, h.creator, Hash(h))
    /\ storing' = Hash(h)
    /\ storeStep' = FirstStep(LamportRound(h.lamport))
    /\ UNCHANGED <<rounds, lastRound>>

(* The round in which the stored event is being registered. *)
StoreRound == LamportRound(events[storing].lamport)

(* updateRoundAssignment(): a new entry, which replaces one that was made  *)
(* since the test.                                                         *)
CreateEntry ==
    /\ storeStep = "create"
    /\ rounds' = Put(rounds, StoreRound, NewRoundInfo)
    /\ storeStep' = "witness"
    /\ UNCHANGED <<events, heads, lastRound, storing>>

(* Mutant: the first event of a creator to arrive in a round is its only   *)
(* witness.                                                                *)
RegisterWitnessFirstArrived ==
    /\ storeStep = "witness"
    /\ rounds' = IF \A x \in DOMAIN events \ {storing} :
                       ~ /\ events[x].creator = events[storing].creator
                         /\ LamportRound(events[x].lamport) = StoreRound
                 THEN AddWitness(rounds, StoreRound, storing) ELSE rounds
    /\ storeStep' = "root"
    /\ UNCHANGED <<events, heads, lastRound, storing>>

RegisterWitness ==
    /\ storeStep = "witness"
    /\ rounds' = IF IsWitness(events, events[storing], StoreRound)
                 THEN AddWitness(rounds, StoreRound, storing) ELSE rounds
    /\ storeStep' = "root"
    /\ UNCHANGED <<events, heads, lastRound, storing>>

(* Mutant: LastRound follows the latest arrival. *)
RegisterRootLastArrived ==
    /\ storeStep = "root"
    /\ rounds' = IF IsRoot(events, rounds[StoreRound], storing)
                 THEN AddRoot(rounds, StoreRound, storing) ELSE rounds
    /\ lastRound' = StoreRound
    /\ storing' = NoEvent
    /\ storeStep' = "idle"
    /\ UNCHANGED <<events, heads>>

(* The root, then LastRound; AddEvent returns and releases p.mu. *)
RegisterRoot ==
    /\ storeStep = "root"
    /\ rounds' = IF IsRoot(events, rounds[StoreRound], storing)
                 THEN AddRoot(rounds, StoreRound, storing) ELSE rounds
    /\ lastRound' = IF StoreRound > lastRound THEN StoreRound ELSE lastRound
    /\ storing' = NoEvent
    /\ storeStep' = "idle"
    /\ UNCHANGED <<events, heads>>

UpdateRounds == CreateEntry \/ RegisterWitness \/ RegisterRoot

-----------------------------------------------------------------------------
Steps == {"idle", "create", "witness", "root"}

PosetTypeOK == /\ IsMap(events, EventID, Event)
               /\ IsMap(heads, Creator, EventID)
               /\ IsMap(rounds, Nat, RoundInfo)
               /\ \A r \in DOMAIN rounds :
                     rounds[r].witnesses \cup rounds[r].roots \subseteq DOMAIN events
               /\ lastRound \in Nat
               /\ storeStep \in Steps
               /\ storeStep = "idle" => storing = NoEvent
               /\ storeStep # "idle" => storing \in DOMAIN events
               /\ storeStep \in {"witness", "root"} => StoreRound \in DOMAIN rounds

(* LastRound is the highest Lamport round of any event whose store is      *)
(* complete, in whatever order events of older and newer rounds arrive     *)
(* (poset.go:142).                                                         *)
LastRoundIsGreatest ==
    /\ \A id \in DOMAIN events \ {storing} : LamportRound(events[id].lamport) <= lastRound
    /\ lastRound # 0 =>
          \E id \in DOMAIN events : LamportRound(events[id].lamport) = lastRound

(* The store implements the write-once ledger. *)
Ledger == INSTANCE EventLedger WITH
            ledger <- [id \in DOMAIN events |->
                          [creator |-> events[id].creator,
                           parents |-> events[id].parents,
                           lamport |-> events[id].lamport]]
StoreIsWriteOnce == Ledger!Spec

=============================================================================
