---------------------------- MODULE RoundAssignment ----------------------------
(***************************************************************************)
(* Rounds computed from the parents (round_assignment.go; dag.go holds a   *)
(* second copy of the same code), as the consensus engine runs them:       *)
(* runRoundAssignment ranges over the event map, in Go's arbitrary order,  *)
(* and assigns a round to every event that looks unassigned, while         *)
(* processEvents stores new events through Poset.AddEvent.                 *)
(*                                                                         *)
(* The pass holds ce.mu and the store p.mu, so nothing orders the two:     *)
(*   - an entry stored during the iteration may or may not be visited;     *)
(*   - both test for the entry of a round, create it and register events   *)
(*     in it, and one may replace the entry the other has filled;          *)
(*   - the Go runtime may notice the unsynchronised accesses and kill the  *)
(*     process (crashed).                                                  *)
(* AssignRound reads the parents, then scans the map for earlier events.   *)
(* An event stored in between has round 0 and can only change the scan, as *)
(* if it had been stored before the visit, so everything before the table  *)
(* is touched is one step.  The accesses to the table are steps of their   *)
(* own, as in Poset.                                                       *)
(***************************************************************************)
EXTENDS Poset

VARIABLES passing,   \* runRoundAssignment is iterating
          todo,      \* the IDs the iteration has still to produce
          visiting,  \* the event AssignRound is registering, or NoEvent
          visitStep, \* what AssignRound does next to the table, or "idle"
          crashed    \* the runtime has ended the process

raVars == <<passing, todo, visiting, visitStep, crashed>>
roundVars == <<events, heads, rounds, lastRound, storing, storeStep,
               passing, todo, visiting, visitStep, crashed>>

RoundInit == /\ PosetInit
             /\ passing = FALSE
             /\ todo = {}
             /\ visiting = NoEvent
             /\ visitStep = "idle"
             /\ crashed = FALSE

-----------------------------------------------------------------------------
(* The test of runRoundAssignment: "not yet computed".  An event that      *)
(* AssignRound has left in round 0 and not made a root looks the same.     *)
Unassigned(e) == e.round = 0 /\ ~e.isRoot

(* isWitness(): no stored event of this creator with this round is earlier.*)
IsStructuralWitness(id, r) ==
    \A x \in DOMAIN events :
        ~ /\ events[x].creator = events[id].creator
          /\ events[x].round = r
          /\ events[x].lamport < events[id].lamport

(* Mutant: a root that is not entered in the table. *)
SetRoundUnregistered(id, r, witness) ==
    /\ events' = [events EXCEPT ![id].round = r, ![id].isRoot = @ \/ witness]
    /\ UNCHANGED <<visiting, visitStep>>

(* Set the round of event id; a witness is made a root, and ensureRound    *)
(* looks for the entry of its round.                                       *)
SetRound(id, r, witness) ==
    /\ events' = [events EXCEPT ![id].round = r, ![id].isRoot = @ \/ witness]
    /\ visiting' = IF witness THEN id ELSE NoEvent
    /\ visitStep' = IF witness THEN FirstStep(r) ELSE "idle"

(* Mutant: the round grows whether or not the parents are roots. *)
AssignRoundAlwaysNext(id) ==
    LET ps == events[id].parents IN
    \/ /\ ps \subseteq DOMAIN events
       /\ ps # {}
       /\ \E p \in ps : /\ \A q \in ps : events[q].round <= events[p].round
                        /\ SetRound(id, events[p].round + 1,
                                    IsStructuralWitness(id, events[p].round + 1))
    \/ /\ ps = {}
       /\ SetRound(id, 0, TRUE)
    \/ /\ ~ ps \subseteq DOMAIN events
       /\ UNCHANGED <<events, visiting, visitStep>>

(* Mutant: go on with the parents that are stored. *)
AssignRoundPartial(id) ==
    LET ps == events[id].parents \cap DOMAIN events IN
    \/ /\ ps = {}
       /\ SetRound(id, 0, TRUE)
    \/ \E p \in ps :
          LET allRoots == \A q \in ps : events[q].isRoot
              r == IF allRoots THEN events[p].round + 1 ELSE events[p].round
          IN /\ \A q \in ps : events[q].round <= events[p].round
             /\ SetRound(id, r, IsStructuralWitness(id, r))

(* AssignRound(). *)
AssignRound(id) ==
    LET ps == events[id].parents IN
    \/ (* GetParents fails: a parent is not stored *)
       /\ ~ ps \subseteq DOMAIN events
       /\ UNCHANGED <<events, visiting, visitStep>>
    \/ (* genesis *)
       /\ ps = {}
       /\ SetRound(id, 0, TRUE)
    \/ /\ ps # {}
       /\ ps \subseteq DOMAIN events
       /\ \E p \in ps :
             LET allRoots == \A q \in ps : events[q].isRoot
                 r == IF allRoots THEN events[p].round + 1 ELSE events[p].round
             IN /\ \A q \in ps : events[q].round <= events[p].round
                /\ SetRound(id, r, IsStructuralWitness(id, r))

-----------------------------------------------------------------------------
(* Mutant: the pass also asks for the parents the events refer to. *)
StartPassWithParents ==
    /\ ~crashed
    /\ ~passing
    /\ passing' = TRUE
    /\ todo' = DOMAIN events \cup UNION {events[x].parents : x \in DOMAIN events}
    /\ UNCHANGED <<posetVars, visiting, visitStep, crashed>>

(* runRoundAssignment() begins to range over the map. *)
StartPass == /\ ~crashed
             /\ ~passing
             /\ passing' = TRUE
             /\ todo' = DOMAIN events
             /\ UNCHANGED <<posetVars, visiting, visitStep, crashed>>

(* The iteration produces id. *)
Visit(id) == /\ ~crashed
             /\ visitStep = "idle"
             /\ id \in todo
             /\ todo' = todo \ {id}
             /\ IF Unassigned(events[id])
                THEN AssignRound(id)
                ELSE UNCHANGED <<events, visiting, visitStep>>
             /\ UNCHANGED <<heads, rounds, lastRound, storing, storeStep, passing, crashed>>

(* The round in which the visited event is being registered. *)
VisitRound == events[visiting].round

(* ensureRound() creates the entry it has not found. *)
EnsureEntry == /\ visitStep = "create"
               /\ rounds' = Put(rounds, VisitRound, NewRoundInfo)
               /\ visitStep' = "witness"
               /\ UNCHANGED visiting

VisitWitness == /\ visitStep = "witness"
                /\ rounds' = AddWitness(rounds, VisitRound, visiting)
                /\ visitStep' = "root"
                /\ UNCHANGED visiting

VisitRoot == /\ visitStep = "root"
             /\ rounds' = AddRoot(rounds, VisitRound, visiting)
             /\ visitStep' = "idle"
             /\ visiting' = NoEvent

(* AssignRound goes on to enter the event in the table. *)
VisitGoesOn == /\ ~crashed
               /\ EnsureEntry \/ VisitWitness \/ VisitRoot
               /\ UNCHANGED <<events, heads, lastRound, storing, storeStep,
                              passing, todo, crashed>>

EndPass == /\ ~crashed
           /\ passing
           /\ visitStep = "idle"
           /\ todo = {}
           /\ passing' = FALSE
           /\ UNCHANGED <<posetVars, todo, visiting, visitStep, crashed>>

(* processEvents stores an event; a running iteration may or may not see   *)
(* the new entry.                                                          *)
Store(h) == /\ ~crashed
            /\ AddEvent(h)
            /\ \/ todo' = todo
               \/ passing /\ todo' = todo \cup {Hash(h)}
            /\ UNCHANGED <<passing, visiting, visitStep, crashed>>

(* AddEvent goes on to enter it in the table. *)
StoreGoesOn == /\ ~crashed
               /\ UpdateRounds
               /\ UNCHANGED raVars

(* The runtime detects a race instead: a write to the event map during the *)
(* iteration, or two goroutines in the round table.                        *)
MapRace == /\ ~crashed
           /\ \/ /\ todo # {}
                 /\ storeStep = "idle"
                 /\ \E h \in Headers : Hash(h) \notin DOMAIN events
              \/ storeStep # "idle" /\ visitStep # "idle"
           /\ crashed' = TRUE
           /\ UNCHANGED <<posetVars, passing, todo, visiting, visitStep>>

RoundNext == \/ StartPass
             \/ \E id \in todo : Visit(id)
             \/ VisitGoesOn
             \/ EndPass
             \/ \E h \in Headers : Store(h)
             \/ StoreGoesOn
             \/ MapRace

RoundSpec == RoundInit /\ [][RoundNext]_roundVars

-----------------------------------------------------------------------------
(* Types, and what holds of the goroutines' steps: a pass ranges over      *)
(* stored events only, and an event is registered where its entry was      *)
(* found or made (consensus.go:656, poset.go:122, round_assignment.go:83). *)
RoundTypeOK == /\ PosetTypeOK
               /\ passing \in BOOLEAN
               /\ todo \subseteq DOMAIN events
               /\ todo # {} => passing
               /\ crashed \in BOOLEAN
               /\ visitStep \in Steps
               /\ visitStep = "idle" => visiting = NoEvent
               /\ visitStep # "idle" => /\ passing
                                        /\ visiting \in DOMAIN events
                                        /\ events[visiting].isRoot
               /\ visitStep \in {"witness", "root"} => VisitRound \in DOMAIN rounds

(* Rounds have no gaps: an event beyond round 0 implies a root in the      *)
(* round before it, in whatever order the pass met the events              *)
(* (round_assignment.go:32-51).                                            *)
RoundsContiguous ==
    \A id \in DOMAIN events : events[id].round > 0 =>
        \E x \in DOMAIN events : events[x].isRoot /\ events[x].round = events[id].round - 1

(* An event beyond round 0 has all its parents stored, and one of them is  *)
(* at most one round behind it, although parents may be assigned after     *)
(* their child (round_assignment.go:17-51).                                *)
RoundSupported ==
    \A id \in DOMAIN events : events[id].round > 0 =>
        /\ events[id].parents \subseteq DOMAIN events
        /\ \E p \in events[id].parents : events[id].round <= events[p].round + 1

(* The event is the earliest of its creator in its Lamport round. *)
Earliest(id) == IsWitness(events, events[id], LamportRound(events[id].lamport))

(* Round r lists a root the pass has put there, or an event stored in it.  *)
ListsRoot(r) == \E y \in rounds[r].witnesses : events[y].isRoot /\ events[y].round = r
ListsStored(r) ==
    \E y \in rounds[r].witnesses : LamportRound(events[y].lamport) = r

(* The earliest event of a creator in a Lamport round, in whatever order   *)
(* the events arrived, is registered as a witness of it (poset.go:148); it *)
(* loses its place only to a visit that creates the entry a second time,   *)
(* and then the round lists the root of that visit                         *)
(* (poset.go:122-134, round_assignment.go:83).                             *)
WitnessLostOnlyToPass ==
    \A id \in DOMAIN events :
        /\ Earliest(id)
        /\ id # storing \/ storeStep = "root"
        => LET r == LamportRound(events[id].lamport) IN
           /\ r \in DOMAIN rounds
           /\ \/ id \in rounds[r].witnesses
              \/ ListsRoot(r)
              \/ visitStep \in {"create", "witness"} /\ VisitRound = r

(* The converse: a root is registered under its round as witness and as    *)
(* root; it loses its place only to a store that creates the entry a       *)
(* second time, and then the round lists the stored event                  *)
(* (round_assignment.go:26-28, round_assignment.go:57-59, poset.go:123).   *)
RootLostOnlyToStore ==
    \A id \in DOMAIN events :
        /\ events[id].isRoot
        /\ id # visiting \/ visitStep = "root"
        => LET r == events[id].round IN
           /\ r \in DOMAIN rounds
           /\ \/ /\ id \in rounds[r].witnesses
                 /\ id \in rounds[r].roots \/ id = visiting
              \/ ListsStored(r)
              \/ storeStep = "witness" /\ StoreRound = r /\ Earliest(storing)

(* An entry has been opened, and the visit or the store that will leave a  *)
(* witness in it that is a root is still at work.                          *)
VisitFills(r) == /\ visitStep # "idle"
                 /\ VisitRound = r
                 /\ visitStep = "root" => visiting \in rounds[r].witnesses
StoreFills(r) == /\ storeStep # "idle"
                 /\ StoreRound = r
                 /\ Earliest(storing)
                 /\ storeStep = "witness" => rounds[r].witnesses = {}
                 /\ storeStep = "root" => rounds[r].witnesses = {storing}

(* Every round of the table has a root that is also a witness, or the      *)
(* event that opened it is still being registered.  It survives the race   *)
(* in which visit and store replace each other's entry                     *)
(* (poset.go:122-140, round_assignment.go:55-60).                          *)
EveryRoundHasRoot ==
    \A r \in DOMAIN rounds : \/ rounds[r].witnesses \cap rounds[r].roots # {}
                             \/ VisitFills(r)
                             \/ StoreFills(r)

(* Every Lamport round in use has an entry, or the store of its first      *)
(* event is about to create it.                                            *)
RoundsOpened ==
    /\ \A id \in DOMAIN events : \/ LamportRound(events[id].lamport) \in DOMAIN rounds
                                \/ id = storing
    /\ storeStep = "create" =>
          \A id \in DOMAIN events \ {storing} : LamportRound(events[id].lamport) # StoreRound
    /\ visitStep = "create" =>
          \A id \in DOMAIN events \ {visiting} :
              ~(events[id].isRoot /\ events[id].round = VisitRound)

(* The inductive invariant: the conjuncts support one another. *)
RoundInv == /\ RoundTypeOK
            /\ RoundsOpened
            /\ WitnessLostOnlyToPass
            /\ RootLostOnlyToStore
            /\ EveryRoundHasRoot
            /\ RoundsContiguous
            /\ RoundSupported

(* "Find the maximum round of the parents" (round_assignment.go:32): the   *)
(* round of an assigned event is at least that of each of its parents.     *)
RoundNotBelowParents ==
    \A id \in DOMAIN events : ~Unassigned(events[id]) =>
        \A p \in events[id].parents \cap DOMAIN events :
            events[p].round <= events[id].round

=============================================================================
