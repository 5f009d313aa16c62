------------------------- MODULE RoundAssignmentProofs -------------------------
(***************************************************************************)
(* Proofs about the store and the round table, for every set of events and *)
(* every BlockTime: the conjuncts of RoundInv are preserved by every step  *)
(* of a store (the Poset's AddEvent) and of a visit (AssignRound), however *)
(* the steps of the two fall between each other; LastRound follows the     *)
(* completed stores, and the store implements the write-once ledger.       *)
(***************************************************************************)
EXTENDS RoundAssignment, FiniteSetTheorems, TLAPS

(* A Go map after m[k] = v. *)
LEMMA PutFacts ==
  ASSUME NEW K, NEW V, NEW m, IsMap(m, K, V), NEW k \in K, NEW v \in V
  PROVE  /\ IsMap(Put(m, k, v), K, V)
         /\ DOMAIN Put(m, k, v) = DOMAIN m \cup {k}
         /\ Put(m, k, v)[k] = v
         /\ \A x \in DOMAIN m : x # k => Put(m, k, v)[x] = m[x]
  BY DEF IsMap, Put

(* The empty map. *)
LEMMA EmptyMap ==
  ASSUME NEW K, NEW V, NEW m, m = <<>>
  PROVE  IsMap(m, K, V)
<1>1. DOMAIN m = {}
  OBVIOUS
<1>2. m = [x \in {} |-> x]
  OBVIOUS
<1> QED
  BY <1>1, <1>2 DEF IsMap

(* A Lamport round is a natural number. *)
LEMMA LamportRoundNat ==
  ASSUME NEW l \in Nat
  PROVE  LamportRound(l) \in Nat
  BY BlockMsAssumption DEF LamportRound

(* A new entry of the table is empty, and the only one that changes. *)
LEMMA EntryCreated ==
  ASSUME NEW rs, IsMap(rs, Nat, RoundInfo), NEW r \in Nat
  PROVE  /\ IsMap(Put(rs, r, NewRoundInfo), Nat, RoundInfo)
         /\ DOMAIN Put(rs, r, NewRoundInfo) = DOMAIN rs \cup {r}
         /\ \A x \in DOMAIN rs : x # r => Put(rs, r, NewRoundInfo)[x] = rs[x]
         /\ Put(rs, r, NewRoundInfo)[r].witnesses = {}
         /\ Put(rs, r, NewRoundInfo)[r].roots = {}
         /\ Put(rs, r, NewRoundInfo)[r].clothos = {}
<1>1. NewRoundInfo \in RoundInfo
  BY DEF NewRoundInfo, RoundInfo
<1>2. /\ IsMap(Put(rs, r, NewRoundInfo), Nat, RoundInfo)
      /\ DOMAIN Put(rs, r, NewRoundInfo) = DOMAIN rs \cup {r}
      /\ Put(rs, r, NewRoundInfo)[r] = NewRoundInfo
      /\ \A x \in DOMAIN rs : x # r => Put(rs, r, NewRoundInfo)[x] = rs[x]
  BY <1>1 DEF IsMap, Put
<1> QED
  BY <1>2 DEF NewRoundInfo

(* Registering a witness touches one set of one entry. *)
LEMMA AddWitnessFacts ==
  ASSUME NEW rs, IsMap(rs, Nat, RoundInfo), NEW r \in DOMAIN rs, NEW id \in EventID
  PROVE  /\ IsMap(AddWitness(rs, r, id), Nat, RoundInfo)
         /\ DOMAIN AddWitness(rs, r, id) = DOMAIN rs
         /\ \A x \in DOMAIN rs : x # r => AddWitness(rs, r, id)[x] = rs[x]
         /\ AddWitness(rs, r, id)[r].witnesses = rs[r].witnesses \cup {id}
         /\ AddWitness(rs, r, id)[r].roots = rs[r].roots
         /\ AddWitness(rs, r, id)[r].clothos = rs[r].clothos
<1>1. rs[r] \in RoundInfo
  BY DEF IsMap
<1>2. /\ [rs[r] EXCEPT !.witnesses = @ \cup {id}] \in RoundInfo
      /\ [rs[r] EXCEPT !.witnesses = @ \cup {id}].witnesses = rs[r].witnesses \cup {id}
      /\ [rs[r] EXCEPT !.witnesses = @ \cup {id}].roots = rs[r].roots
      /\ [rs[r] EXCEPT !.witnesses = @ \cup {id}].clothos = rs[r].clothos
  BY <1>1 DEF RoundInfo
<1>3. /\ AddWitness(rs, r, id) \in [DOMAIN rs -> RoundInfo]
      /\ \A x \in DOMAIN rs : x # r => AddWitness(rs, r, id)[x] = rs[x]
      /\ AddWitness(rs, r, id)[r] = [rs[r] EXCEPT !.witnesses = @ \cup {id}]
  BY <1>1, <1>2 DEF AddWitness, IsMap
<1>4. DOMAIN AddWitness(rs, r, id) = DOMAIN rs
  BY <1>3
<1>5. IsMap(AddWitness(rs, r, id), Nat, RoundInfo)
  BY <1>3, <1>4 DEF IsMap
<1> QED
  BY <1>2, <1>3, <1>4, <1>5

(* Registering a root touches one set of one entry. *)
LEMMA AddRootFacts ==
  ASSUME NEW rs, IsMap(rs, Nat, RoundInfo), NEW r \in DOMAIN rs, NEW id \in EventID
  PROVE  /\ IsMap(AddRoot(rs, r, id), Nat, RoundInfo)
         /\ DOMAIN AddRoot(rs, r, id) = DOMAIN rs
         /\ \A x \in DOMAIN rs : x # r => AddRoot(rs, r, id)[x] = rs[x]
         /\ AddRoot(rs, r, id)[r].roots = rs[r].roots \cup {id}
         /\ AddRoot(rs, r, id)[r].witnesses = rs[r].witnesses
         /\ AddRoot(rs, r, id)[r].clothos = rs[r].clothos
<1>1. rs[r] \in RoundInfo
  BY DEF IsMap
<1>2. /\ [rs[r] EXCEPT !.roots = @ \cup {id}] \in RoundInfo
      /\ [rs[r] EXCEPT !.roots = @ \cup {id}].roots = rs[r].roots \cup {id}
      /\ [rs[r] EXCEPT !.roots = @ \cup {id}].witnesses = rs[r].witnesses
      /\ [rs[r] EXCEPT !.roots = @ \cup {id}].clothos = rs[r].clothos
  BY <1>1 DEF RoundInfo
<1>3. /\ AddRoot(rs, r, id) \in [DOMAIN rs -> RoundInfo]
      /\ \A x \in DOMAIN rs : x # r => AddRoot(rs, r, id)[x] = rs[x]
      /\ AddRoot(rs, r, id)[r] = [rs[r] EXCEPT !.roots = @ \cup {id}]
  BY <1>1, <1>2 DEF AddRoot, IsMap
<1>4. DOMAIN AddRoot(rs, r, id) = DOMAIN rs
  BY <1>3
<1>5. IsMap(AddRoot(rs, r, id), Nat, RoundInfo)
  BY <1>3, <1>4 DEF IsMap
<1> QED
  BY <1>2, <1>3, <1>4, <1>5

(* The only member of a table entry that holds one witness sees itself. *)
LEMMA LoneWitnessIsRoot ==
  ASSUME NEW evs, NEW ri, NEW id \in EventID, ri.witnesses = {id}
  PROVE  IsRoot(evs, ri, id)
<1>1. IsAncestor(evs, id, id)
  BY DEF IsAncestor
<1>2. {w \in ri.witnesses : IsAncestor(evs, w, id)} = {id}
  BY <1>1
<1>3. Cardinality({id}) = 1
  BY FS_Singleton
<1> QED
  BY <1>2, <1>3 DEF IsRoot

-----------------------------------------------------------------------------
(* What the steps do. *)

(* The part of an event that a visit never changes. *)
SameContents ==
    /\ DOMAIN events' = DOMAIN events
    /\ \A x \in DOMAIN events : /\ events'[x].creator = events[x].creator
                                /\ events'[x].parents = events[x].parents
                                /\ events'[x].lamport = events[x].lamport

(* The rounds the table is written in are natural numbers. *)
LEMMA StepRounds ==
  ASSUME RoundTypeOK
  PROVE  /\ storeStep # "idle" => StoreRound \in Nat /\ storing \in EventID
         /\ visitStep # "idle" => VisitRound \in Nat /\ visiting \in EventID
         /\ \A x \in DOMAIN events : /\ x \in EventID /\ x # NoEvent
                                     /\ events[x].lamport \in Nat
                                     /\ events[x].round \in Nat
                                     /\ LamportRound(events[x].lamport) \in Nat
<1>1. \A x \in DOMAIN events : /\ x \in EventID
                              /\ events[x].lamport \in Nat
                              /\ events[x].round \in Nat
  BY DEF RoundTypeOK, PosetTypeOK, IsMap, Event
<1>2. \A x \in DOMAIN events : x # NoEvent /\ LamportRound(events[x].lamport) \in Nat
  BY <1>1, LamportRoundNat, NoEventAssumption
<1> QED
  BY <1>1, <1>2 DEF RoundTypeOK, PosetTypeOK, StoreRound, VisitRound

(* A step of a store or of a visit that writes round r of the table: it    *)
(* opens the entry, adds the event to its witnesses or to its roots, or    *)
(* leaves it alone.                                                        *)
Opens(r) == /\ DOMAIN rounds' = DOMAIN rounds \cup {r}
            /\ \A x \in DOMAIN rounds : x # r => rounds'[x] = rounds[x]
            /\ rounds'[r].witnesses = {} /\ rounds'[r].roots = {} /\ rounds'[r].clothos = {}
AddsWitness(r, id) ==
            /\ DOMAIN rounds' = DOMAIN rounds /\ r \in DOMAIN rounds
            /\ \A x \in DOMAIN rounds : x # r => rounds'[x] = rounds[x]
            /\ rounds'[r].witnesses = rounds[r].witnesses \cup {id}
            /\ rounds'[r].roots = rounds[r].roots
            /\ rounds'[r].clothos = rounds[r].clothos
AddsRoot(r, id) ==
            /\ DOMAIN rounds' = DOMAIN rounds /\ r \in DOMAIN rounds
            /\ \A x \in DOMAIN rounds : x # r => rounds'[x] = rounds[x]
            /\ rounds'[r].witnesses = rounds[r].witnesses
            /\ rounds'[r].roots = rounds[r].roots \cup {id}
            /\ rounds'[r].clothos = rounds[r].clothos

(* The three steps of the store on the table. *)
LEMMA StoreSteps ==
  ASSUME RoundTypeOK, StoreGoesOn
  PROVE  /\ UNCHANGED <<events, heads, passing, todo, visiting, visitStep, crashed>>
         /\ IsMap(rounds', Nat, RoundInfo)
         /\ \/ /\ storeStep = "create" /\ storeStep' = "witness"
               /\ UNCHANGED <<storing, lastRound>>
               /\ Opens(StoreRound)
            \/ /\ storeStep = "witness" /\ storeStep' = "root"
               /\ UNCHANGED <<storing, lastRound>>
               /\ IF Earliest(storing) THEN AddsWitness(StoreRound, storing)
                  ELSE rounds' = rounds
            \/ /\ storeStep = "root" /\ storeStep' = "idle" /\ storing' = NoEvent
               /\ lastRound' = IF StoreRound > lastRound THEN StoreRound ELSE lastRound
               /\ IF IsRoot(events, rounds[StoreRound], storing)
                  THEN AddsRoot(StoreRound, storing) ELSE rounds' = rounds
<1>1. IsMap(rounds, Nat, RoundInfo)
  BY DEF RoundTypeOK, PosetTypeOK
<1>2. storeStep # "idle" /\ StoreRound \in Nat /\ storing \in EventID
  BY StepRounds DEF StoreGoesOn, UpdateRounds, CreateEntry, RegisterWitness, RegisterRoot
<1>3. storeStep \in {"witness", "root"} => StoreRound \in DOMAIN rounds
  BY DEF RoundTypeOK, PosetTypeOK
<1>4. UNCHANGED <<events, heads, passing, todo, visiting, visitStep, crashed>>
  BY DEF StoreGoesOn, UpdateRounds, CreateEntry, RegisterWitness, RegisterRoot, raVars
<1>5. CASE CreateEntry
  <2>1. rounds' = Put(rounds, StoreRound, NewRoundInfo)
    BY <1>5 DEF CreateEntry
  <2>2. IsMap(rounds', Nat, RoundInfo) /\ Opens(StoreRound)
    BY <1>1, <1>2, <2>1, EntryCreated DEF Opens
  <2> QED
    BY <1>4, <1>5, <2>2 DEF CreateEntry
<1>6. CASE RegisterWitness
  <2>1. rounds' = IF Earliest(storing) THEN AddWitness(rounds, StoreRound, storing) ELSE rounds
    BY <1>6 DEF RegisterWitness, Earliest, StoreRound
  <2>2. Earliest(storing) => IsMap(rounds', Nat, RoundInfo) /\ AddsWitness(StoreRound, storing)
    BY <1>1, <1>2, <1>3, <1>6, <2>1, AddWitnessFacts DEF AddsWitness, RegisterWitness
  <2>3. IsMap(rounds', Nat, RoundInfo)
    BY <1>1, <2>1, <2>2
  <2> QED
    BY <1>4, <1>6, <2>1, <2>2, <2>3 DEF RegisterWitness
<1>7. CASE RegisterRoot
  <2> DEFINE root == IsRoot(events, rounds[StoreRound], storing)
  <2>1. rounds' = IF root THEN AddRoot(rounds, StoreRound, storing) ELSE rounds
    BY <1>7 DEF RegisterRoot
  <2> HIDE DEF root
  <2>2. root => IsMap(rounds', Nat, RoundInfo) /\ AddsRoot(StoreRound, storing)
    BY <1>1, <1>2, <1>3, <1>7, <2>1, AddRootFacts DEF AddsRoot, RegisterRoot
  <2>3. IsMap(rounds', Nat, RoundInfo)
    BY <1>1, <2>1, <2>2
  <2> QED
    BY <1>4, <1>7, <2>1, <2>2, <2>3 DEF RegisterRoot, root
<1> QED
  BY <1>5, <1>6, <1>7 DEF StoreGoesOn, UpdateRounds

(* The three steps of a visit on the table. *)
LEMMA VisitSteps ==
  ASSUME RoundTypeOK, VisitGoesOn
  PROVE  /\ UNCHANGED <<events, heads, lastRound, storing, storeStep, passing, todo, crashed>>
         /\ IsMap(rounds', Nat, RoundInfo)
         /\ \/ /\ visitStep = "create" /\ visitStep' = "witness" /\ visiting' = visiting
               /\ Opens(VisitRound)
            \/ /\ visitStep = "witness" /\ visitStep' = "root" /\ visiting' = visiting
               /\ AddsWitness(VisitRound, visiting)
            \/ /\ visitStep = "root" /\ visitStep' = "idle" /\ visiting' = NoEvent
               /\ AddsRoot(VisitRound, visiting)
<1>1. IsMap(rounds, Nat, RoundInfo)
  BY DEF RoundTypeOK, PosetTypeOK
<1>2. visitStep # "idle" /\ VisitRound \in Nat /\ visiting \in EventID
  BY StepRounds DEF VisitGoesOn, EnsureEntry, VisitWitness, VisitRoot
<1>3. visitStep \in {"witness", "root"} => VisitRound \in DOMAIN rounds
  BY DEF RoundTypeOK
<1>4. UNCHANGED <<events, heads, lastRound, storing, storeStep, passing, todo, crashed>>
  BY DEF VisitGoesOn
<1>5. CASE EnsureEntry
  <2>1. rounds' = Put(rounds, VisitRound, NewRoundInfo)
    BY <1>5 DEF EnsureEntry
  <2>2. IsMap(rounds', Nat, RoundInfo) /\ Opens(VisitRound)
    BY <1>1, <1>2, <2>1, EntryCreated DEF Opens
  <2> QED
    BY <1>4, <1>5, <2>2 DEF EnsureEntry
<1>6. CASE VisitWitness
  <2>1. rounds' = AddWitness(rounds, VisitRound, visiting) /\ VisitRound \in DOMAIN rounds
    BY <1>3, <1>6 DEF VisitWitness
  <2>2. IsMap(rounds', Nat, RoundInfo) /\ AddsWitness(VisitRound, visiting)
    BY <1>1, <1>2, <2>1, AddWitnessFacts DEF AddsWitness
  <2> QED
    BY <1>4, <1>6, <2>2 DEF VisitWitness
<1>7. CASE VisitRoot
  <2>1. rounds' = AddRoot(rounds, VisitRound, visiting) /\ VisitRound \in DOMAIN rounds
    BY <1>3, <1>7 DEF VisitRoot
  <2>2. IsMap(rounds', Nat, RoundInfo) /\ AddsRoot(VisitRound, visiting)
    BY <1>1, <1>2, <2>1, AddRootFacts DEF AddsRoot
  <2> QED
    BY <1>4, <1>7, <2>2 DEF VisitRoot
<1> QED
  BY <1>5, <1>6, <1>7 DEF VisitGoesOn

(* The table keeps its entries, and no step lists a Clotho. *)
LEMMA TableGrows ==
  ASSUME RoundTypeOK, StoreGoesOn \/ VisitGoesOn
  PROVE  /\ DOMAIN rounds \subseteq DOMAIN rounds'
         /\ \A r \in DOMAIN rounds' :
               \/ r \in DOMAIN rounds /\ rounds'[r].clothos = rounds[r].clothos
               \/ rounds'[r].clothos = {}
<1>1. \/ rounds' = rounds
      \/ \E r : Opens(r)
      \/ \E r, id : AddsWitness(r, id) \/ AddsRoot(r, id)
  BY StoreSteps, VisitSteps
<1>2. CASE rounds' = rounds
  BY <1>2
<1>3. ASSUME NEW r, Opens(r)
      PROVE  /\ DOMAIN rounds \subseteq DOMAIN rounds'
             /\ \A x \in DOMAIN rounds' :
                   \/ x \in DOMAIN rounds /\ rounds'[x].clothos = rounds[x].clothos
                   \/ rounds'[x].clothos = {}
  BY <1>3 DEF Opens
<1>4. ASSUME NEW r, NEW id, AddsWitness(r, id) \/ AddsRoot(r, id)
      PROVE  /\ DOMAIN rounds \subseteq DOMAIN rounds'
             /\ \A x \in DOMAIN rounds' :
                   x \in DOMAIN rounds /\ rounds'[x].clothos = rounds[x].clothos
  BY <1>4 DEF AddsWitness, AddsRoot
<1> QED
  BY <1>1, <1>2, <1>3, <1>4

(* What a Store step does. *)
LEMMA StoreFacts ==
  ASSUME RoundTypeOK, NEW h \in Headers, Store(h)
  PROVE  /\ Hash(h) \in EventID /\ Hash(h) \notin DOMAIN events
         /\ storeStep = "idle" /\ storing = NoEvent /\ storing' = Hash(h)
         /\ storeStep' = FirstStep(LamportRound(h.lamport))
         /\ IsMap(events', EventID, Event)
         /\ DOMAIN events' = DOMAIN events \cup {Hash(h)}
         /\ events'[Hash(h)] = NewEvent(h)
         /\ \A x \in DOMAIN events : events'[x] = events[x]
         /\ UNCHANGED <<rounds, lastRound, passing, visiting, visitStep, crashed>>
<1>1. /\ Hash(h) \in EventID /\ h.creator \in Creator
      /\ h.parents \in SUBSET EventID /\ h.lamport \in Nat
  BY HeadersAssumption DEF Hash
<1>2. NewEvent(h) \in Event
  BY <1>1 DEF NewEvent, Event
<1>3. /\ Hash(h) \notin DOMAIN events
      /\ events' = Put(events, Hash(h), NewEvent(h))
      /\ storeStep = "idle" /\ storing' = Hash(h)
      /\ storeStep' = FirstStep(LamportRound(h.lamport))
      /\ UNCHANGED <<rounds, lastRound, passing, visiting, visitStep, crashed>>
  BY DEF Store, AddEvent
<1>4. IsMap(events, EventID, Event) /\ storing = NoEvent
  BY <1>3 DEF RoundTypeOK, PosetTypeOK
<1>5. /\ IsMap(events', EventID, Event)
      /\ DOMAIN events' = DOMAIN events \cup {Hash(h)}
      /\ events'[Hash(h)] = NewEvent(h)
      /\ \A x \in DOMAIN events : events'[x] = events[x]
  BY <1>1, <1>2, <1>3, <1>4 DEF IsMap, Put
<1> QED
  BY <1>1, <1>3, <1>4, <1>5

(* Storing an event preserves the types. *)
LEMMA StoreType ==
  ASSUME RoundTypeOK, NEW h \in Headers, Store(h)
  PROVE  RoundTypeOK'
<1>1. /\ Hash(h) \in EventID /\ Hash(h) \notin DOMAIN events
      /\ storing' = Hash(h) /\ storeStep' = FirstStep(LamportRound(h.lamport))
      /\ IsMap(events', EventID, Event)
      /\ DOMAIN events' = DOMAIN events \cup {Hash(h)}
      /\ events'[Hash(h)] = NewEvent(h)
      /\ \A x \in DOMAIN events : events'[x] = events[x]
      /\ UNCHANGED <<rounds, lastRound, passing, visiting, visitStep, crashed>>
  BY StoreFacts
<1>2. IsMap(heads', Creator, EventID)
  <2>1. h.creator \in Creator /\ heads' = Put(heads, h.creator, Hash(h))
    BY HeadersAssumption DEF Store, AddEvent
  <2> QED
    BY <1>1, <2>1, PutFacts DEF RoundTypeOK, PosetTypeOK
<1>3. todo' \subseteq DOMAIN events' /\ (todo' # {} => passing')
  BY <1>1 DEF Store, RoundTypeOK
<1>4. StoreRound' = LamportRound(h.lamport)
  BY <1>1 DEF StoreRound, LamportRound, NewEvent
<1>5. /\ storeStep' \in Steps /\ storeStep' # "idle" /\ storing' \in DOMAIN events'
      /\ storeStep' \in {"witness", "root"} => StoreRound' \in DOMAIN rounds'
  BY <1>1, <1>4 DEF FirstStep, Steps
<1>6. PosetTypeOK'
  BY <1>1, <1>2, <1>5 DEF RoundTypeOK, PosetTypeOK
<1>7. /\ visitStep' # "idle" => /\ passing'
                                /\ visiting' \in DOMAIN events'
                                /\ events'[visiting'].isRoot
      /\ visitStep' \in {"witness", "root"} => VisitRound' \in DOMAIN rounds'
  BY <1>1 DEF RoundTypeOK, VisitRound
<1> QED
  BY <1>1, <1>3, <1>6, <1>7 DEF RoundTypeOK

(* What SetRound does, to an event that is not a root yet. *)
LEMMA SetRoundFacts ==
  ASSUME RoundTypeOK, NEW id \in DOMAIN events, NEW r \in Nat, NEW w \in BOOLEAN,
         ~events[id].isRoot, SetRound(id, r, w)
  PROVE  /\ IsMap(events', EventID, Event)
         /\ SameContents
         /\ \A x \in DOMAIN events : x # id => events'[x] = events[x]
         /\ events'[id].round = r /\ events'[id].isRoot = w
         /\ w => visiting' = id /\ visitStep' = FirstStep(r)
         /\ ~w => visiting' = NoEvent /\ visitStep' = "idle"
<1>1. events \in [DOMAIN events -> Event] /\ DOMAIN events \subseteq EventID
  BY DEF RoundTypeOK, PosetTypeOK, IsMap
<1>2. events[id] \in Event
  BY <1>1
<1> DEFINE e == [events[id] EXCEPT !.round = r, !.isRoot = @ \/ w]
<1>3. /\ e \in Event
      /\ e.round = r /\ e.isRoot = w
      /\ e.creator = events[id].creator
      /\ e.parents = events[id].parents
      /\ e.lamport = events[id].lamport
  BY <1>2 DEF Event
<1>4. events' = [events EXCEPT ![id] = e]
  BY DEF SetRound
<1> HIDE DEF e
<1>5. /\ events' \in [DOMAIN events -> Event]
      /\ \A x \in DOMAIN events : x # id => events'[x] = events[x]
      /\ events'[id] = e
  BY <1>1, <1>3, <1>4
<1>6. IsMap(events', EventID, Event) /\ DOMAIN events' = DOMAIN events
  BY <1>1, <1>5 DEF IsMap
<1>7. SameContents
  BY <1>3, <1>5, <1>6 DEF SameContents
<1>8. /\ w => visiting' = id /\ visitStep' = FirstStep(r)
      /\ ~w => visiting' = NoEvent /\ visitStep' = "idle"
  BY DEF SetRound
<1> QED
  BY <1>3, <1>5, <1>6, <1>7, <1>8

(* A visit leaves the store alone, or sets the round of an unassigned      *)
(* event to 0 as a root, or to that of a parent, or to one more than that  *)
(* of a parent that is a root.                                             *)
LEMMA VisitCases ==
  ASSUME RoundTypeOK, NEW id \in todo, Visit(id)
  PROVE  \/ UNCHANGED <<events, visiting, visitStep>>
         \/ /\ events[id].round = 0 /\ ~events[id].isRoot
            /\ \E r \in Nat, w \in BOOLEAN :
                  /\ SetRound(id, r, w)
                  /\ \/ r = 0 /\ w
                     \/ /\ events[id].parents \subseteq DOMAIN events
                        /\ \E p \in events[id].parents :
                              \/ r = events[p].round
                              \/ events[p].isRoot /\ r = events[p].round + 1
<1>1. id \in DOMAIN events /\ events \in [DOMAIN events -> Event]
  BY DEF RoundTypeOK, PosetTypeOK, IsMap
<1>2. CASE ~Unassigned(events[id])
  BY <1>2 DEF Visit
<1>3. CASE Unassigned(events[id])
  <2>1. AssignRound(id) /\ events[id].round = 0 /\ ~events[id].isRoot
    BY <1>3 DEF Visit, Unassigned
  <2> DEFINE ps == events[id].parents
  <2>2. CASE UNCHANGED <<events, visiting, visitStep>>
    BY <2>2
  <2>3. CASE SetRound(id, 0, TRUE)
    <3>1. 0 \in Nat /\ TRUE \in BOOLEAN /\ 0 = 0 /\ TRUE
      OBVIOUS
    <3>2. \E r \in Nat, w \in BOOLEAN : SetRound(id, r, w) /\ r = 0 /\ w
      BY <2>3, <3>1, Zenon
    <3> QED
      BY <2>1, <3>2
  <2>4. CASE /\ ps \subseteq DOMAIN events
             /\ \E p \in ps :
                  LET allRoots == \A q \in ps : events[q].isRoot
                      r == IF allRoots THEN events[p].round + 1 ELSE events[p].round
                  IN SetRound(id, r, IsStructuralWitness(id, r))
    <3>1. PICK p \in ps :
             LET allRoots == \A q \in ps : events[q].isRoot
                 r == IF allRoots THEN events[p].round + 1 ELSE events[p].round
             IN SetRound(id, r, IsStructuralWitness(id, r))
      BY <2>4
    <3>2. p \in DOMAIN events /\ events[p] \in Event /\ events[p].round \in Nat
      BY <1>1, <2>4 DEF Event
    <3>3. ASSUME NEW r \in Nat PROVE IsStructuralWitness(id, r) \in BOOLEAN
      BY DEF IsStructuralWitness
    <3>4. CASE \A q \in ps : events[q].isRoot
      <4> DEFINE r == events[p].round + 1
      <4>1. r \in Nat /\ SetRound(id, r, IsStructuralWitness(id, r))
        BY <3>1, <3>2, <3>4
      <4>2. events[p].isRoot
        BY <3>4
      <4> QED
        BY <2>1, <2>4, <3>3, <4>1, <4>2
    <3>5. CASE ~ \A q \in ps : events[q].isRoot
      <4> DEFINE r == events[p].round
      <4>1. r \in Nat /\ SetRound(id, r, IsStructuralWitness(id, r))
        BY <3>1, <3>2, <3>5
      <4> QED
        BY <2>1, <2>4, <3>3, <4>1
    <3> QED
      BY <3>4, <3>5
  <2> QED
    BY <2>1, <2>2, <2>3, <2>4 DEF AssignRound
<1> QED
  BY <1>2, <1>3

(* A visit preserves the types. *)
LEMMA VisitType ==
  ASSUME RoundTypeOK, NEW id \in todo, Visit(id)
  PROVE  RoundTypeOK'
<1>1. /\ todo' = todo \ {id} /\ id \in DOMAIN events /\ visitStep = "idle"
      /\ UNCHANGED <<heads, rounds, lastRound, storing, storeStep, passing, crashed>>
  BY DEF Visit, RoundTypeOK
<1>2. CASE UNCHANGED <<events, visiting, visitStep>>
  BY <1>1, <1>2 DEF RoundTypeOK, PosetTypeOK, StoreRound, VisitRound, LamportRound
<1>3. CASE ~UNCHANGED <<events, visiting, visitStep>>
  <2>1. PICK r \in Nat, w \in BOOLEAN : SetRound(id, r, w) /\ ~events[id].isRoot
    BY <1>3, VisitCases
  <2>2. /\ IsMap(events', EventID, Event)
        /\ SameContents
        /\ events'[id].round = r /\ events'[id].isRoot = w
        /\ w => visiting' = id /\ visitStep' = FirstStep(r)
        /\ ~w => visiting' = NoEvent /\ visitStep' = "idle"
    BY <1>1, <2>1, SetRoundFacts
  <2>3. DOMAIN events' = DOMAIN events
    BY <2>2 DEF SameContents
  <2>4. storeStep # "idle" => StoreRound' = StoreRound
    BY <1>1, <2>2 DEF StoreRound, LamportRound, SameContents, RoundTypeOK, PosetTypeOK
  <2>5. PosetTypeOK'
    BY <1>1, <2>2, <2>3, <2>4 DEF RoundTypeOK, PosetTypeOK, Steps
  <2>6. CASE w
    <3>1. VisitRound' = r /\ visiting' = id /\ visitStep' = FirstStep(r)
      BY <2>2, <2>6 DEF VisitRound
    <3>2. visitStep' \in Steps /\ visitStep' # "idle"
      BY <3>1 DEF FirstStep, Steps
    <3>3. visitStep' \in {"witness", "root"} => VisitRound' \in DOMAIN rounds'
      BY <1>1, <3>1 DEF FirstStep
    <3>4. passing'
      BY <1>1 DEF RoundTypeOK
    <3> QED
      BY <1>1, <2>2, <2>3, <2>5, <2>6, <3>1, <3>2, <3>3, <3>4 DEF RoundTypeOK
  <2>7. CASE ~w
    BY <1>1, <2>2, <2>3, <2>5, <2>7 DEF RoundTypeOK, Steps
  <2> QED
    BY <2>6, <2>7
<1> QED
  BY <1>2, <1>3

(* The steps on the table preserve the types. *)
LEMMA TableType ==
  ASSUME RoundTypeOK, StoreGoesOn \/ VisitGoesOn
  PROVE  RoundTypeOK'
<1>1. events' = events /\ heads' = heads
  BY StoreSteps, VisitSteps
<1>2. CASE StoreGoesOn
  <2>1. /\ UNCHANGED <<passing, todo, visiting, visitStep, crashed>>
        /\ IsMap(rounds', Nat, RoundInfo)
    BY <1>2, StoreSteps
  <2>2. storing \in DOMAIN events /\ storing \in EventID
    BY <1>2, StepRounds, StoreSteps DEF RoundTypeOK, PosetTypeOK
  <2>3. storing' = storing => StoreRound' = StoreRound
    BY <1>1 DEF StoreRound, LamportRound
  <2>4. VisitRound' = VisitRound
    BY <1>1, <2>1 DEF VisitRound
  <2>5. DOMAIN rounds \subseteq DOMAIN rounds'
    BY <1>2, TableGrows
  <2>6. \A r \in DOMAIN rounds' :
           rounds'[r].witnesses \cup rounds'[r].roots \subseteq DOMAIN events'
    BY <1>1, <1>2, <2>2, StoreSteps
       DEF Opens, AddsWitness, AddsRoot, RoundTypeOK, PosetTypeOK
  <2>7. /\ lastRound' \in Nat
        /\ storeStep' \in Steps
        /\ storeStep' = "idle" => storing' = NoEvent
        /\ storeStep' # "idle" => storing' = storing
        /\ storeStep' # "idle" => StoreRound \in DOMAIN rounds'
    BY <1>2, StoreSteps, StepRounds
       DEF Opens, AddsWitness, RoundTypeOK, PosetTypeOK, Steps
  <2> QED
    BY <1>1, <2>1, <2>2, <2>3, <2>4, <2>5, <2>6, <2>7 DEF RoundTypeOK, PosetTypeOK
<1>3. CASE VisitGoesOn
  <2>1. /\ UNCHANGED <<lastRound, storing, storeStep, passing, todo, crashed>>
        /\ IsMap(rounds', Nat, RoundInfo)
    BY <1>3, VisitSteps
  <2>2. visiting \in DOMAIN events /\ visiting \in EventID /\ visitStep # "idle"
    BY <1>3, StepRounds, VisitSteps DEF RoundTypeOK
  <2>3. visiting' = visiting => VisitRound' = VisitRound
    BY <1>1 DEF VisitRound
  <2>4. StoreRound' = StoreRound
    BY <1>1, <2>1 DEF StoreRound, LamportRound
  <2>5. DOMAIN rounds \subseteq DOMAIN rounds'
    BY <1>3, TableGrows
  <2>6. \A r \in DOMAIN rounds' :
           rounds'[r].witnesses \cup rounds'[r].roots \subseteq DOMAIN events'
    BY <1>1, <1>3, <2>2, VisitSteps
       DEF Opens, AddsWitness, AddsRoot, RoundTypeOK, PosetTypeOK
  <2>7. /\ visitStep' \in Steps
        /\ visitStep' = "idle" => visiting' = NoEvent
        /\ visitStep' # "idle" => visiting' = visiting
        /\ visitStep' # "idle" => VisitRound \in DOMAIN rounds'
    BY <1>3, VisitSteps DEF Opens, AddsWitness, Steps
  <2>8. PosetTypeOK'
    BY <1>1, <2>1, <2>4, <2>5, <2>6 DEF RoundTypeOK, PosetTypeOK
  <2> QED
    BY <1>1, <2>1, <2>2, <2>3, <2>7, <2>8 DEF RoundTypeOK
<1> QED
  BY <1>2, <1>3

(* Steps of the pass that leave events and table alone. *)
LEMMA PassType ==
  ASSUME RoundTypeOK, StartPass \/ EndPass \/ MapRace
  PROVE  RoundTypeOK' /\ UNCHANGED <<events, heads, rounds, lastRound, storing, storeStep,
                                     visiting, visitStep>>
<1>1. UNCHANGED <<events, heads, rounds, lastRound, storing, storeStep, visiting, visitStep>>
  BY DEF StartPass, EndPass, MapRace, posetVars
<1>2. StoreRound' = StoreRound /\ VisitRound' = VisitRound
  BY <1>1 DEF StoreRound, VisitRound, LamportRound
<1>3. PosetTypeOK'
  BY <1>1, <1>2 DEF RoundTypeOK, PosetTypeOK
<1>4. passing' \in BOOLEAN /\ crashed' \in BOOLEAN
  BY Zenon DEF StartPass, EndPass, MapRace, RoundTypeOK
<1>5. /\ todo' \subseteq DOMAIN events
      /\ todo' # {} => passing'
      /\ visitStep # "idle" => passing'
  BY DEF StartPass, EndPass, MapRace, RoundTypeOK
<1> QED
  BY <1>1, <1>2, <1>3, <1>4, <1>5 DEF RoundTypeOK

-----------------------------------------------------------------------------
(* The invariant, one lemma per step. *)

(* What a step that leaves the events alone leaves with them. *)
LEMMA SameEvents ==
  ASSUME events' = events
  PROVE  /\ \A x : Earliest(x)' <=> Earliest(x)
         /\ storing' = storing => /\ Earliest(storing)' <=> Earliest(storing)
                                  /\ StoreRound' = StoreRound
         /\ visiting' = visiting => VisitRound' = VisitRound
         /\ \A x : LamportRound(events'[x].lamport) = LamportRound(events[x].lamport)
         /\ RoundsContiguous => RoundsContiguous'
         /\ RoundSupported => RoundSupported'
<1>1. \A x : Earliest(x)' <=> Earliest(x)
  BY DEF Earliest, IsWitness, LamportRound
<1>2. storing' = storing => /\ Earliest(storing)' <=> Earliest(storing)
                            /\ StoreRound' = StoreRound
  BY DEF Earliest, IsWitness, LamportRound, StoreRound
<1>3. visiting' = visiting => VisitRound' = VisitRound
  BY DEF VisitRound
<1>4. RoundsContiguous => RoundsContiguous'
  BY DEF RoundsContiguous
<1>5. RoundSupported => RoundSupported'
  BY DEF RoundSupported
<1> QED
  BY <1>1, <1>2, <1>3, <1>4, <1>5

(* The store opens an entry: the event it stores is the first of its       *)
(* Lamport round, so no witness of another store is dropped with the old   *)
(* entry.                                                                  *)
LEMMA CreateEntryInv ==
  ASSUME RoundInv, StoreGoesOn, storeStep = "create"
  PROVE  RoundInv'
<1> DEFINE r == StoreRound
           lam(x) == LamportRound(events[x].lamport)
<1>1. RoundTypeOK /\ RoundTypeOK' /\ r \in Nat
  BY TableType, StepRounds DEF RoundInv
<1>2. /\ UNCHANGED <<events, visiting, visitStep, storing>>
      /\ storeStep' = "witness"
      /\ DOMAIN rounds' = DOMAIN rounds \cup {r}
      /\ \A x \in DOMAIN rounds : x # r => rounds'[x] = rounds[x]
      /\ rounds'[r].witnesses = {}
  BY <1>1, StoreSteps DEF Opens
<1>3. /\ \A x : Earliest(x)' <=> Earliest(x)
      /\ Earliest(storing)' <=> Earliest(storing)
      /\ StoreRound' = r /\ VisitRound' = VisitRound
      /\ RoundsContiguous' /\ RoundSupported'
  BY <1>2, SameEvents DEF RoundInv
<1>4. \A x \in DOMAIN events \ {storing} : lam(x) # r
  BY DEF RoundInv, RoundsOpened
<1>5. Earliest(storing)
  BY <1>1, <1>4, StepRounds DEF Earliest, IsWitness, StoreRound
<1>6. RoundsOpened'
  BY <1>2, <1>3 DEF RoundInv, RoundsOpened, LamportRound
<1>7. WitnessLostOnlyToPass'
  <2> SUFFICES ASSUME NEW x \in DOMAIN events, Earliest(x), x # storing
               PROVE  /\ lam(x) \in DOMAIN rounds'
                      /\ \/ x \in rounds'[lam(x)].witnesses
                         \/ \E y \in rounds'[lam(x)].witnesses :
                               events[y].isRoot /\ events[y].round = lam(x)
                         \/ visitStep \in {"create", "witness"} /\ VisitRound = lam(x)
    BY <1>2, <1>3 DEF WitnessLostOnlyToPass, ListsRoot, LamportRound
  <2>1. /\ lam(x) \in DOMAIN rounds
        /\ \/ x \in rounds[lam(x)].witnesses
           \/ ListsRoot(lam(x))
           \/ visitStep \in {"create", "witness"} /\ VisitRound = lam(x)
    BY DEF RoundInv, WitnessLostOnlyToPass
  <2>2. rounds'[lam(x)] = rounds[lam(x)]
    BY <1>2, <1>4, <2>1
  <2> QED
    BY <1>2, <2>1, <2>2 DEF ListsRoot
<1>8. RootLostOnlyToStore'
  <2> SUFFICES ASSUME NEW x \in DOMAIN events, events[x].isRoot,
                      x # visiting \/ visitStep = "root"
               PROVE  LET q == events[x].round IN
                      /\ q \in DOMAIN rounds'
                      /\ \/ /\ x \in rounds'[q].witnesses
                            /\ x \in rounds'[q].roots \/ x = visiting
                         \/ \E y \in rounds'[q].witnesses : LamportRound(events[y].lamport) = q
                         \/ r = q
    BY <1>2, <1>3, <1>5 DEF RootLostOnlyToStore, ListsStored, LamportRound
  <2>1. LET q == events[x].round IN
        /\ q \in DOMAIN rounds
        /\ \/ /\ x \in rounds[q].witnesses
              /\ x \in rounds[q].roots \/ x = visiting
           \/ ListsStored(q)
    BY DEF RoundInv, RootLostOnlyToStore
  <2> QED
    BY <1>2, <2>1 DEF ListsStored
<1>9. EveryRoundHasRoot'
  <2> SUFFICES ASSUME NEW q \in DOMAIN rounds'
               PROVE  \/ rounds'[q].witnesses \cap rounds'[q].roots # {}
                      \/ VisitFills(q)'
                      \/ StoreFills(q)'
    BY DEF EveryRoundHasRoot
  <2>1. CASE q = r
    BY <1>2, <1>3, <1>5, <2>1 DEF StoreFills
  <2>2. CASE q # r
    <3>1. q \in DOMAIN rounds /\ rounds'[q] = rounds[q]
      BY <1>2, <2>2
    <3>2. rounds[q].witnesses \cap rounds[q].roots # {} \/ VisitFills(q)
      BY <2>2, <3>1 DEF RoundInv, EveryRoundHasRoot, StoreFills
    <3> QED
      BY <1>2, <1>3, <3>1, <3>2 DEF VisitFills
  <2> QED
    BY <2>1, <2>2
<1> QED
  BY <1>1, <1>3, <1>6, <1>7, <1>8, <1>9 DEF RoundInv

(* The store registers its event as witness: every list of witnesses       *)
(* grows, and a round the store has opened now lists a stored event.       *)
LEMMA RegisterWitnessInv ==
  ASSUME RoundInv, StoreGoesOn, storeStep = "witness"
  PROVE  RoundInv'
<1> DEFINE r == StoreRound
           lam(x) == LamportRound(events[x].lamport)
<1>1. RoundTypeOK /\ RoundTypeOK' /\ r \in Nat
  BY TableType, StepRounds DEF RoundInv
<1>2. /\ UNCHANGED <<events, visiting, visitStep, storing>>
      /\ storeStep' = "root"
      /\ DOMAIN rounds' = DOMAIN rounds
      /\ \A x \in DOMAIN rounds : /\ x # r => rounds'[x] = rounds[x]
                                  /\ rounds[x].witnesses \subseteq rounds'[x].witnesses
                                  /\ rounds'[x].roots = rounds[x].roots
      /\ Earliest(storing) => rounds'[r].witnesses = rounds[r].witnesses \cup {storing}
      /\ r \in DOMAIN rounds
  BY <1>1, StoreSteps DEF AddsWitness, RoundTypeOK, PosetTypeOK
<1>3. /\ \A x : Earliest(x)' <=> Earliest(x)
      /\ Earliest(storing)' <=> Earliest(storing)
      /\ StoreRound' = r /\ VisitRound' = VisitRound
      /\ RoundsContiguous' /\ RoundSupported'
  BY <1>2, SameEvents DEF RoundInv
<1>4. lam(storing) = r
  BY DEF StoreRound
<1>5. RoundsOpened'
  BY <1>2, <1>3 DEF RoundInv, RoundsOpened, LamportRound
<1>6. WitnessLostOnlyToPass'
  <2> SUFFICES ASSUME NEW x \in DOMAIN events, Earliest(x)
               PROVE  /\ lam(x) \in DOMAIN rounds'
                      /\ \/ x \in rounds'[lam(x)].witnesses
                         \/ \E y \in rounds'[lam(x)].witnesses :
                               events[y].isRoot /\ events[y].round = lam(x)
                         \/ visitStep \in {"create", "witness"} /\ VisitRound = lam(x)
    BY <1>2, <1>3 DEF WitnessLostOnlyToPass, ListsRoot, LamportRound
  <2>1. CASE x = storing
    BY <1>2, <1>4, <2>1
  <2>2. CASE x # storing
    <3>1. /\ lam(x) \in DOMAIN rounds
          /\ \/ x \in rounds[lam(x)].witnesses
             \/ ListsRoot(lam(x))
             \/ visitStep \in {"create", "witness"} /\ VisitRound = lam(x)
      BY <2>2 DEF RoundInv, WitnessLostOnlyToPass
    <3> QED
      BY <1>2, <3>1 DEF ListsRoot
  <2> QED
    BY <2>1, <2>2
<1>7. RootLostOnlyToStore'
  <2> SUFFICES ASSUME NEW x \in DOMAIN events, events[x].isRoot,
                      x # visiting \/ visitStep = "root"
               PROVE  LET q == events[x].round IN
                      /\ q \in DOMAIN rounds'
                      /\ \/ /\ x \in rounds'[q].witnesses
                            /\ x \in rounds'[q].roots \/ x = visiting
                         \/ \E y \in rounds'[q].witnesses : LamportRound(events[y].lamport) = q
    BY <1>2, <1>3 DEF RootLostOnlyToStore, ListsStored, LamportRound
  <2>1. LET q == events[x].round IN
        /\ q \in DOMAIN rounds
        /\ \/ /\ x \in rounds[q].witnesses
              /\ x \in rounds[q].roots \/ x = visiting
           \/ ListsStored(q)
           \/ r = q /\ Earliest(storing)
    BY DEF RoundInv, RootLostOnlyToStore
  <2> QED
    BY <1>2, <1>4, <2>1 DEF ListsStored
<1>8. EveryRoundHasRoot'
  <2> SUFFICES ASSUME NEW q \in DOMAIN rounds'
               PROVE  \/ rounds'[q].witnesses \cap rounds'[q].roots # {}
                      \/ VisitFills(q)'
                      \/ StoreFills(q)'
    BY DEF EveryRoundHasRoot
  <2>1. \/ rounds[q].witnesses \cap rounds[q].roots # {}
        \/ VisitFills(q)
        \/ StoreFills(q)
    BY <1>2 DEF RoundInv, EveryRoundHasRoot
  <2>2. CASE VisitFills(q)
    BY <1>2, <1>3, <2>2 DEF VisitFills
  <2>3. CASE StoreFills(q)
    <3>1. q = r /\ Earliest(storing) /\ rounds[r].witnesses = {}
      BY <2>3 DEF StoreFills
    <3> QED
      BY <1>2, <1>3, <3>1 DEF StoreFills
  <2> QED
    BY <1>2, <2>1, <2>2, <2>3
<1> QED
  BY <1>1, <1>3, <1>5, <1>6, <1>7, <1>8 DEF RoundInv

(* The store registers its event as root: the only witness of a round is   *)
(* its root.                                                               *)
LEMMA RegisterRootInv ==
  ASSUME RoundInv, StoreGoesOn, storeStep = "root"
  PROVE  RoundInv'
<1> DEFINE r == StoreRound
           lam(x) == LamportRound(events[x].lamport)
<1>1. /\ RoundTypeOK /\ RoundTypeOK' /\ r \in DOMAIN rounds
      /\ storing \in DOMAIN events /\ storing \in EventID
  BY TableType, StepRounds DEF RoundInv, RoundTypeOK, PosetTypeOK
<1>2. /\ UNCHANGED <<events, visiting, visitStep>>
      /\ storeStep' = "idle" /\ storing' = NoEvent
      /\ DOMAIN rounds' = DOMAIN rounds
      /\ \A x \in DOMAIN rounds : /\ rounds'[x].witnesses = rounds[x].witnesses
                                  /\ rounds[x].roots \subseteq rounds'[x].roots
      /\ IsRoot(events, rounds[r], storing) => storing \in rounds'[r].roots
  BY <1>1, StoreSteps DEF AddsRoot
<1>3. /\ \A x : Earliest(x)' <=> Earliest(x)
      /\ VisitRound' = VisitRound
      /\ RoundsContiguous' /\ RoundSupported'
  BY <1>2, SameEvents DEF RoundInv
<1>4. lam(storing) = r
  BY DEF StoreRound
<1>5. RoundsOpened'
  BY <1>1, <1>2, <1>3, <1>4 DEF RoundInv, RoundsOpened, LamportRound
<1>6. WitnessLostOnlyToPass'
  <2> SUFFICES ASSUME NEW x \in DOMAIN events, Earliest(x)
               PROVE  /\ lam(x) \in DOMAIN rounds'
                      /\ \/ x \in rounds'[lam(x)].witnesses
                         \/ \E y \in rounds'[lam(x)].witnesses :
                               events[y].isRoot /\ events[y].round = lam(x)
                         \/ visitStep \in {"create", "witness"} /\ VisitRound = lam(x)
    BY <1>2, <1>3 DEF WitnessLostOnlyToPass, ListsRoot, LamportRound
  <2>1. /\ lam(x) \in DOMAIN rounds
        /\ \/ x \in rounds[lam(x)].witnesses
           \/ ListsRoot(lam(x))
           \/ visitStep \in {"create", "witness"} /\ VisitRound = lam(x)
    BY DEF RoundInv, WitnessLostOnlyToPass
  <2> QED
    BY <1>2, <2>1 DEF ListsRoot
<1>7. RootLostOnlyToStore'
  <2> SUFFICES ASSUME NEW x \in DOMAIN events, events[x].isRoot,
                      x # visiting \/ visitStep = "root"
               PROVE  LET q == events[x].round IN
                      /\ q \in DOMAIN rounds'
                      /\ \/ /\ x \in rounds'[q].witnesses
                            /\ x \in rounds'[q].roots \/ x = visiting
                         \/ \E y \in rounds'[q].witnesses : LamportRound(events[y].lamport) = q
    BY <1>2, <1>3 DEF RootLostOnlyToStore, ListsStored, LamportRound
  <2>1. LET q == events[x].round IN
        /\ q \in DOMAIN rounds
        /\ \/ /\ x \in rounds[q].witnesses
              /\ x \in rounds[q].roots \/ x = visiting
           \/ ListsStored(q)
    BY DEF RoundInv, RootLostOnlyToStore
  <2> QED
    BY <1>2, <2>1 DEF ListsStored
<1>8. EveryRoundHasRoot'
  <2> SUFFICES ASSUME NEW q \in DOMAIN rounds'
               PROVE  \/ rounds'[q].witnesses \cap rounds'[q].roots # {}
                      \/ VisitFills(q)'
    BY DEF EveryRoundHasRoot
  <2>1. \/ rounds[q].witnesses \cap rounds[q].roots # {}
        \/ VisitFills(q)
        \/ StoreFills(q)
    BY <1>2 DEF RoundInv, EveryRoundHasRoot
  <2>2. CASE VisitFills(q)
    BY <1>2, <1>3, <2>2 DEF VisitFills
  <2>3. CASE StoreFills(q)
    <3>1. q = r /\ rounds[r].witnesses = {storing}
      BY <2>3 DEF StoreFills
    <3>2. IsRoot(events, rounds[r], storing)
      BY <1>1, <3>1, LoneWitnessIsRoot
    <3> QED
      BY <1>1, <1>2, <3>1, <3>2
  <2> QED
    BY <1>2, <2>1, <2>2, <2>3
<1> QED
  BY <1>1, <1>3, <1>5, <1>6, <1>7, <1>8 DEF RoundInv

(* A visit opens an entry: no other root has its round, so no root is      *)
(* dropped with the old entry.                                             *)
LEMMA EnsureEntryInv ==
  ASSUME RoundInv, VisitGoesOn, visitStep = "create"
  PROVE  RoundInv'
<1> DEFINE r == VisitRound
           lam(x) == LamportRound(events[x].lamport)
<1>1. RoundTypeOK /\ RoundTypeOK' /\ r \in Nat
  BY TableType, StepRounds DEF RoundInv
<1>2. /\ UNCHANGED <<events, visiting, storing, storeStep>>
      /\ visitStep' = "witness"
      /\ DOMAIN rounds' = DOMAIN rounds \cup {r}
      /\ \A x \in DOMAIN rounds : x # r => rounds'[x] = rounds[x]
  BY <1>1, VisitSteps DEF Opens
<1>3. /\ \A x : Earliest(x)' <=> Earliest(x)
      /\ Earliest(storing)' <=> Earliest(storing)
      /\ VisitRound' = r /\ StoreRound' = StoreRound
      /\ RoundsContiguous' /\ RoundSupported'
  BY <1>2, SameEvents DEF RoundInv
<1>4. \A x \in DOMAIN events \ {visiting} : ~(events[x].isRoot /\ events[x].round = r)
  BY DEF RoundInv, RoundsOpened
<1>5. RoundsOpened'
  BY <1>2, <1>3 DEF RoundInv, RoundsOpened, LamportRound
<1>6. WitnessLostOnlyToPass'
  <2> SUFFICES ASSUME NEW x \in DOMAIN events, Earliest(x), x # storing \/ storeStep = "root"
               PROVE  /\ lam(x) \in DOMAIN rounds'
                      /\ \/ x \in rounds'[lam(x)].witnesses
                         \/ \E y \in rounds'[lam(x)].witnesses :
                               events[y].isRoot /\ events[y].round = lam(x)
                         \/ r = lam(x)
    BY <1>2, <1>3 DEF WitnessLostOnlyToPass, ListsRoot, LamportRound
  <2>1. /\ lam(x) \in DOMAIN rounds
        /\ \/ x \in rounds[lam(x)].witnesses
           \/ ListsRoot(lam(x))
           \/ r = lam(x)
    BY DEF RoundInv, WitnessLostOnlyToPass
  <2> QED
    BY <1>2, <2>1 DEF ListsRoot
<1>7. RootLostOnlyToStore'
  <2> SUFFICES ASSUME NEW x \in DOMAIN events, events[x].isRoot, x # visiting
               PROVE  LET q == events[x].round IN
                      /\ q \in DOMAIN rounds'
                      /\ \/ /\ x \in rounds'[q].witnesses
                            /\ x \in rounds'[q].roots \/ x = visiting
                         \/ \E y \in rounds'[q].witnesses : LamportRound(events[y].lamport) = q
                         \/ storeStep = "witness" /\ StoreRound = q /\ Earliest(storing)
    BY <1>2, <1>3 DEF RootLostOnlyToStore, ListsStored, LamportRound
  <2>1. LET q == events[x].round IN
        /\ q \in DOMAIN rounds
        /\ \/ /\ x \in rounds[q].witnesses
              /\ x \in rounds[q].roots \/ x = visiting
           \/ ListsStored(q)
           \/ storeStep = "witness" /\ StoreRound = q /\ Earliest(storing)
    BY DEF RoundInv, RootLostOnlyToStore
  <2>2. rounds'[events[x].round] = rounds[events[x].round]
    BY <1>2, <1>4, <2>1
  <2> QED
    BY <1>2, <2>1, <2>2 DEF ListsStored
<1>8. EveryRoundHasRoot'
  <2> SUFFICES ASSUME NEW q \in DOMAIN rounds'
               PROVE  \/ rounds'[q].witnesses \cap rounds'[q].roots # {}
                      \/ VisitFills(q)'
                      \/ StoreFills(q)'
    BY DEF EveryRoundHasRoot
  <2>1. CASE q = r
    BY <1>2, <1>3, <2>1 DEF VisitFills
  <2>2. CASE q # r
    <3>1. q \in DOMAIN rounds /\ rounds'[q] = rounds[q]
      BY <1>2, <2>2
    <3>2. rounds[q].witnesses \cap rounds[q].roots # {} \/ StoreFills(q)
      BY <2>2, <3>1 DEF RoundInv, EveryRoundHasRoot, VisitFills
    <3> QED
      BY <1>2, <1>3, <3>1, <3>2 DEF StoreFills
  <2> QED
    BY <2>1, <2>2
<1> QED
  BY <1>1, <1>3, <1>5, <1>6, <1>7, <1>8 DEF RoundInv

(* A visit registers its event as witness. *)
LEMMA VisitWitnessInv ==
  ASSUME RoundInv, VisitGoesOn, visitStep = "witness"
  PROVE  RoundInv'
<1> DEFINE r == VisitRound
           lam(x) == LamportRound(events[x].lamport)
<1>1. /\ RoundTypeOK /\ RoundTypeOK' /\ r \in DOMAIN rounds
      /\ visiting \in DOMAIN events /\ events[visiting].isRoot /\ events[visiting].round = r
  BY TableType DEF RoundInv, RoundTypeOK, VisitRound
<1>2. /\ UNCHANGED <<events, visiting, storing, storeStep>>
      /\ visitStep' = "root"
      /\ DOMAIN rounds' = DOMAIN rounds
      /\ \A x \in DOMAIN rounds : /\ x # r => rounds'[x] = rounds[x]
                                  /\ rounds[x].witnesses \subseteq rounds'[x].witnesses
                                  /\ rounds'[x].roots = rounds[x].roots
      /\ visiting \in rounds'[r].witnesses
  BY <1>1, VisitSteps DEF AddsWitness
<1>3. /\ \A x : Earliest(x)' <=> Earliest(x)
      /\ Earliest(storing)' <=> Earliest(storing)
      /\ VisitRound' = r /\ StoreRound' = StoreRound
      /\ RoundsContiguous' /\ RoundSupported'
  BY <1>2, SameEvents DEF RoundInv
<1>4. RoundsOpened'
  BY <1>2, <1>3 DEF RoundInv, RoundsOpened, LamportRound
<1>5. WitnessLostOnlyToPass'
  <2> SUFFICES ASSUME NEW x \in DOMAIN events, Earliest(x), x # storing \/ storeStep = "root"
               PROVE  /\ lam(x) \in DOMAIN rounds'
                      /\ \/ x \in rounds'[lam(x)].witnesses
                         \/ \E y \in rounds'[lam(x)].witnesses :
                               events[y].isRoot /\ events[y].round = lam(x)
    BY <1>2, <1>3 DEF WitnessLostOnlyToPass, ListsRoot, LamportRound
  <2>1. /\ lam(x) \in DOMAIN rounds
        /\ \/ x \in rounds[lam(x)].witnesses
           \/ ListsRoot(lam(x))
           \/ r = lam(x)
    BY DEF RoundInv, WitnessLostOnlyToPass
  <2> QED
    BY <1>1, <1>2, <2>1 DEF ListsRoot
<1>6. RootLostOnlyToStore'
  <2> SUFFICES ASSUME NEW x \in DOMAIN events, events[x].isRoot
               PROVE  LET q == events[x].round IN
                      /\ q \in DOMAIN rounds'
                      /\ \/ /\ x \in rounds'[q].witnesses
                            /\ x \in rounds'[q].roots \/ x = visiting
                         \/ \E y \in rounds'[q].witnesses : LamportRound(events[y].lamport) = q
                         \/ storeStep = "witness" /\ StoreRound = q /\ Earliest(storing)
    BY <1>2, <1>3 DEF RootLostOnlyToStore, ListsStored, LamportRound
  <2>1. CASE x = visiting
    BY <1>1, <1>2, <2>1
  <2>2. CASE x # visiting
    <3>1. LET q == events[x].round IN
          /\ q \in DOMAIN rounds
          /\ \/ x \in rounds[q].witnesses /\ x \in rounds[q].roots
             \/ ListsStored(q)
             \/ storeStep = "witness" /\ StoreRound = q /\ Earliest(storing)
      BY <2>2 DEF RoundInv, RootLostOnlyToStore
    <3> QED
      BY <1>2, <3>1 DEF ListsStored
  <2> QED
    BY <2>1, <2>2
<1>7. EveryRoundHasRoot'
  <2> SUFFICES ASSUME NEW q \in DOMAIN rounds'
               PROVE  \/ rounds'[q].witnesses \cap rounds'[q].roots # {}
                      \/ VisitFills(q)'
                      \/ StoreFills(q)'
    BY DEF EveryRoundHasRoot
  <2>1. CASE q = r
    BY <1>2, <1>3, <2>1 DEF VisitFills
  <2>2. CASE q # r
    <3>1. q \in DOMAIN rounds /\ rounds'[q] = rounds[q]
      BY <1>2, <2>2
    <3>2. rounds[q].witnesses \cap rounds[q].roots # {} \/ StoreFills(q)
      BY <2>2, <3>1 DEF RoundInv, EveryRoundHasRoot, VisitFills
    <3> QED
      BY <1>2, <1>3, <3>1, <3>2 DEF StoreFills
  <2> QED
    BY <2>1, <2>2
<1> QED
  BY <1>1, <1>3, <1>4, <1>5, <1>6, <1>7 DEF RoundInv

(* A visit registers its event as root and is over. *)
LEMMA VisitRootInv ==
  ASSUME RoundInv, VisitGoesOn, visitStep = "root"
  PROVE  RoundInv'
<1> DEFINE r == VisitRound
           lam(x) == LamportRound(events[x].lamport)
<1>1. /\ RoundTypeOK /\ RoundTypeOK' /\ r \in DOMAIN rounds
      /\ events[visiting].round = r
  BY TableType DEF RoundInv, RoundTypeOK, VisitRound
<1>2. /\ UNCHANGED <<events, storing, storeStep>>
      /\ visitStep' = "idle" /\ visiting' = NoEvent
      /\ DOMAIN rounds' = DOMAIN rounds
      /\ \A x \in DOMAIN rounds : /\ rounds'[x].witnesses = rounds[x].witnesses
                                  /\ rounds[x].roots \subseteq rounds'[x].roots
      /\ visiting \in rounds'[r].roots
  BY <1>1, VisitSteps DEF AddsRoot
<1>3. /\ \A x : Earliest(x)' <=> Earliest(x)
      /\ Earliest(storing)' <=> Earliest(storing)
      /\ StoreRound' = StoreRound
      /\ RoundsContiguous' /\ RoundSupported'
  BY <1>2, SameEvents DEF RoundInv
<1>4. RoundsOpened'
  BY <1>2, <1>3 DEF RoundInv, RoundsOpened, LamportRound
<1>5. WitnessLostOnlyToPass'
  <2> SUFFICES ASSUME NEW x \in DOMAIN events, Earliest(x), x # storing \/ storeStep = "root"
               PROVE  /\ lam(x) \in DOMAIN rounds'
                      /\ \/ x \in rounds'[lam(x)].witnesses
                         \/ \E y \in rounds'[lam(x)].witnesses :
                               events[y].isRoot /\ events[y].round = lam(x)
    BY <1>2, <1>3 DEF WitnessLostOnlyToPass, ListsRoot, LamportRound
  <2>1. /\ lam(x) \in DOMAIN rounds
        /\ x \in rounds[lam(x)].witnesses \/ ListsRoot(lam(x))
    BY DEF RoundInv, WitnessLostOnlyToPass
  <2> QED
    BY <1>2, <2>1 DEF ListsRoot
<1>6. RootLostOnlyToStore'
  <2> SUFFICES ASSUME NEW x \in DOMAIN events, events[x].isRoot
               PROVE  LET q == events[x].round IN
                      /\ q \in DOMAIN rounds'
                      /\ \/ x \in rounds'[q].witnesses /\ x \in rounds'[q].roots
                         \/ \E y \in rounds'[q].witnesses : LamportRound(events[y].lamport) = q
                         \/ storeStep = "witness" /\ StoreRound = q /\ Earliest(storing)
    BY <1>2, <1>3 DEF RootLostOnlyToStore, ListsStored, LamportRound
  <2>1. LET q == events[x].round IN
        /\ q \in DOMAIN rounds
        /\ \/ x \in rounds[q].witnesses /\ (x \in rounds[q].roots \/ x = visiting)
           \/ ListsStored(q)
           \/ storeStep = "witness" /\ StoreRound = q /\ Earliest(storing)
    BY DEF RoundInv, RootLostOnlyToStore
  <2> QED
    BY <1>1, <1>2, <2>1 DEF ListsStored
<1>7. EveryRoundHasRoot'
  <2> SUFFICES ASSUME NEW q \in DOMAIN rounds'
               PROVE  \/ rounds'[q].witnesses \cap rounds'[q].roots # {}
                      \/ StoreFills(q)'
    BY DEF EveryRoundHasRoot
  <2>1. \/ rounds[q].witnesses \cap rounds[q].roots # {}
        \/ VisitFills(q)
        \/ StoreFills(q)
    BY <1>2 DEF RoundInv, EveryRoundHasRoot
  <2>2. CASE VisitFills(q)
    BY <1>2, <2>2 DEF VisitFills
  <2>3. CASE StoreFills(q)
    BY <1>2, <1>3, <2>3 DEF StoreFills
  <2> QED
    BY <1>2, <2>1, <2>2, <2>3
<1> QED
  BY <1>1, <1>3, <1>4, <1>5, <1>6, <1>7 DEF RoundInv

(* A visit sets the round of its event, and has the table still to write.  *)
(* If it has found no entry, no other root has this round.                 *)
LEMMA VisitInv ==
  ASSUME RoundInv, NEW id \in todo, Visit(id)
  PROVE  RoundInv'
<1> DEFINE lam(x) == LamportRound(events[x].lamport)
<1>1. RoundTypeOK /\ RoundTypeOK'
  BY VisitType DEF RoundInv
<1>2. /\ UNCHANGED <<rounds, storing, storeStep>>
      /\ visitStep = "idle" /\ visiting = NoEvent /\ id \in DOMAIN events
  BY DEF Visit, RoundInv, RoundTypeOK
<1>3. CASE UNCHANGED <<events, visiting, visitStep>>
  <2>1. /\ \A x : Earliest(x)' <=> Earliest(x)
        /\ Earliest(storing)' <=> Earliest(storing)
        /\ StoreRound' = StoreRound /\ VisitRound' = VisitRound
        /\ RoundsContiguous' /\ RoundSupported'
    BY <1>2, <1>3, SameEvents DEF RoundInv
  <2> QED
    BY <1>1, <1>2, <1>3, <2>1
       DEF RoundInv, RoundsOpened, WitnessLostOnlyToPass, RootLostOnlyToStore,
           EveryRoundHasRoot, VisitFills, StoreFills, ListsRoot, ListsStored, LamportRound
<1>4. CASE ~UNCHANGED <<events, visiting, visitStep>>
  <2>1. id \in DOMAIN events /\ RoundTypeOK
    BY <1>1, <1>2
  <2>2. PICK r \in Nat, w \in BOOLEAN :
          /\ SetRound(id, r, w) /\ events[id].round = 0 /\ ~events[id].isRoot
          /\ \/ r = 0 /\ w
             \/ /\ events[id].parents \subseteq DOMAIN events
                /\ \E p \in events[id].parents :
                      \/ r = events[p].round
                      \/ events[p].isRoot /\ r = events[p].round + 1
    BY <1>4, <2>1, VisitCases
  <2>3. /\ DOMAIN events' = DOMAIN events
        /\ \A x \in DOMAIN events : x # id => events'[x] = events[x]
        /\ events'[id].round = r /\ events'[id].isRoot = w
        /\ \A x \in DOMAIN events : /\ events'[x].creator = events[x].creator
                                    /\ events'[x].parents = events[x].parents
                                    /\ events'[x].lamport = events[x].lamport
    BY <2>1, <2>2, SetRoundFacts DEF SameContents
  <2>4. /\ w => visiting' = id /\ visitStep' = FirstStep(r)
        /\ ~w => visiting' = NoEvent /\ visitStep' = "idle"
    BY <2>1, <2>2, SetRoundFacts
  <2>5. \A x \in DOMAIN events : events[x].round \in Nat /\ events'[x].round \in Nat
    BY <1>1, <2>1, <2>3 DEF RoundTypeOK, PosetTypeOK, IsMap, Event
  <2>6. /\ \A x \in DOMAIN events : Earliest(x)' <=> Earliest(x)
        /\ storeStep # "idle" => /\ storing \in DOMAIN events
                                 /\ StoreRound' = StoreRound
                                 /\ Earliest(storing)' <=> Earliest(storing)
    <3>1. ASSUME NEW x \in DOMAIN events
          PROVE  Earliest(x)' <=> Earliest(x)
      BY <2>3 DEF Earliest, IsWitness
    <3>2. storeStep # "idle" => storing \in DOMAIN events
      BY <1>1 DEF RoundTypeOK, PosetTypeOK
    <3>3. storeStep # "idle" => StoreRound' = StoreRound
      BY <1>2, <2>3, <3>2 DEF StoreRound
    <3>4. storeStep # "idle" => (Earliest(storing)' <=> Earliest(storing))
      BY <1>2, <2>3, <3>2 DEF Earliest, IsWitness
    <3> QED
      BY <3>1, <3>2, <3>3, <3>4
  <2>7. \A x \in DOMAIN events : /\ x # visiting
                                 /\ LamportRound(events'[x].lamport) = lam(x)
    BY <1>1, <1>2, <2>3, StepRounds
  <2>10. RoundsOpened'
    <3>1. \A x \in DOMAIN events : lam(x) \in DOMAIN rounds \/ x = storing
      BY DEF RoundInv, RoundsOpened
    <3>2. storeStep' = "create" =>
            \A x \in DOMAIN events \ {storing} : lam(x) # StoreRound
      BY <1>2 DEF RoundInv, RoundsOpened
    <3>3. ASSUME visitStep' = "create", NEW x \in DOMAIN events \ {visiting'}, events'[x].isRoot
          PROVE  events'[x].round # VisitRound'
      <4>1. w /\ visiting' = id /\ r \notin DOMAIN rounds
        BY <2>4, <3>3 DEF FirstStep
      <4>2. events'[x] = events[x]
        BY <2>3, <3>3, <4>1
      <4>3. events[x].round \in DOMAIN rounds
        BY <2>7, <3>3, <4>2 DEF RoundInv, RootLostOnlyToStore
      <4>4. VisitRound' = r
        BY <2>3, <4>1 DEF VisitRound
      <4> QED
        BY <4>1, <4>2, <4>3, <4>4
    <3> QED
      BY <1>2, <2>3, <2>6, <2>7, <3>1, <3>2, <3>3 DEF RoundsOpened
  <2>11. WitnessLostOnlyToPass'
    <3> SUFFICES ASSUME NEW x \in DOMAIN events, Earliest(x), x # storing \/ storeStep = "root"
                 PROVE  /\ lam(x) \in DOMAIN rounds
                        /\ \/ x \in rounds[lam(x)].witnesses
                           \/ \E y \in rounds[lam(x)].witnesses :
                                 events'[y].isRoot /\ events'[y].round = lam(x)
      BY <1>2, <2>3, <2>6, <2>7 DEF WitnessLostOnlyToPass, ListsRoot
    <3>1. /\ lam(x) \in DOMAIN rounds
          /\ x \in rounds[lam(x)].witnesses \/ ListsRoot(lam(x))
      BY <1>2 DEF RoundInv, WitnessLostOnlyToPass
    <3>2. rounds[lam(x)].witnesses \subseteq DOMAIN events
      BY <1>1, <3>1 DEF RoundTypeOK, PosetTypeOK
    <3> QED
      BY <2>2, <2>3, <3>1, <3>2 DEF ListsRoot
  <2>12. RootLostOnlyToStore'
    <3> SUFFICES ASSUME NEW x \in DOMAIN events, events'[x].isRoot,
                        x # visiting' \/ visitStep' = "root"
                 PROVE  LET q == events'[x].round IN
                        /\ q \in DOMAIN rounds
                        /\ \/ x \in rounds[q].witnesses /\ x \in rounds[q].roots
                           \/ \E y \in rounds[q].witnesses : LamportRound(events'[y].lamport) = q
                           \/ storeStep = "witness" /\ StoreRound = q /\ Earliest(storing)
      BY <1>2, <2>3, <2>6 DEF RootLostOnlyToStore, ListsStored
    <3>1. x # id
      BY <2>3, <2>4 DEF FirstStep
    <3>2. events'[x] = events[x] /\ x # visiting
      BY <2>3, <2>7, <3>1
    <3>3. LET q == events[x].round IN
          /\ q \in DOMAIN rounds
          /\ \/ x \in rounds[q].witnesses /\ x \in rounds[q].roots
             \/ ListsStored(q)
             \/ storeStep = "witness" /\ StoreRound = q /\ Earliest(storing)
      BY <3>2 DEF RoundInv, RootLostOnlyToStore
    <3>4. rounds[events[x].round].witnesses \subseteq DOMAIN events
      BY <1>1, <3>3 DEF RoundTypeOK, PosetTypeOK
    <3> QED
      BY <2>7, <3>2, <3>3, <3>4 DEF ListsStored
  <2>13. EveryRoundHasRoot'
    <3> SUFFICES ASSUME NEW q \in DOMAIN rounds
                 PROVE  \/ rounds[q].witnesses \cap rounds[q].roots # {}
                        \/ StoreFills(q)'
      BY <1>2 DEF EveryRoundHasRoot
    <3>1. rounds[q].witnesses \cap rounds[q].roots # {} \/ StoreFills(q)
      BY <1>2 DEF RoundInv, EveryRoundHasRoot, VisitFills
    <3> QED
      BY <1>2, <2>6, <3>1 DEF StoreFills
  <2>8. RoundsContiguous'
    <3> SUFFICES ASSUME NEW y \in DOMAIN events, events'[y].round > 0
                 PROVE  \E x \in DOMAIN events :
                           events'[x].isRoot /\ events'[x].round = events'[y].round - 1
      BY <2>3 DEF RoundsContiguous
    <3>1. ASSUME NEW z \in DOMAIN events, events[z].round > 0
          PROVE  \E x \in DOMAIN events :
                    events'[x].isRoot /\ events'[x].round = events[z].round - 1
      <4>1. PICK x \in DOMAIN events : events[x].isRoot /\ events[x].round = events[z].round - 1
        BY <3>1 DEF RoundInv, RoundsContiguous
      <4>2. x # id
        BY <2>2, <4>1
      <4> QED
        BY <2>3, <4>1, <4>2
    <3>2. CASE y # id
      BY <2>3, <3>1, <3>2
    <3>3. CASE y = id
      <4>1. PICK p \in DOMAIN events : \/ r = events[p].round
                                       \/ events[p].isRoot /\ r = events[p].round + 1
        BY <2>2, <2>3, <3>3
      <4>2. CASE r = events[p].round
        BY <2>3, <3>1, <3>3, <4>2
      <4>3. CASE events[p].isRoot /\ r = events[p].round + 1
        <5>1. p # id
          BY <2>2, <4>3
        <5>2. events'[p].isRoot /\ events'[p].round = events'[y].round - 1
          BY <2>3, <2>5, <3>3, <4>3, <5>1
        <5> QED
          BY <5>2
      <4> QED
        BY <4>1, <4>2, <4>3
    <3> QED
      BY <3>2, <3>3
  <2>9. RoundSupported'
    <3> SUFFICES ASSUME NEW y \in DOMAIN events, events'[y].round > 0
                 PROVE  /\ events[y].parents \subseteq DOMAIN events
                        /\ \E p \in events[y].parents :
                              events'[y].round <= events'[p].round + 1
      BY <2>3 DEF RoundSupported
    <3>1. CASE y # id
      <4>1. PICK p \in events[y].parents :
               events[y].parents \subseteq DOMAIN events /\ events[y].round <= events[p].round + 1
        BY <2>3, <3>1 DEF RoundInv, RoundSupported
      <4>2. events[p].round <= events'[p].round
        BY <2>2, <2>3, <2>5, <4>1
      <4>3. events'[y].round <= events'[p].round + 1
        BY <2>3, <2>5, <3>1, <4>1, <4>2
      <4> QED
        BY <4>1, <4>3
    <3>2. CASE y = id
      <4>1. events[id].parents \subseteq DOMAIN events
        BY <2>2, <2>3, <3>2
      <4>2. PICK p \in events[id].parents : \/ r = events[p].round
                                            \/ events[p].isRoot /\ r = events[p].round + 1
        BY <2>2, <2>3, <3>2
      <4>3. events[p].round <= events'[p].round
        BY <2>2, <2>3, <2>5, <4>1
      <4>4. r <= events'[p].round + 1
        BY <2>5, <4>1, <4>2, <4>3
      <4> QED
        BY <2>3, <3>2, <4>1, <4>4
    <3> QED
      BY <3>1, <3>2
  <2> QED
    BY <1>1, <2>8, <2>9, <2>10, <2>11, <2>12, <2>13 DEF RoundInv
<1> QED
  BY <1>3, <1>4

(* The store of an event has the table still to write.  If it has found no *)
(* entry, no other event has this Lamport round.                           *)
LEMMA StoreInv ==
  ASSUME RoundInv, NEW h \in Headers, Store(h)
  PROVE  RoundInv'
<1> DEFINE id == Hash(h)
           lam(x) == LamportRound(events[x].lamport)
<1>1. RoundTypeOK /\ RoundTypeOK'
  BY StoreType DEF RoundInv
<1>2. /\ id \notin DOMAIN events
      /\ storeStep = "idle" /\ storing = NoEvent /\ storing' = id
      /\ storeStep' = FirstStep(LamportRound(h.lamport))
      /\ DOMAIN events' = DOMAIN events \cup {id}
      /\ events'[id] = NewEvent(h)
      /\ \A x \in DOMAIN events : events'[x] = events[x]
      /\ UNCHANGED <<rounds, visiting, visitStep>>
  BY <1>1, StoreFacts
<1>3. /\ events'[id].round = 0 /\ ~events'[id].isRoot
      /\ events'[id].lamport = h.lamport
  BY <1>2 DEF NewEvent
<1> HIDE DEF id
<1>4. StoreRound' = LamportRound(h.lamport)
  BY <1>2, <1>3 DEF StoreRound
<1>5. \A x \in DOMAIN events : x # storing /\ lam(x) \in DOMAIN rounds
  BY <1>1, <1>2, StepRounds DEF RoundInv, RoundsOpened
<1>6. \A x \in DOMAIN events : Earliest(x)' => Earliest(x)
  BY <1>2 DEF Earliest, IsWitness
<1>7. visitStep # "idle" => visiting \in DOMAIN events /\ VisitRound' = VisitRound
  BY <1>1, <1>2 DEF RoundTypeOK, VisitRound
<1>8. \A q \in DOMAIN rounds : rounds[q].witnesses \subseteq DOMAIN events
  BY <1>1 DEF RoundTypeOK, PosetTypeOK
<1>9. RoundsOpened'
  <2>1. \A x \in DOMAIN events' : LamportRound(events'[x].lamport) \in DOMAIN rounds' \/ x = storing'
    BY <1>2, <1>5
  <2>2. storeStep' = "create" =>
          \A x \in DOMAIN events' \ {storing'} : LamportRound(events'[x].lamport) # StoreRound'
    BY <1>2, <1>4, <1>5 DEF FirstStep
  <2>3. visitStep' = "create" =>
          \A x \in DOMAIN events' \ {visiting'} :
             ~(events'[x].isRoot /\ events'[x].round = VisitRound')
    BY <1>2, <1>3, <1>7 DEF RoundInv, RoundsOpened
  <2> QED
    BY <2>1, <2>2, <2>3 DEF RoundsOpened
<1>10. WitnessLostOnlyToPass'
  <2> SUFFICES ASSUME NEW x \in DOMAIN events, Earliest(x)
               PROVE  /\ lam(x) \in DOMAIN rounds
                      /\ \/ x \in rounds[lam(x)].witnesses
                         \/ \E y \in rounds[lam(x)].witnesses :
                               events'[y].isRoot /\ events'[y].round = lam(x)
                         \/ visitStep \in {"create", "witness"} /\ VisitRound = lam(x)
    BY <1>2, <1>6, <1>7 DEF WitnessLostOnlyToPass, ListsRoot, FirstStep
  <2>1. /\ lam(x) \in DOMAIN rounds
        /\ \/ x \in rounds[lam(x)].witnesses
           \/ ListsRoot(lam(x))
           \/ visitStep \in {"create", "witness"} /\ VisitRound = lam(x)
    BY <1>5 DEF RoundInv, WitnessLostOnlyToPass
  <2> QED
    BY <1>2, <1>8, <2>1 DEF ListsRoot
<1>11. RootLostOnlyToStore'
  <2> SUFFICES ASSUME NEW x \in DOMAIN events, events[x].isRoot,
                      x # visiting \/ visitStep = "root"
               PROVE  LET q == events[x].round IN
                      /\ q \in DOMAIN rounds
                      /\ \/ /\ x \in rounds[q].witnesses
                            /\ x \in rounds[q].roots \/ x = visiting
                         \/ \E y \in rounds[q].witnesses : LamportRound(events'[y].lamport) = q
    BY <1>2, <1>3 DEF RootLostOnlyToStore, ListsStored
  <2>1. LET q == events[x].round IN
        /\ q \in DOMAIN rounds
        /\ \/ /\ x \in rounds[q].witnesses
              /\ x \in rounds[q].roots \/ x = visiting
           \/ ListsStored(q)
    BY <1>2 DEF RoundInv, RootLostOnlyToStore
  <2> QED
    BY <1>2, <1>8, <2>1 DEF ListsStored
<1>12. EveryRoundHasRoot'
  <2> SUFFICES ASSUME NEW q \in DOMAIN rounds
               PROVE  \/ rounds[q].witnesses \cap rounds[q].roots # {}
                      \/ VisitFills(q)'
    BY <1>2 DEF EveryRoundHasRoot
  <2>1. rounds[q].witnesses \cap rounds[q].roots # {} \/ VisitFills(q)
    BY <1>2 DEF RoundInv, EveryRoundHasRoot, StoreFills
  <2> QED
    BY <1>2, <1>7, <2>1 DEF VisitFills
<1>13. RoundsContiguous'
  <2> SUFFICES ASSUME NEW y \in DOMAIN events', events'[y].round > 0
               PROVE  \E x \in DOMAIN events' :
                         events'[x].isRoot /\ events'[x].round = events'[y].round - 1
    BY DEF RoundsContiguous
  <2>1. y \in DOMAIN events /\ events'[y] = events[y]
    BY <1>2, <1>3
  <2>2. PICK x \in DOMAIN events : events[x].isRoot /\ events[x].round = events[y].round - 1
    BY <2>1 DEF RoundInv, RoundsContiguous
  <2> QED
    BY <1>2, <2>1, <2>2
<1>14. RoundSupported'
  <2> SUFFICES ASSUME NEW y \in DOMAIN events', events'[y].round > 0
               PROVE  /\ events'[y].parents \subseteq DOMAIN events'
                      /\ \E p \in events'[y].parents : events'[y].round <= events'[p].round + 1
    BY DEF RoundSupported
  <2>1. y \in DOMAIN events /\ events'[y] = events[y]
    BY <1>2, <1>3
  <2>2. /\ events[y].parents \subseteq DOMAIN events
        /\ \E p \in events[y].parents : events[y].round <= events[p].round + 1
    BY <2>1 DEF RoundInv, RoundSupported
  <2> QED
    BY <1>2, <2>1, <2>2
<1> QED
  BY <1>1, <1>9, <1>10, <1>11, <1>12, <1>13, <1>14 DEF RoundInv

-----------------------------------------------------------------------------
(* RoundInv is inductive: it holds of the empty store, and no step of a    *)
(* pass, of a store or of a crash breaks it, in any interleaving of the    *)
(* two goroutines at the round table (consensus.go:431, 651-664).          *)
THEOREM RoundInvariant == RoundSpec => []RoundInv
<1>1. RoundInit => RoundInv
  <2> SUFFICES ASSUME RoundInit PROVE RoundInv
    OBVIOUS
  <2>1. /\ events = <<>> /\ heads = <<>> /\ rounds = <<>> /\ lastRound = 0
        /\ storing = NoEvent /\ storeStep = "idle" /\ visiting = NoEvent /\ visitStep = "idle"
        /\ passing = FALSE /\ todo = {} /\ crashed = FALSE
    BY DEF RoundInit, PosetInit
  <2>2. DOMAIN events = {} /\ DOMAIN heads = {} /\ DOMAIN rounds = {}
    BY <2>1
  <2>3. RoundTypeOK
    BY <2>1, <2>2, EmptyMap DEF RoundTypeOK, PosetTypeOK, Steps
  <2> QED
    BY <2>1, <2>2, <2>3
       DEF RoundInv, RoundsOpened, WitnessLostOnlyToPass, RootLostOnlyToStore,
           EveryRoundHasRoot, RoundsContiguous, RoundSupported
<1>2. RoundInv /\ [RoundNext]_roundVars => RoundInv'
  <2> SUFFICES ASSUME RoundInv, [RoundNext]_roundVars PROVE RoundInv'
    OBVIOUS
  <2>1. ASSUME UNCHANGED <<events, rounds, storing, storeStep, visiting, visitStep>>,
               RoundTypeOK'
        PROVE  RoundInv'
    <3>1. /\ \A x : Earliest(x)' <=> Earliest(x)
          /\ Earliest(storing)' <=> Earliest(storing)
          /\ StoreRound' = StoreRound /\ VisitRound' = VisitRound
          /\ RoundsContiguous' /\ RoundSupported'
      BY <2>1, SameEvents DEF RoundInv
    <3> QED
      BY <2>1, <3>1
         DEF RoundInv, RoundsOpened, WitnessLostOnlyToPass, RootLostOnlyToStore,
             EveryRoundHasRoot, VisitFills, StoreFills, ListsRoot, ListsStored, LamportRound
  <2>2. CASE StartPass \/ EndPass \/ MapRace
    BY <2>1, <2>2, PassType DEF RoundInv
  <2>3. CASE \E id \in todo : Visit(id)
    BY <2>3, VisitInv
  <2>4. CASE VisitGoesOn
    BY <2>4, EnsureEntryInv, VisitWitnessInv, VisitRootInv, VisitSteps DEF RoundInv
  <2>5. CASE \E h \in Headers : Store(h)
    BY <2>5, StoreInv
  <2>6. CASE StoreGoesOn
    BY <2>6, CreateEntryInv, RegisterWitnessInv, RegisterRootInv, StoreSteps DEF RoundInv
  <2>7. CASE UNCHANGED roundVars
    <3>1. RoundTypeOK'
      BY <2>7 DEF roundVars, RoundInv, RoundTypeOK, PosetTypeOK, StoreRound, VisitRound,
                  LamportRound
    <3> QED
      BY <2>1, <2>7, <3>1 DEF roundVars
  <2> QED
    BY <2>2, <2>3, <2>4, <2>5, <2>6, <2>7 DEF RoundNext
<1> QED
  BY <1>1, <1>2, PTL DEF RoundSpec

(* Every reachable state is well typed; what is being registered is        *)
(* stored, and the entry it goes into is there (poset.go:86-145,           *)
(* round_assignment.go:16-61).                                             *)
THEOREM RoundTypes == RoundSpec => []RoundTypeOK
<1>1. RoundInv => RoundTypeOK
  BY DEF RoundInv
<1> QED
  BY <1>1, RoundInvariant, PTL

(* Every round of the table has a witness that is a root, or the event     *)
(* that opened it is still being registered, although store and visit may  *)
(* replace each other's entry (poset.go:122-140,                           *)
(* round_assignment.go:55-60).                                             *)
THEOREM RoundsHaveRoots == RoundSpec => []EveryRoundHasRoot
<1>1. RoundInv => EveryRoundHasRoot
  BY DEF RoundInv
<1> QED
  BY <1>1, RoundInvariant, PTL

(* The earliest event of a creator in a Lamport round is one of its        *)
(* witnesses, unless a visit has created the entry a second time           *)
(* (poset.go:122-148, round_assignment.go:83).                             *)
THEOREM WitnessesKept == RoundSpec => []WitnessLostOnlyToPass
<1>1. RoundInv => WitnessLostOnlyToPass
  BY DEF RoundInv
<1> QED
  BY <1>1, RoundInvariant, PTL

(* A root is listed under its round, unless a store has created the entry  *)
(* a second time (round_assignment.go:57-59, poset.go:123).                *)
THEOREM RootsKept == RoundSpec => []RootLostOnlyToStore
<1>1. RoundInv => RootLostOnlyToStore
  BY DEF RoundInv
<1> QED
  BY <1>1, RoundInvariant, PTL

(* No round number is skipped (round_assignment.go:46).                    *)
THEOREM NoRoundGap == RoundSpec => []RoundsContiguous
<1>1. RoundInv => RoundsContiguous
  BY DEF RoundInv
<1> QED
  BY <1>1, RoundInvariant, PTL

(* An event is at most one round ahead of one of its parents, all of which *)
(* are stored (round_assignment.go:17-51).                                 *)
THEOREM RoundsSupported == RoundSpec => []RoundSupported
<1>1. RoundInv => RoundSupported
  BY DEF RoundInv
<1> QED
  BY <1>1, RoundInvariant, PTL

-----------------------------------------------------------------------------
(* The store alone, whatever the passes do meanwhile. *)

(* A step stores an event, completes a store, or leaves the contents of    *)
(* the events and the last round alone.                                    *)
LEMMA StepCases ==
    ASSUME RoundTypeOK, [RoundNext]_roundVars
    PROVE  \/ \E h \in Headers : Store(h)
           \/ StoreGoesOn /\ SameContents
           \/ SameContents /\ UNCHANGED <<lastRound, storing>>
<1>1. CASE \E id \in todo : Visit(id)
  <2>1. PICK id \in todo : Visit(id)
    BY <1>1
  <2>2. UNCHANGED <<lastRound, storing>>
    BY <2>1 DEF Visit
  <2>3. SameContents
    <3>1. CASE events' = events
      BY <3>1 DEF SameContents
    <3>2. CASE events' # events
      <4>1. PICK r \in Nat, w \in BOOLEAN : SetRound(id, r, w) /\ ~events[id].isRoot
        BY <2>1, <3>2, VisitCases
      <4>2. id \in DOMAIN events
        BY DEF RoundTypeOK
      <4> QED BY <4>1, <4>2, SetRoundFacts
    <3> QED BY <3>1, <3>2
  <2> QED BY <2>2, <2>3
<1>2. CASE StoreGoesOn
  BY <1>2, StoreSteps DEF SameContents
<1>3. CASE UNCHANGED <<events, lastRound, storing>>
  BY <1>3 DEF SameContents
<1> QED
  BY <1>1, <1>2, <1>3 DEF RoundNext, VisitGoesOn, StartPass, EndPass, MapRace, posetVars, roundVars

(* A store that begins adds the event that is excepted; one that ends      *)
(* takes it into account.                                                  *)
LEMMA LastRoundStep ==
    ASSUME RoundTypeOK, LastRoundIsGreatest, [RoundNext]_roundVars
    PROVE  LastRoundIsGreatest'
<1> DEFINE lam(x) == LamportRound(events[x].lamport)
<1>1. /\ \A x \in DOMAIN events : lam(x) \in Nat
      /\ \A x \in DOMAIN events \ {storing} : lam(x) <= lastRound
      /\ lastRound \in Nat
      /\ lastRound # 0 => \E x \in DOMAIN events : lam(x) = lastRound
  BY StepRounds DEF LastRoundIsGreatest, RoundTypeOK, PosetTypeOK
<1>2. CASE \E h \in Headers : Store(h)
  <2>1. PICK h \in Headers : Store(h)
    BY <1>2
  <2>2. /\ DOMAIN events' = DOMAIN events \cup {Hash(h)}
        /\ \A x \in DOMAIN events : events'[x] = events[x]
        /\ storing = NoEvent /\ storing' = Hash(h) /\ lastRound' = lastRound
    BY <2>1, StoreFacts
  <2>3. \A x \in DOMAIN events : x # storing
    BY <2>2, StepRounds
  <2> QED
    BY <1>1, <2>2, <2>3 DEF LastRoundIsGreatest
<1>3. ASSUME SameContents
      PROVE  /\ DOMAIN events' = DOMAIN events
             /\ \A x \in DOMAIN events : LamportRound(events'[x].lamport) = lam(x)
  BY <1>3 DEF SameContents
<1>4. CASE SameContents /\ UNCHANGED <<lastRound, storing>>
  BY <1>1, <1>3, <1>4 DEF LastRoundIsGreatest
<1>5. CASE StoreGoesOn /\ SameContents
  <2>1. CASE UNCHANGED <<lastRound, storing>>
    BY <1>4, <1>5, <2>1
  <2>2. CASE ~UNCHANGED <<lastRound, storing>>
    <3>1. /\ storeStep = "root"
          /\ lastRound' = IF lam(storing) > lastRound THEN lam(storing) ELSE lastRound
      BY <1>5, <2>2, StoreSteps DEF StoreRound
    <3>2. storing \in DOMAIN events
      BY <3>1 DEF RoundTypeOK, PosetTypeOK
    <3> HIDE DEF lam
    <3>3. lastRound <= lastRound' /\ lam(storing) <= lastRound' /\ lastRound' \in Nat
      BY <1>1, <3>1, <3>2
    <3>4. \A x \in DOMAIN events : lam(x) <= lastRound'
      BY <1>1, <3>3
    <3>5. lastRound' # 0 => \E x \in DOMAIN events : lam(x) = lastRound'
      BY <1>1, <3>1, <3>2
    <3> QED
      BY <1>3, <1>5, <3>4, <3>5 DEF LastRoundIsGreatest
  <2> QED
    BY <2>1, <2>2
<1> QED
  BY <1>2, <1>4, <1>5, StepCases

(* LastRound is the highest Lamport round of the events whose store is     *)
(* complete, in whatever order they arrive (poset.go:142).                 *)
THEOREM LastRoundFollowsStore == RoundSpec => []LastRoundIsGreatest
<1>1. RoundInit => LastRoundIsGreatest
  BY DEF RoundInit, PosetInit, LastRoundIsGreatest
<1>2. RoundTypeOK /\ LastRoundIsGreatest /\ [RoundNext]_roundVars => LastRoundIsGreatest'
  BY LastRoundStep
<1> QED BY <1>1, <1>2, RoundTypes, PTL DEF RoundSpec

-----------------------------------------------------------------------------
(* The contents of the stored events, which is what the ledger holds. *)
Contents == [id \in DOMAIN events |-> [creator |-> events[id].creator,
                                       parents |-> events[id].parents,
                                       lamport |-> events[id].lamport]]

LEMMA StoreBinds ==
    ASSUME RoundTypeOK, NEW h \in Headers, Store(h)
    PROVE  /\ Ledger!Hash(h) \notin DOMAIN Contents
           /\ Contents' = Ledger!Put(Contents, Ledger!Hash(h), Ledger!Content(h))
<1>1. /\ Hash(h) \notin DOMAIN events
      /\ DOMAIN events' = DOMAIN events \cup {Hash(h)}
      /\ events'[Hash(h)] = NewEvent(h)
      /\ \A x \in DOMAIN events : events'[x] = events[x]
  BY StoreFacts
<1>2. /\ events'[Hash(h)].creator = h.creator
      /\ events'[Hash(h)].parents = h.parents
      /\ events'[Hash(h)].lamport = h.lamport
  BY <1>1 DEF NewEvent
<1>3. Contents' = Put(Contents, Hash(h), Ledger!Content(h)) /\ Hash(h) \notin DOMAIN Contents
  BY <1>1, <1>2 DEF Contents, Put, Ledger!Content
<1> QED BY <1>3 DEF Put, Hash, Ledger!Put, Ledger!Hash

(* The store, with passes, visits and crashes at any time, implements the  *)
(* write-once ledger: an ID is bound once, to the first event under it,    *)
(* and the content of that event never changes (poset.go:90-95).           *)
THEOREM StoreRefinesLedger == RoundSpec => StoreIsWriteOnce
<1>1. RoundInit => Ledger!Init
  BY DEF RoundInit, PosetInit, Ledger!Init
<1>2. RoundTypeOK /\ [RoundNext]_roundVars => [Ledger!Next]_Contents
  <2> SUFFICES ASSUME RoundTypeOK, [RoundNext]_roundVars
               PROVE  Ledger!Next \/ Contents' = Contents
    BY DEF Contents
  <2>1. CASE \E h \in Headers : Store(h)
    <3>1. PICK h \in Headers : Store(h)
      BY <2>1
    <3>2. /\ Ledger!Hash(h) \notin DOMAIN Contents
          /\ Contents' = Ledger!Put(Contents, Ledger!Hash(h), Ledger!Content(h))
      BY <3>1, StoreBinds
    <3>3. Ledger!Bind(h)
      BY <3>2 DEF Ledger!Bind, Contents
    <3> QED BY <3>3 DEF Ledger!Next
  <2>2. CASE SameContents
    BY <2>2 DEF SameContents, Contents
  <2> QED BY <2>1, <2>2, StepCases
<1> QED BY <1>1, <1>2, RoundTypes, PTL DEF RoundSpec, StoreIsWriteOnce, Ledger!Spec, Contents

=============================================================================
