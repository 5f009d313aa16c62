---------------------------- MODULE ClothoSelector ----------------------------
(***************************************************************************)
(* clotho.go.  SelectClothos decides a round once: the set it stores, an   *)
(* empty one too, is never computed again.  It ranges over Go maps where   *)
(* the order matters (the first event of round 0, the first event of each  *)
(* validator in the next round), so those choices are nondeterministic.    *)
(***************************************************************************)
EXTENDS FameVoting

CONSTANTS MinVisibility,     \* minVisibilityCount
          GenesisCreator,    \* the CreatorID "genesis"
          FameAttached       \* whether the selector was given a FameVoting

ASSUME ClothoAssumption == MinVisibility \in Nat /\ FameAttached \in BOOLEAN

VARIABLE clothos   \* clothos: round -> set of selected witnesses

clothoVars == <<clothos>>
selectorVars == <<events, heads, rounds, lastRound, storing, storeStep,
                  passing, todo, visiting, visitStep, crashed,
                  votes, famous, decided, ballot, voting, voteRound,
                  fvDeadlocked, clothos>>

ClothoInit == RoundInit /\ FameInit /\ clothos = <<>>

-----------------------------------------------------------------------------
(* isFamous(). *)
IsFamous(w) == IF FameAttached THEN w \in famous ELSE events[w].isFamous

(* getFamousWitnesses(): the sets it may return. *)
FamousWitnesses(r) ==
    LET genesis == {w \in EventsOfRound(0) : events[w].creator = GenesisCreator}
    IN IF r # 0 THEN {{w \in EventsOfRound(r) : IsFamous(w)}}
       ELSE IF genesis # {} THEN {genesis}
       ELSE {{w} : w \in EventsOfRound(0)}

(* The event that satisfiesByzantineFaultTolerance meets first, for each   *)
(* validator with events in the round after r.                             *)
FirstMet(r) ==
    LET next == EventsOfRound(r + 1)
    IN {m \in [{events[x].creator : x \in next} -> next] :
           \A v \in DOMAIN m : events[m[v]].creator = v}

(* isClothoCandidateFantom(), its five conditions in the code's order:     *)
(* fame, hasEventsInNextRound, hasConsensusInNextRound,                    *)
(* hasProperVisibility and satisfiesByzantineFaultTolerance with the       *)
(* events `met`.                                                           *)
IsClothoCandidate(w, r, met) ==
    LET next == EventsOfRound(r + 1)
        seeing == {x \in next : CanSee(x, w)}
    IN /\ IsFamous(w)
       /\ (r = 0 /\ next = {}) \/ Cardinality(next) >= MinVisibility
       /\ (r = 0 /\ next = {}) \/ TwoThirds(Cardinality(seeing), Cardinality(next))
       /\ TwoThirds(Cardinality(seeing), Cardinality(next))
       /\ TwoThirds(Cardinality({v \in DOMAIN met : CanSee(met[v], w)}),
                    Cardinality(DOMAIN met))

(* SelectClothos(r). *)
SelectClothos(r) ==
    /\ ~crashed /\ ~passing /\ ~voting
    /\ r \notin DOMAIN clothos
    /\ \E witnesses \in FamousWitnesses(r) :
          /\ witnesses # {}
          /\ \E selected \in SUBSET witnesses :
                /\ \A w \in selected :
                      \E met \in FirstMet(r) : IsClothoCandidate(w, r, met)
                /\ \A w \in witnesses \ selected :
                      \E met \in FirstMet(r) : ~IsClothoCandidate(w, r, met)
                /\ clothos' = Put(clothos, r, selected)
    /\ UNCHANGED <<roundVars, fameVars>>

(* Reset(). *)
ResetClothos == /\ ~crashed
                /\ clothos' = <<>>
                /\ UNCHANGED <<roundVars, fameVars>>

(* A round pass runs under ce.mu, as the two selections do. *)
ClothoNext == \/ StartPass /\ ~voting /\ UNCHANGED <<fameVars, clothos>>
              \/ \E id \in todo : Visit(id) /\ UNCHANGED <<fameVars, clothos>>
              \/ VisitGoesOn /\ UNCHANGED <<fameVars, clothos>>
              \/ EndPass /\ UNCHANGED <<fameVars, clothos>>
              \/ \E h \in Headers : Store(h) /\ UNCHANGED <<fameVars, clothos>>
              \/ StoreGoesOn /\ UNCHANGED <<fameVars, clothos>>
              \/ FameStep /\ UNCHANGED clothos
              \/ \E r \in VoteRounds : SelectClothos(r)
              \/ ResetClothos

ClothoSpec == ClothoInit /\ [][ClothoNext]_selectorVars

-----------------------------------------------------------------------------
ClothoTypeOK == /\ RoundTypeOK
                /\ FameTypeOK
                /\ IsMap(clothos, VoteRounds, SUBSET EventID)

(* Every selection is empty.  The code departs from its comments here:     *)
(* hasEventsInNextRound, hasConsensusInNextRound and getFamousWitnesses    *)
(* mean to allow one in round 0 before round 1 exists (clotho.go:138-142,  *)
(* clotho.go:164-167, clotho.go:272-287).                                  *)
SelectionEmpty == \A r \in DOMAIN clothos : clothos[r] = {}

=============================================================================
