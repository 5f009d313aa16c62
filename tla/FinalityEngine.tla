---------------------------- MODULE FinalityEngine ----------------------------
(***************************************************************************)
(* finality.go: Clothos become Atropos.  FinalizeEvents ranges over the    *)
(* shared round table and reads the Clothos registered there, through a    *)
(* private cache with one entry per round: getClothos and                  *)
(* getFamousWitnesses replace each other's entry, and a cached list is     *)
(* never read again from the table.  The times an Atropos gets (a median   *)
(* of Lamport times, overwritten by the wall clock) are left out.          *)
(***************************************************************************)
EXTENDS ClothoSelector

VARIABLES feCache,   \* consensusCache: round -> [kind, ids]
          finTodo    \* rounds FinalizeEvents has still to range over

finalityVars == <<feCache, finTodo>>

FinalityDelay == 2

FinalityInit == feCache = <<>> /\ finTodo = {}

-----------------------------------------------------------------------------
(* Entry of the cache for round r that holds a list of this kind. *)
Cached(cache, r, kind) == r \in DOMAIN cache /\ cache[r].kind = kind

(* The list a getter returns, and the cache it leaves.  A round that is    *)
(* not in the table gives nil and is not cached.                           *)
Lookup(cache, r, kind, listed) ==
    CASE Cached(cache, r, kind) -> cache[r].ids
      [] ~Cached(cache, r, kind) /\ r \in DOMAIN rounds -> listed
      [] OTHER -> {}
Remember(cache, r, kind, listed) ==
    IF ~Cached(cache, r, kind) /\ r \in DOMAIN rounds
    THEN Put(cache, r, [kind |-> kind, ids |-> listed])
    ELSE cache

(* What the table lists: getClothos() and getFamousWitnesses(). *)
TableClothos(r) == IF r \in DOMAIN rounds THEN rounds[r].clothos ELSE {}
TableFamous(r) ==
    IF r \in DOMAIN rounds THEN {w \in rounds[r].witnesses : events[w].isFamous} ELSE {}

(* canBecomeAtroposFantom(), given the famous witnesses of round + 2.      *)
(* int(float64(n) * 2/3) rounds the required count down.                   *)
CanBecomeAtropos(x, famousLater) ==
    /\ events[x].isClotho
    /\ events[x].isFamous
    /\ famousLater # {}
    /\ Cardinality({w \in famousLater : IsAncestor(events, x, w)})
          >= (2 * Cardinality(famousLater)) \div 3

(* convertToAtroposFantom() on the table, for the events promoted. *)
RegisterAtropos(rs, r, promoted) ==
    IF promoted = {} THEN rs
    ELSE [EnsureRound(rs, r) EXCEPT ![r].atropos = @ \cup promoted]

(* FinalizeEvents() begins to range over the rounds. *)
StartFinality == finTodo' = DOMAIN rounds

(* A round entered in the table while a range over it is under way may or  *)
(* may not be produced by it.                                              *)
RangeMayMeet(ranging) ==
    \/ finTodo' = finTodo
    \/ ranging /\ finTodo' = finTodo \cup (DOMAIN rounds' \ DOMAIN rounds)

(* The body of FinalizeEvents for one round: getClothos, then, for each    *)
(* Clotho that is not Atropos yet, the test and the conversion.            *)
FinalizeRound(r) ==
    LET cl == Lookup(feCache, r, "clothos", TableClothos(r))
        cache1 == Remember(feCache, r, "clothos", TableClothos(r))
        later == r + FinalityDelay
        asked == {x \in cl : /\ ~events[x].atropos
                             /\ events[x].isClotho /\ events[x].isFamous}
        famousLater == Lookup(cache1, later, "famous_witnesses", TableFamous(later))
        promoted == {x \in asked : CanBecomeAtropos(x, famousLater)}
    IN /\ finTodo' = finTodo \ {r}
       /\ events' = [x \in DOMAIN events |->
                       [events[x] EXCEPT !.atropos = @ \/ x \in promoted]]
       /\ rounds' = RegisterAtropos(rounds, later, promoted)
       /\ feCache' = IF asked = {} THEN cache1
                     ELSE Remember(cache1, later, "famous_witnesses", TableFamous(later))

(* GetFinalizedEvents(). *)
GetFinalizedEvents == {x \in DOMAIN events : events[x].atropos}

FinalityTypeOK ==
    /\ IsMap(feCache, Nat, [kind : {"clothos", "famous_witnesses"}, ids : SUBSET EventID])
    /\ finTodo \subseteq DOMAIN rounds

=============================================================================
