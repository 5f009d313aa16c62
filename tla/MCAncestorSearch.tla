--------------------------- MODULE MCAncestorSearch ---------------------------
(* Every event map over three IDs, and every pair of IDs. *)
EXTENDS AncestorSearch, TLC

CONSTANTS a, b, c, n1

MCEventID == {a, b, c}
MCCreator == {n1}
MCHeaders == {}

(* Every map over the IDs; only the parents matter to a search. *)
MCMaps ==
    LET bare == [creator |-> n1, lamport |-> 0] IN
    UNION {{[x \in D |-> NewEvent([parents |-> p[x]] @@ bare)] :
               p \in [D -> SUBSET MCEventID]} : D \in SUBSET MCEventID}
=============================================================================
