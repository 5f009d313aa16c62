---------------------------- MODULE AncestorSearch ----------------------------
(***************************************************************************)
(* The graph search behind every visibility test: Poset.isAncestor (a      *)
(* queue) and DAG.IsAncestor (a recursion, that is a stack).  The frontier *)
(* is a set and the next ID is any member of it, so the behaviours include *)
(* both orders.  The event map does not change during a search: the caller *)
(* holds p.mu or d.mu.  The map is arbitrary: parents may be missing and   *)
(* the parent relation may have cycles (see EventDag).                     *)
(***************************************************************************)
EXTENDS EventDag

CONSTANT Maps   \* the event maps that are searched

ASSUME MapsAssumption == \A m \in Maps : IsMap(m, EventID, Event)

VARIABLES events,       \* the map searched
          ancestor,     \* the first argument
          descendant,   \* the second argument
          frontier,     \* the IDs in the queue, or still to be visited by dfs
          visited,      \* the visited map
          answer        \* "searching", or the value returned

vars == <<events, ancestor, descendant, frontier, visited, answer>>

Init == /\ events \in Maps
        /\ ancestor \in EventID
        /\ descendant \in EventID
        /\ frontier = {descendant}
        /\ visited = {}
        /\ answer = "searching"

(* The parents the search adds for x: none for an ID that is not stored. *)
ParentsOf(x) == IF x \in DOMAIN events THEN events[x].parents ELSE {}

(* Mutant: look the event up before comparing it with the target. *)
VisitStoredFirst(x) ==
    /\ answer = "searching"
    /\ answer' = IF x = ancestor /\ x \in DOMAIN events THEN "yes" ELSE answer
    /\ visited' = visited \cup {x}
    /\ frontier' = (frontier \ {x}) \cup (ParentsOf(x) \ visited)
    /\ UNCHANGED <<events, ancestor, descendant>>

(* Mutant: forget to mark the ID visited. *)
VisitUnmarked(x) ==
    /\ answer = "searching"
    /\ answer' = IF x = ancestor THEN "yes" ELSE answer
    /\ frontier' = IF x = ancestor THEN frontier
                   ELSE (frontier \ {x}) \cup ParentsOf(x)
    /\ UNCHANGED <<events, ancestor, descendant, visited>>

(* One iteration: found, already visited, or expanded. *)
Visit(x) ==
    /\ answer = "searching"
    /\ \/ /\ x = ancestor
          /\ answer' = "yes"
          /\ UNCHANGED <<frontier, visited>>
       \/ /\ x # ancestor
          /\ x \in visited
          /\ frontier' = frontier \ {x}
          /\ UNCHANGED <<visited, answer>>
       \/ /\ x # ancestor
          /\ x \notin visited
          /\ visited' = visited \cup {x}
          /\ frontier' = (frontier \ {x}) \cup ParentsOf(x)
          /\ UNCHANGED answer
    /\ UNCHANGED <<events, ancestor, descendant>>

(* The queue is empty: return false. *)
Exhausted == /\ answer = "searching"
             /\ frontier = {}
             /\ answer' = "no"
             /\ UNCHANGED <<events, ancestor, descendant, frontier, visited>>

Next == (\E x \in frontier : Visit(x)) \/ Exhausted

Spec == Init /\ [][Next]_vars

(* The loop of the searching goroutine keeps running. *)
FairSpec == Spec /\ WF_vars(Next)

-----------------------------------------------------------------------------
TypeOK == /\ IsMap(events, EventID, Event)
          /\ ancestor \in EventID /\ descendant \in EventID
          /\ frontier \subseteq EventID /\ visited \subseteq EventID
          /\ answer \in {"searching", "yes", "no"}

(* A search that ends answers exactly whether the first ID is an ancestor  *)
(* of the second, cycles and missing parents included (poset.go:176,       *)
(* dag.go:68).                                                             *)
AnswerCorrect == /\ answer = "yes" => IsAncestor(events, ancestor, descendant)
                 /\ answer = "no" => ~IsAncestor(events, ancestor, descendant)

(* The strengthening that makes AnswerCorrect inductive: everything met    *)
(* lies in every parent-closed set around the descendant, the target has   *)
(* not been passed by, and visited and frontier together are closed.       *)
SearchInv ==
    /\ TypeOK
    /\ descendant \in visited \cup frontier
    /\ \A S \in SUBSET EventID :
          descendant \in S /\ ParentClosed(events, S) =>
              visited \cup frontier \subseteq S
    /\ ancestor \notin visited
    /\ \A x \in visited \cap DOMAIN events :
          events[x].parents \subseteq visited \cup frontier
    /\ answer = "yes" => ancestor \in frontier
    /\ answer = "no" => frontier = {}

(* Every search ends, on cyclic maps too: the visited map bounds it. *)
SearchTerminates == <>(answer # "searching")

=============================================================================
