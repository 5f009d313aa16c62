------------------------- MODULE AncestorSearchProofs -------------------------
(* The ancestor search is correct on every event map. *)
EXTENDS AncestorSearch, TLAPS

(* The invariant holds initially: only the descendant has been met. *)
LEMMA SearchInit == Init => SearchInv
  BY MapsAssumption DEF Init, SearchInv, TypeOK

(* An iteration of the search preserves the invariant. *)
LEMMA SearchStep == SearchInv /\ [Next]_vars => SearchInv'
<1> SUFFICES ASSUME SearchInv, [Next]_vars PROVE SearchInv'
  OBVIOUS
<1>1. ASSUME NEW x \in frontier, Visit(x) PROVE SearchInv'
  <2>1. CASE x = ancestor
    BY <1>1, <2>1 DEF Visit, SearchInv, TypeOK
  <2>2. CASE x # ancestor /\ x \in visited
    BY <1>1, <2>2 DEF Visit, SearchInv, TypeOK
  <2>3. CASE x # ancestor /\ x \notin visited
    <3>1. /\ visited' = visited \cup {x}
          /\ frontier' = (frontier \ {x}) \cup ParentsOf(x)
          /\ UNCHANGED <<events, ancestor, descendant, answer>>
      BY <1>1, <2>3 DEF Visit
    <3>2. ParentsOf(x) \subseteq EventID
      BY DEF ParentsOf, SearchInv, TypeOK, IsMap, Event
    <3>3. ASSUME NEW S \in SUBSET EventID, descendant \in S, ParentClosed(events, S)
          PROVE ParentsOf(x) \subseteq S
      BY <3>3 DEF ParentsOf, ParentClosed, SearchInv
    <3>4. TypeOK'
      BY <3>1, <3>2 DEF SearchInv, TypeOK
    <3>5. \A S \in SUBSET EventID :
             descendant \in S /\ ParentClosed(events, S) =>
                 visited' \cup frontier' \subseteq S
      BY <3>1, <3>3 DEF SearchInv
    <3>6. \A y \in visited' \cap DOMAIN events :
             events[y].parents \subseteq visited' \cup frontier'
      BY <3>1 DEF ParentsOf, SearchInv
    <3>7. answer = "searching"
      BY <1>1 DEF Visit
    <3> QED
      BY <2>3, <3>1, <3>4, <3>5, <3>6, <3>7 DEF SearchInv
  <2> QED
    BY <2>1, <2>2, <2>3
<1>2. CASE Exhausted
  BY <1>2 DEF Exhausted, SearchInv, TypeOK
<1>3. CASE UNCHANGED vars
  BY <1>3 DEF vars, SearchInv, TypeOK
<1> QED
  BY <1>1, <1>2, <1>3 DEF Next

(* A positive answer found the target in the frontier; a negative one left *)
(* behind a closed set, the visited IDs, that the target is not in.        *)
LEMMA SearchInvAnswers == SearchInv => AnswerCorrect
<1> SUFFICES ASSUME SearchInv PROVE AnswerCorrect
  OBVIOUS
<1>1. answer = "yes" => IsAncestor(events, ancestor, descendant)
  BY DEF SearchInv, IsAncestor
<1>2. ASSUME answer = "no" PROVE ~IsAncestor(events, ancestor, descendant)
  <2>1. frontier = {} /\ descendant \in visited /\ ancestor \notin visited
    BY <1>2 DEF SearchInv
  <2>2. visited \in SUBSET EventID /\ ParentClosed(events, visited)
    BY <2>1 DEF SearchInv, TypeOK, ParentClosed
  <2> QED
    BY <2>1, <2>2 DEF IsAncestor
<1> QED
  BY <1>1, <1>2 DEF AnswerCorrect

(* Poset.isAncestor and DAG.IsAncestor return exactly the ancestor         *)
(* relation, for every event map: cycles and missing parents included.     *)
THEOREM AncestorSearchCorrect == Spec => []AnswerCorrect
<1>1. Init => SearchInv
  BY SearchInit
<1>2. SearchInv /\ [Next]_vars => SearchInv'
  BY SearchStep
<1>3. SearchInv => AnswerCorrect
  BY SearchInvAnswers
<1> QED
  BY <1>1, <1>2, <1>3, PTL DEF Spec

=============================================================================
