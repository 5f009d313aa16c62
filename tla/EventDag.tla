------------------------------- MODULE EventDag -------------------------------
(***************************************************************************)
(* The data that every consensus component reads and writes: events        *)
(* (event.go), the map from event IDs to events and the round table        *)
(* (dag.go, poset.go; NewConsensusEngine gives the Poset and the DAG the   *)
(* SAME two maps), and the ancestor relation.  No state lives here.        *)
(*                                                                         *)
(* An EventID stands for one transaction list.  Event.Hash() feeds the     *)
(* hasher the RLP encoding of the header and of the transactions, but the  *)
(* header holds an `int` (TxCount), which the RLP library refuses; the     *)
(* error is dropped and the hash covers the transactions only.  Two events *)
(* with the same transactions therefore share one ID whatever their        *)
(* creator, parents and Lamport time, and nothing keeps the parent         *)
(* relation acyclic or the parents present.                                *)
(***************************************************************************)
EXTENDS Naturals, FiniteSets, GoMap

CONSTANTS EventID,   \* the hashes of the transaction lists in use
          Creator,   \* CreatorIDs
          Headers    \* the events nodes create and submit

ASSUME HeadersAssumption ==
    Headers \subseteq [txs : EventID, creator : Creator,
                       parents : SUBSET EventID, lamport : Nat]

ASSUME EventIDAssumption == IsFiniteSet(EventID)

-----------------------------------------------------------------------------
(* Event.Hash(): what is left of it when the header does not encode. *)
Hash(h) == h.txs

(* The fields of a stored event that some component reads.  IsFamous is a  *)
(* *bool: nil and false are never told apart.  atropos says whether the    *)
(* Atropos field differs from the zero EventID.                            *)
Event == [creator : Creator, parents : SUBSET EventID, lamport : Nat,
          round : Nat, isRoot : BOOLEAN, isFamous : BOOLEAN,
          isClotho : BOOLEAN, atropos : BOOLEAN]

(* NewEvent(): the consensus fields start at their zero values. *)
NewEvent(h) ==
    [creator |-> h.creator, parents |-> h.parents, lamport |-> h.lamport,
     round |-> 0, isRoot |-> FALSE, isFamous |-> FALSE,
     isClotho |-> FALSE, atropos |-> FALSE]

RoundInfo == [witnesses : SUBSET EventID, roots : SUBSET EventID,
              clothos : SUBSET EventID, atropos : SUBSET EventID]

NewRoundInfo == [witnesses |-> {}, roots |-> {}, clothos |-> {}, atropos |-> {}]

(* ensureRound(): create the entry of round r unless it is there. *)
EnsureRound(rs, r) == IF r \in DOMAIN rs THEN rs ELSE Put(rs, r, NewRoundInfo)

(* Register an event as witness (root) of round r. *)
AddWitness(rs, r, id) == [rs EXCEPT ![r].witnesses = @ \cup {id}]
AddRoot(rs, r, id) == [rs EXCEPT ![r].roots = @ \cup {id}]

-----------------------------------------------------------------------------
(* S contains the parents of all the events of evs it contains. *)
ParentClosed(evs, S) == \A x \in S \cap DOMAIN evs : evs[x].parents \subseteq S

(* What isAncestor (poset.go) and IsAncestor (dag.go) answer: a is b or is *)
(* reached from b through the parents of stored events.  A parent that is  *)
(* referred to and not stored counts.  AncestorSearch shows that the two   *)
(* searches compute this.                                                  *)
IsAncestor(evs, a, b) ==
    \A S \in SUBSET EventID : b \in S /\ ParentClosed(evs, S) => a \in S

=============================================================================
