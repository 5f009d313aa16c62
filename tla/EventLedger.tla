------------------------------ MODULE EventLedger ------------------------------
(***************************************************************************)
(* What the event store promises its readers: a write-once table.  Every   *)
(* ID is bound at most once, to the first event that arrives under it, and *)
(* neither the binding nor the content of the event ever changes.          *)
(***************************************************************************)
EXTENDS EventDag

VARIABLE ledger   \* the stored IDs, each with the content of its event

(* The part of an event its creator decides, as against the fields that    *)
(* the consensus components write.                                         *)
Content(e) == [creator |-> e.creator, parents |-> e.parents, lamport |-> e.lamport]

Init == ledger = <<>>

Bind(h) == /\ Hash(h) \notin DOMAIN ledger
           /\ ledger' = Put(ledger, Hash(h), Content(h))

Next == \E h \in Headers : Bind(h)

Spec == Init /\ [][Next]_ledger

=============================================================================
