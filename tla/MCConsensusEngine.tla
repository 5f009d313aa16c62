-------------------------- MODULE MCConsensusEngine --------------------------
(* Three events of two creators, two of which share an ID; a queue of two. *)
EXTENDS ConsensusEngine

CONSTANTS a, b, n1, n2

Header(t, n, ps, l) == [txs |-> t, creator |-> n, parents |-> ps, lamport |-> l]

MCEventID == {a, b}
MCCreator == {n1, n2}
MCHeaders == {Header(a, n1, {}, 1), Header(b, n2, {a}, 3), Header(b, n1, {}, 2)}
MCVoteRounds == {0}
=============================================================================
