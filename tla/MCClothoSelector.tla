--------------------------- MODULE MCClothoSelector ---------------------------
(* A genesis event and three successors of three creators: enough for a    *)
(* next round of minVisibilityCount events that all see the first one.     *)
EXTENDS ClothoSelector

CONSTANTS a, b, c, d, n1, n2, n3

Header(t, n, ps, l) == [txs |-> t, creator |-> n, parents |-> ps, lamport |-> l]

MCEventID == {a, b, c, d}
MCCreator == {n1, n2, n3}
MCHeaders == {Header(a, n1, {}, 1), Header(b, n1, {a}, 2), Header(c, n2, {a}, 2),
              Header(d, n3, {a}, 3)}
MCVoteRounds == {0, 1}
=============================================================================
