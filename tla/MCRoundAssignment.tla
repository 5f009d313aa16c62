-------------------------- MODULE MCRoundAssignment --------------------------
(* A history of two creators that reaches round 3, in every arrival order  *)
(* and with passes at any time.  It holds two events that share an ID, one *)
(* of which closes a cycle (b -> c -> b), an event of n1 that is earlier   *)
(* than another of its Lamport round, and, in partial arrivals, every      *)
(* missing parent.                                                         *)
EXTENDS RoundAssignment

CONSTANTS a, b, c, d, e, n1, n2

Header(t, n, ps, l) == [txs |-> t, creator |-> n, parents |-> ps, lamport |-> l]

MCEventID == {a, b, c, d, e}
MCCreator == {n1, n2}
MCHeaders == {Header(a, n1, {}, 1), Header(b, n2, {}, 1), Header(b, n2, {c}, 3),
              Header(c, n1, {a, b}, 3), Header(d, n2, {b, c}, 4),
              Header(d, n1, {e}, 2), Header(e, n1, {c, d}, 5), Header(e, n1, {a}, 2)}
=============================================================================
