------------------------- MODULE MCParallelProcessor -------------------------
(* Two event workers and a consensus worker over channels of one place:    *)
(* every queue can be full and two workers can be blocked on the results.  *)
EXTENDS ParallelProcessor

CONSTANTS e1, e2, e3, t1, w1, w2, c1

MCEvents == {e1, e2, e3}
MCTasks == {t1}
MCEventWorkers == {w1, w2}
MCConsensusWorkers == {c1}
=============================================================================
