-------------------------------- MODULE MCNode --------------------------------
(* Two goroutines; a cache of two that drops one when it is full; gas is   *)
(* counted modulo 16, and big makes the count wrap.                        *)
EXTENDS Node

CONSTANTS e1, e2, e3, cheap, dear, big

MCEvent == {e1, e2, e3}
MCTimeWindow == e1 :> 0 @@ e2 :> 1 @@ e3 :> 1
MCTx == {cheap, dear, big}
MCGasPrice == cheap :> 1 @@ dear :> 2 @@ big :> 1
MCGas == cheap :> 3 @@ dear :> 5 @@ big :> 13
MCStakes == {1, 2}
MCBalances == {1}
=============================================================================
