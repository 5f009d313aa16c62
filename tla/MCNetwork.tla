------------------------------ MODULE MCNetwork ------------------------------
(* A peer with two connections and one with one, which accepts events. *)
EXTENDS Network

CONSTANTS p1, p2, e1, e2

MCPeer == {p1, p2}
MCSlot == {<<p1, 1>>, <<p1, 2>>, <<p2, 1>>}
MCAccepts == {p2}
MCGossip == {e1, e2}
=============================================================================
