----------------------------- MODULE MCSinarToken -----------------------------
(* Two callers, two wallets that receive the whole supply (unevenly: the   *)
(* remainder goes to the last), a group without wallets, and an amount of  *)
(* either sign.  The run about the cap has a user besides the wallets, and *)
(* positive amounts only: it is about the test of the cap.                 *)
EXTENDS SinarToken, TLC

CONSTANTS w1, w2, u, c1, c2

MCWallets == {w1, w2}
MCAddress == {w1, w2, u}
MCCallers == {c1, c2}
MCAmounts == {-1, 1}
CapAmounts == {1, 2}
MCGroups == <<[percent |-> 100, wallets |-> <<w1, w2>>], [percent |-> 0, wallets |-> <<>>]>>

CallerSymmetry == Permutations(MCCallers)
=============================================================================
