SPECIFICATION TokenSpec
CONSTANTS
  w1 = w1
  w2 = w2
  u = u
  c1 = c1
  c2 = c2
  NoAddress = NoAddress
  TotalSupply = 3
  MaxCalls = 3
  Address <- MCWallets
  Callers <- MCCallers
  Amounts <- MCAmounts
  Groups <- MCGroups
INVARIANTS NeverOverdrawn
PROPERTIES TransferConserves SupplySettles
SYMMETRY CallerSymmetry
CHECK_DEADLOCK FALSE
