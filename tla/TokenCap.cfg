SPECIFICATION TokenSpec
CONSTANTS
  w1 = w1
  w2 = w2
  u = u
  c1 = c1
  c2 = c2
  NoAddress = NoAddress
  TotalSupply = 3
  MaxCalls = 2
  Address <- MCAddress
  Callers <- MCCallers
  Amounts <- CapAmounts
  Groups <- MCGroups
INVARIANT SupplyWithinCap
SYMMETRY CallerSymmetry
CHECK_DEADLOCK FALSE
