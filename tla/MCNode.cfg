SPECIFICATION NodeFairSpec
CONSTANTS
  Caller = {g1, g2}
  MaxCalls = 4
  Address = {x}
  MinStake = 2
  Stakes <- MCStakes
  Balances <- MCBalances
  Nobody = Nobody
  e1 = e1
  e2 = e2
  e3 = e3
  Body = {1, 2}
  CacheMax = 2
  EvictPart = 2
  Event <- MCEvent
  TimeWindow <- MCTimeWindow
  cheap = cheap
  dear = dear
  big = big
  Tx <- MCTx
  GasPrice <- MCGasPrice
  Gas <- MCGas
  Word = 16
  BlockGasLimit = {7}
INVARIANTS NodeTypeOK TallyCoversVotes HandleIsStored CacheBounded CacheMatchesStore WithinLimit
PROPERTIES BestPaidFirst CallsReturn
CHECK_DEADLOCK FALSE
