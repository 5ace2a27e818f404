SPECIFICATION Spec
CONSTANTS
  c1 = c1
  c2 = c2
  c3 = c3
  NoHandle = NoHandle
  Clients <- MCClients
  PoolConfigs <- MCPoolConfigs
  Requests <- MCRequests
  BlockAlign = 2
  MinBlock = 4
  MaxBlocks = 6
  MaxPools = 1
  AddrBase = 100
  PoolStride = 64
  MaxAllocs = 6
SYMMETRY MCSymmetry
INVARIANT FreedPoolIsReusable
CHECK_DEADLOCK FALSE
