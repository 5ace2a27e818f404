SPECIFICATION Spec
CONSTANTS
  c1 = c1
  c2 = c2
  c3 = c3
  NoHandle = NoHandle
  Clients <- MCClients
  PoolConfigs <- MCPoolConfigs
  Requests <- MCRequests
  BlockAlign = 2
  MinBlock = 4
  MaxBlocks = 5
  MaxPools = 2
  AddrBase = 100
  PoolStride = 64
  MaxAllocs = 5
SYMMETRY MCSymmetry
INVARIANTS
  TypeOK
  LiveDisjoint
  TilesUntilFull
  FullyCoalesced
  HandlesMatchLiveBlocks
  FreeForgetsEncryption
  RefusedOnlyWhenNoRoom
CHECK_DEADLOCK FALSE
