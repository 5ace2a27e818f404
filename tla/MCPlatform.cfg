SPECIFICATION PlatformSpec
CONSTANTS
  c1 = c1
  direct = direct
  NoHandle = NoHandle
  ch1 = ch1
  ch2 = ch2
  byte1 = byte1
  byte2 = byte2
  Unwritten = Unwritten
  Channels <- MCChannels
  ByteValues <- MCByteValues
  Ranges <- MCRanges
  Messages <- MCMessages
  Wants <- MCWants
  MaxNodes = 2
  Capacity = 3
  Mtu = 2
  Wrap = 4
  WorkloadNames <- MCWorkloadNames
  Stored <- MCStored
  MaxWorkloads = 2
  Loads <- MCLoads
  LoadUnits <- MCLoadUnits
  Profiles <- MCProfiles
  Budgets <- MCBudgets
  UIntWrap = 512
  Caps <- MCCaps
  Fans <- MCFans
  MvramBytes <- MCMvramBytes
  MvramBase = 2
  MaxContexts = 2
  AtlasSizes <- MCAtlasSizes
  AtlasWrap = 16
  BootSkus <- MCBootSkus
  CoreIds <- MCCoreIds
  Freqs <- MCFreqs
  Volts <- MCVolts
  ClusterSizes <- MCClusterSizes
  RingSize = 3
  Polls = 2
  MaxSlots = 1
  FullSpeed = 2
  MapRanges <- MCMapRanges
  MaxMaps = 4
  MapWrap = 8
  Clients <- MCClients
  DriveClient = direct
  PoolConfigs <- MCPoolConfigs
  Requests <- MCRequests
  BlockAlign = 2
  MinBlock = 4
  MaxBlocks = 6
  MaxPools = 2
  AddrBase = 100
  PoolStride = 64
  MaxAllocs = 3
  Lbas <- MCLbas
  SectorCounts <- MCSectorCounts
  SectorSize = 3
  Page = 4
  Sectors = 4
  CacheLines = 1
  IntMax = 7
  DriveWrap = 16
  Registers <- MCRegisters
  Domains <- MCDomains
  WordBits = 32
  Half = 4
  Frequencies <- MCFrequencies
  DefaultHz = 4
  Mhz = 2
  Delays <- MCDelays
  MaxNow = 10
  MaxCount = 1
INVARIANTS
  DriversTyped
  BytesInOrder
  NodesOwnAddresses
  RunningCoresHaveOperatingPoint
  RingKeepsPending
  OnlyLastPollTimesOut
  UnmapUndoesMap
  MemoryAccounted
  FieldsHold
  CyclesNotTorn
  CapHoldsUnderLoad
PROPERTIES
  FullRingDrains
CHECK_DEADLOCK FALSE
