SPECIFICATION Spec
CONSTANTS
  a = a
  b = b
  Sources <- MCSources
  NUL = NUL
  HeaderSize = 32
  EntrySize = 16
  InsnSize = 8
  MaxKernels = 2
  MaxInsns = 3
  MaxName = 3
  PoolSize = 5
  MaxSymbols = 2
  NumPreds = 2
  ImmHalf = 2
  NoPred = NoPred
  Nothing = Nothing
  Cores <- MCCores
  Lines <- MCLines
  Values <- MCValues
  Zero = 0
  Sets = 3
  Ways = 2
  MaxAccesses = 5
  Threads <- MCThreads
  Amounts <- MCAmounts
  StartCents = 6
  Fee = 1
  ObjectIds <- MCObjectIds
  MaxRequests = 4
INVARIANTS
  TypeOK
  LaunchRunsNamedKernel
  RequestsAddUp
PROPERTIES
  KeepsLastLineOfSet
CHECK_DEADLOCK FALSE
