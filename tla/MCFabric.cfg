SPECIFICATION FairSpec
CONSTANTS
  t1 = t1
  t2 = t2
  t3 = t3
  Threads <- MCThreads
  Calls <- DiscCalls
  SrcNode <- LoopNode
  DstNode <- LoopNode
  Contents <- MCContents
  NumWords = 6
  Mod = 4
  MaxCalls = 2
INVARIANTS
  TypeOK
  LockExclusive
  TransfersAccounted
PROPERTIES
  AtomicCallsSpec
  CallsReturn
CHECK_DEADLOCK FALSE
