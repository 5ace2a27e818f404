SPECIFICATION Spec
CONSTANTS
  t1 = t1
  t2 = t2
  t3 = t3
  Threads <- MCThreads
  Calls <- SharedCas
  SrcNode <- OneWord
  DstNode <- OneWord
  Contents <- MCContents
  NumWords = 1
  Mod = 4
  MaxCalls = 1
INVARIANT MismatchedCasLeavesValue
CHECK_DEADLOCK FALSE
