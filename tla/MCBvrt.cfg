SPECIFICATION FairSpec
CONSTANTS
  NumLanes = 2
  NumScalars = 4
  NumPreds = 1
  NumVectors = 2
  VecLanes = 2
  MaxRet = 2
  MemWords = 3
  Mod = 4
  Alu <- MCAlu
  Images <- MCImages
  ArgBase = 2
  NumArgs = 2
  Args <- MCArgs
  Contents <- MCContents
  Budgets = {5}
  MaxEvents = 2
  MaxCalls = 3
  MaxInsns = 6
INVARIANTS
  TypeOK
  StacksAgree
  ToolsTransparent
PROPERTIES
  AtomicAddsSerialise
  RunsReturn
CHECK_DEADLOCK FALSE
