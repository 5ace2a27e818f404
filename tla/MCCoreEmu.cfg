SPECIFICATION FairSpec
CONSTANTS
  NumRegs = 5
  NumRegsLite = 3
  Sp = 3
  Lr = 4
  MemSize = 24
  Mod = 32
  Decode <- MCDecode
  Alu <- MCAlu
  NumCores = 2
  Socs <- MCSocs
  Contents <- MCContents
  Depth <- MCDepth
  ExecStage <- MCExecStage
  Starts <- MCStarts
  HostRegs = {0, 2}
  HostValues = {4}
  Images <- MCImages
  Budgets = {0, 12}
  MaxCalls = 3
INVARIANTS
  TypeOK
  PendingInOrder
PROPERTIES
  StepsExecuteProgram
  RunsReturn
CHECK_DEADLOCK FALSE
