SPECIFICATION Spec
CONSTANTS
  NumRegs = 5
  NumRegsLite = 3
  Sp = 3
  Lr = 4
  MemSize = 24
  Mod = 32
  Decode <- MCDecode
  Alu <- MCAlu
  NumCores = 1
  Socs <- TestSocs
  Contents <- TestContents
  Depth <- MCDepth
  ExecStage <- MCExecStage
  Starts = {}
  HostRegs = {}
  HostValues = {4}
  Images = {}
  Budgets = {100}
  MaxCalls = 1
PROPERTY RunStopsCore
CHECK_DEADLOCK FALSE
