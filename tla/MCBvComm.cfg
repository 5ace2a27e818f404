SPECIFICATION Spec
CONSTANTS
  MaxRanks = 4
  Sizes <- MCSizes
  Calls <- MCCalls
  Zero <- MCZero
  Input <- MCInput
  Plus <- MCPlus
  IsSum <- MCIsSum
  MaxCalls = 2
INVARIANTS
  TypeOK
  OwnersHoldSums
PROPERTIES
  CollectivesSpec
CHECK_DEADLOCK FALSE
