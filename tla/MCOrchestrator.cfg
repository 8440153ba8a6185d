SPECIFICATION FairSpec
CONSTANTS
  Id <- MCId
  Root <- MCRoot
  Inputs <- MCInputs
  MaxConf = 1
  Half = 1
  MaxFaults = 2
CHECK_DEADLOCK FALSE
INVARIANTS
  SoundOrder
  SortIsComplete
  AcceptsExactlyWellFormed
  BlockedExactly
  BlockedHasCulprit
  LedgerTellsState
PROPERTIES
  RunEnds
  KeepsContract
