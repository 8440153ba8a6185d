SPECIFICATION Spec
CONSTANTS
  Id <- MCId
  Root <- MCRoot
  Inputs <- MCInputs
  MaxConf = 1
  Half = 1
  MaxFaults = 1
CHECK_DEADLOCK FALSE
INVARIANT LedgerStaysReadable
