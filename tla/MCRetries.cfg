SPECIFICATION RetriesFairSpec
CONSTANTS
  Id <- MCId
  Root <- MCRoot
  Inputs <- MCInputs
  MaxConf = 2
  Half = 1
  MaxFaults = 1
  Threshold = 2
  MaxRetries = 2
  MaxAttempts = 3
  Client = {"a", "b"}
  Slots = 2
  Retries = 1
  TripAfter = 2
  WindowLen = 1
  OpenLen = 1
  TimeLimit = 1
CHECK_DEADLOCK FALSE
INVARIANTS
  SuccessIsEarned
  DoubtCanBeRetried
  LedgerTellsRerunState
PROPERTIES
  CritiqueSettles
  TripsOnRecent
  RetriesEnd
