SPECIFICATION FilesSpec
CONSTANTS
  t1 = t1
  t2 = t2
  cli = cli
  k1 = k1
  k2 = k2
  None = None
  Broken = Broken
  Thread = {t1, t2}
  Process = {cli}
  Owner <- AllInCli
  Key = {k1, k2}
  L1Max = 1
  L1Ttl = 0
  L2Max = 1
  L2Ttl = 1
  MaxCalls = 4
  MaxFaults = 2
  MaxTime = 1
  Ticker = {"x", "y"}
  Price = {10, 34}
  Dollars = {80}
  Unit = 40
  Capitals = {60, 100}
  Reserve <- MCReserve
  OrderParts = 2
  MaxPosition <- MCMaxPosition
  MinCost = 4
  MaxTrades = 3
CHECK_DEADLOCK FALSE
SYMMETRY ThreadAndKeySymmetry
INVARIANTS
  AnswerIsForKey
  NoStaleReadUnlessRaced
  TearCostsOne
  BooksBalance

  
