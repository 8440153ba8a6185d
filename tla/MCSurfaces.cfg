SPECIFICATION SurfacesFairSpec
CONSTANTS
  Chat <- MCChat
  Turn = {"t1", "t2"}
  None = None
  Board = Board
  Help = Help
  Page = Page
  MaxChain = 1
  MaxDepth = 3
  Guarded = {"routing", "probe"}
  Bypassed = {"watcher"}
  Unguarded = {"overview"}
  PageOf <- MCPageOf
  Job = {1, 2}
  PoolSize = 2
  MaxFailures = 1
  Writer = {p1, p2}
  MaxLines = 2
  MaxTears = 1
  Viewer = {"status"}
CHECK_DEADLOCK FALSE
INVARIANTS
  BusyIsOneTurn
  StopFindsTheWorker
  NewChatIsNew
  ButtonsTellJobs
  BoundaryHolds
  LedgerSound
PROPERTIES
  TurnsEnd
  StatusSettles
