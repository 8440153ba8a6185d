SPECIFICATION ServicesFairSpec
CONSTANTS
  Call = {c1, c2, c3}
  None = None
  Chain = 2
  MaxTries = 2
  MaxInFlight = 1
  Known = {"m1", "m2"}
  Task = {"coding"}
  Ranked <- MCRanked
  Ladder <- MCLadder
  Prior <- MCPrior
  Slow <- MCSlow
  Quality <- MCQuality
  Epsilon = 1
  Rotation = 2
  Probe = {p1}
  Watcher = {w1, w2}
  Daemon = {w1}
  Lifetime = 1
  Grace = 1
  MaxTime = 3
  MaxCrashes = 1
  Skill = {"a", "b", "c"}
  Overridden = "a"
  Absent = Absent
  Tasks = 3
  Threads = 2
  MaxQueue = 1
  ModelLists <- MCModelLists
  Kilo = {"kilo"}
  Text = {"t1", "t2"}
  NoText = NoText
CHECK_DEADLOCK FALSE
INVARIANTS
  InFlightIsExact
  EmptyTieOnlyIfRaced
  WavesAreExact
  ReportsAreTrue
  AnswerWins
PROPERTIES
  EndsUnlessAsleep
  TiesTakeTurns
  AnsweredSettle
  OpenStaysTracked
