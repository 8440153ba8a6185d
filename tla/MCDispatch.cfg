SPECIFICATION CallersSpec
CONSTANTS
  t1 = t1
  t2 = t2
  alpha = alpha
  beta = beta
  mimo = mimo
  nemotron = nemotron
  muse = muse
  s1 = s1
  s2 = s2
  question = question
  review = review
  plan = plan
  sketch = sketch
  None = None
  Thread = {t1, t2}
  Project = {alpha, beta}
  Model = {mimo, nemotron}
  Session = {s1}
  Frontier <- MCFrontier
  Request <- MCRequest
  Fault <- MCFault
  Q429 = 3
  Q500 = 2
  Q401 = 1
  QStreak = 3
  Ttl = 1
  Trip = 2
  Window = 2
  Cooldown = 1
  MaxCalls = 4
  MaxTime = 2
CHECK_DEADLOCK FALSE
SYMMETRY ThreadSymmetry
INVARIANTS
  GatesHonouredUnlessRaced
  PinnedIsHonoured
PROPERTIES
  QuarantineServed
  BreakerTripsForCause
