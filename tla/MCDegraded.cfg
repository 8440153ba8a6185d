SPECIFICATION CallersSpec
CONSTANTS
  t1 = t1
  t2 = t2
  alpha = alpha
  beta = beta
  mimo = mimo
  nemotron = nemotron
  muse = muse
  s1 = s1
  s2 = s2
  question = question
  review = review
  plan = plan
  sketch = sketch
  None = None
  Thread = {t1, t2}
  Project = {alpha, beta}
  Model = {mimo}
  Session = {s1}
  Frontier <- NoFrontier
  Request <- DegradedRequest
  Fault <- NoFault
  Q429 = 3
  Q500 = 2
  Q401 = 1
  QStreak = 3
  Ttl = 1
  Trip = 2
  Window = 2
  Cooldown = 1
  MaxCalls = 2
  MaxTime = 0
CHECK_DEADLOCK FALSE
INVARIANT
  DegradesWithNote
