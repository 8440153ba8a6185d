SPECIFICATION GatewayFairSpec
CONSTANTS
  Call = {c1, c2, c3}
  None = None
  Chain = 2
  MaxTries = 1
  MaxInFlight = 1
CHECK_DEADLOCK FALSE
PROPERTY
  EverySendReturns
