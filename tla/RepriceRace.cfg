SPECIFICATION Spec
CONSTANTS
  OrderIds = {o1, o2, o3}
  None = None
  MaxNet = 2
  OrderSize = 1
  ExitMaxAttempts = 1
  MarketFallback = TRUE
  CooldownSec = 20
  MaxFaults = 0
  MaxStarts = 0
  MaxDecisions = 1
INVARIANT OnePositionOfFixedSize
CHECK_DEADLOCK FALSE
