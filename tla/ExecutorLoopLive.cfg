SPECIFICATION FairSpec
CONSTANTS
  OrderIds = {o1, o2, o3}
  None = None
  MaxNet = 1
  OrderSize = 1
  ExitMaxAttempts = 1
  MarketFallback = TRUE
  CooldownSec = 20
  MaxFaults = 1
  MaxStarts = 1
  MaxDecisions = 1
PROPERTIES
  PositionEventuallyClosed
  ExposureEventuallyClosed
  StrayRepriceSwept
  DrainStopsIfAnswered
CHECK_DEADLOCK FALSE
