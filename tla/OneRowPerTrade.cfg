SPECIFICATION LedgerSpec
CONSTANTS
  OrderIds = {o1, o2}
  None = None
  MaxNet = 2
  OrderSize = 2
  ExitMaxAttempts = 1
  MarketFallback = TRUE
  CooldownSec = 20
  MaxFaults = 0
  MaxStarts = 1
  MaxDecisions = 2
  EntryRows = {r1, r2}
  ExchangeId = ex
SYMMETRY LedgerSymmetry
PROPERTY OneRowPerTrade
CHECK_DEADLOCK FALSE
