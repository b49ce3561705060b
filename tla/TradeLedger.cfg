SPECIFICATION LedgerSpec
CONSTANTS
  OrderIds = {o1, o2, o3}
  None = None
  MaxNet = 2
  OrderSize = 2
  ExitMaxAttempts = 1
  MarketFallback = TRUE
  CooldownSec = 20
  MaxFaults = 1
  MaxStarts = 1
  MaxDecisions = 1
  EntryRows = {r1}
  ExchangeId = ex
SYMMETRY LedgerSymmetry
INVARIANTS
  LedgerTypeOK
  HeldPositionOnRecord
  NoRowForgotten
  TrackerOfHeldPosition
  TradesAccounted
PROPERTIES
  EntryTradesFinal
CHECK_DEADLOCK FALSE
