SPECIFICATION Spec
CONSTANTS
  Levels = {10, 12, 14, 16}
  Limits = {11, 13}
  TickSize = 2
  Quantum = 2
  TakeProfit = 1
  StopLoss = 1
  StaleTicks = 1
  OrderSize = 2
  MakerRate = 1
  TakerRate = 2
  None = None
  MaxMoves = 2
  MaxOrders = 3
INVARIANTS
  PricesTypeOK
  PricedWithinBand
  CleanTradeAccounted
  VerdictPays
PROPERTIES
  StaleEntryMoves
  PricesImplementCycle
CHECK_DEADLOCK FALSE
