SPECIFICATION Spec
CONSTANTS
  OrderIds = {o1, o2, o3}
  None = None
  MaxNet = 3
  OrderSize = 2
  ExitMaxAttempts = 1
  MarketFallback = TRUE
  CooldownSec = 20
  MaxFaults = 1
  MaxStarts = 1
  MaxDecisions = 2
SYMMETRY IdSymmetry
INVARIANTS
  TypeOK
  EntryOnlyWhenFlat
  ExitIsReduceOnly
  ExitMatchesPosition
  SidesAgree
  EntriesNeverOppose
  NoOrderLost
  DrainLeavesNoOrder
PROPERTIES
  NoReversal
  ImplementsTradeCycle
CHECK_DEADLOCK FALSE
