SPECIFICATION DrainingSpec
CONSTANTS
  Names = {a, b, c}
  Configured = {a, b}
  Enabled = {a}
  TaskIds = {t1, t2}
  None = None
  MaxCommands = 2
  MaxUpserts = 1
  MaxStops = 1
  MaxCrashes = 1
  MaxFailures = 1
  MaxEvents = 2
INVARIANTS
  TypeOK
  SingleReachableLoop
  CommandsInOrder
  RegistryTruthful
PROPERTIES
  DisableMeansStopped
  CommandsFinish
  StopEnds
  ImplementsSupervision
CHECK_DEADLOCK FALSE
