SPECIFICATION FairSpec
CONSTANTS
  Names = {a}
  Configured = {a}
  Enabled = {a}
  TaskIds = {t1, t2}
  None = None
  MaxCommands = 2
  MaxUpserts = 0
  MaxStops = 0
  MaxCrashes = 0
  MaxFailures = 0
  MaxEvents = 0
PROPERTIES
  ForceStops
CHECK_DEADLOCK FALSE
