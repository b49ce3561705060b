SPECIFICATION FairSpec
CONSTANTS
  QueueSize = 2
  BatchLimit = 2
  MaxSaves = 5
  MaxFaults = 2
INVARIANTS
  JournalTypeOK
  CommittedInOrder
  JournalIsPrefix
  StopFlushes
PROPERTIES
  EventsSettle
  ImplementsEventLog
\* the run ends, and with it the journal
CHECK_DEADLOCK FALSE
