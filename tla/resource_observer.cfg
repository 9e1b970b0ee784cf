SPECIFICATION FairObserverSpec
CONSTANTS
  MaxAsks = 1
  MaxBacklog = 1
INVARIANTS
  ReportIsClean
PROPERTIES
  AbortedBeforeKilled
  FailureEnds
CHECK_DEADLOCK FALSE
