SPECIFICATION FairSpec
CONSTANTS
  r1 = r1
  r2 = r2
  report = report
  spool = spool
  done1 = done1
  done2 = done2
  Runs = {r1, r2}
  Handles = {report}
  Directs = {spool}
  Marker <- MCMarker
  Home <- MCHome
  Layouts <- MCLayouts
  MaxFaults = 2
  MaxDisturbances = 1
  Nothing = Nothing
  Foreign = Foreign
INVARIANTS
  VisibleIsComplete
  PayloadAccounted
PROPERTIES
  NeverClobbers
  RunsEnd
CHECK_DEADLOCK FALSE
