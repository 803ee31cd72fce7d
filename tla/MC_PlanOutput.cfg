CONSTANTS
  p1 = p1
  p2 = p2
  p3 = p3
  Missing = Missing
  Foreign = Foreign
  Proc <- MCProc
  MaxFaults = 3
  MaxEdits = 1
  MaxCrashes = 1
SPECIFICATION FairSpec
INVARIANTS WholePlan ReportTrue
PROPERTIES NeverReplaced Returns
CHECK_DEADLOCK FALSE
