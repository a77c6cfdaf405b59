\* The heaps of Report.cfg, with and without pv, nothing killed.
SPECIFICATION FairSpec
CONSTANTS
  Capacity = 1
  Buffered = 0
  MaxKills = 0
  PvInstalled = {TRUE, FALSE}
  MaxRows = 2
  Heaps <- MCHeaps
INVARIANT
  ReportAsDocumented
CHECK_DEADLOCK FALSE
