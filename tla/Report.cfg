\* Four pipelines with pipes that hold one record, with and without pv, and one
\* program that may be killed at any moment.
SPECIFICATION FairSpec
CONSTANTS
  Capacity = 1
  Buffered = 0
  MaxKills = 1
  PvInstalled = {TRUE, FALSE}
  MaxRows = 2
  Heaps <- MCHeaps
INVARIANTS
  LinesAligned
  ReportsTopRows
PROPERTY
  Ends
CHECK_DEADLOCK FALSE
