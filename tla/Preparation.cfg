\* As fhat.sh runs it, and with the other orphan flag, on a disk that may fill up while parse writes.
SPECIFICATION FairSpec
CONSTANTS
  MaxLinks = 3
  Dumps <- MCDumps
  DiskMayFill = TRUE
  Dots = 2
  OrphanFlags = {TRUE, FALSE}
INVARIANTS
  FitsAnalysis
  ColumnsAligned
  ReachableKept
  GarbageStaysGarbage
PROPERTY
  Succeeds
CHECK_DEADLOCK FALSE
