\* Every input of up to seven records over three values, runs of three records,
\* with room on the disk or on one that may fill up.
SPECIFICATION FairSpec
CONSTANTS
  Records = {1, 2, 3}
  Capacity = 3
  DiskMayFill = TRUE
  MaxLen = 7
  Inputs <- MCInputs
INVARIANTS
  MergeAscends
  LostRunsAreNoticed
PROPERTIES
  Terminates
  SortsUnique
CHECK_DEADLOCK FALSE
