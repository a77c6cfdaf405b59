\* Every input of up to five records over three values, on a disk that may fill up.
SPECIFICATION Spec
CONSTANTS
  Records = {1, 2, 3}
  Capacity = 2
  DiskMayFill = TRUE
  MaxLen = 5
  Inputs <- MCInputs
INVARIANT
  StopsWhenDiskIsFull
CHECK_DEADLOCK FALSE
