SPECIFICATION FairSpec
CONSTANTS
  Capacity = 1
  Buffered = 1
  MaxKills = 1
  Tables <- MCTables
INVARIANTS
  NamesInOrder
  PositionsInRange
PROPERTY
  NamesEveryRow
CHECK_DEADLOCK FALSE
