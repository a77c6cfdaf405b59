\* class_closure.sh and users, from any contents of closure_delta, one kill.
SPECIFICATION FairSpec
CONSTANTS
  Objects <- MCObjects
  RefTables <- MCRefTables
  SeedSets <- MCSeedSets
  DeltaTables <- MCDeltaTables
  Directions = {TRUE, FALSE}
  Scripts = {TRUE, FALSE}
  MaxKills = 1
INVARIANTS
  OnlyDeltaLeadsOut
  GathersFromDelta
PROPERTIES
  CommitsQuery
  Ends
CHECK_DEADLOCK FALSE
