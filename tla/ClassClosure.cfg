\* The procedures of class_closure.sh and README.markdown, which find
\* closure_delta as transitive_closure.schema.sql creates it.
SPECIFICATION FairSpec
CONSTANTS
  Objects <- MCObjects
  RefTables <- MCObjectRefTables
  SeedSets <- MCSeedSets
  DeltaTables = {{}}
  Directions = {TRUE}
  Scripts = {TRUE, FALSE}
  MaxKills = 0
INVARIANTS
  GathersReachable
CHECK_DEADLOCK FALSE
