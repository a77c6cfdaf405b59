\* All graphs over four nodes from eleven candidate links.
SPECIFICATION FairSpec
CONSTANTS
  NumNodes = 4
  EdgeFiles <- MCEdgeFiles
INVARIANTS
  TypeOK
  NumberingIsBijective
  ParentTree
  FindsReachable
  PredIsReversedGraph
  NoForwardCrossLink
PROPERTY
  SearchesGraph
CHECK_DEADLOCK FALSE
