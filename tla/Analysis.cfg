\* Every graph over six nodes from eleven links, and every graph over four nodes
\* from seven with programs killed and rerun.  One record of seven is a duplicate.
SPECIFICATION AnalysisFairSpec
CONSTANTS
  NumNodes = 7
  NumInstances = 6
  Dots <- MCDots
  EdgeFiles <- MCEdgeFiles
  MaxReruns <- MCMaxReruns
  Sizes <- MCSizes
INVARIANTS
  PathCompressionSound
  NoDominatorLost
  ExactUnlessSubtreesCross
  RetainedNeverUnderstated
  NumbersAheadUntouched
  RetainedIsSubtreeSum
  SmallHeapsGiveUp
PROPERTIES
  Succeeds
  Ends
CHECK_DEADLOCK FALSE
