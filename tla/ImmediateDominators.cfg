\* The comment on dominator, over the same graphs as Analysis.cfg.
SPECIFICATION AnalysisFairSpec
CONSTANTS
  NumNodes = 6
  NumInstances = 6
  Dots <- MCDots
  EdgeFiles <- MCEdgeFiles
  MaxReruns <- MCMaxReruns
  Sizes <- MCSizes
INVARIANT
  HoldsImmediateDominators
CHECK_DEADLOCK FALSE
