SPECIFICATION FairSpec
CONSTANTS
  IdentifierSize = 8
  IntValues = 1024
  SizeValues = 65536
  MaxRecordSize = 30
  Inputs <- MCInputs
INVARIANTS
  ReferrersAreInstances
  StaysInFrame
  ReadsWhatIsThere
  TruncationIsNoticed
PROPERTY
  Succeeds
CHECK_DEADLOCK FALSE
