SPECIFICATION FairSpec
CONSTANTS
  MaxRuns = 2
  MaxSteps = 2
INVARIANTS
  TypeOK
  FinishedMeansPublished
  StopBounded
PROPERTIES
  WaitSeesAll
  AppReleasedOnceTrained
CHECK_DEADLOCK FALSE
