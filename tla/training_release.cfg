SPECIFICATION FairSpec
CONSTANTS
  MaxRuns = 1
  MaxSteps = 1
PROPERTIES
  AppReleased
CHECK_DEADLOCK FALSE
