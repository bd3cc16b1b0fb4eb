SPECIFICATION Spec
CONSTANTS
  MaxRuns = 1
  MaxSteps = 2
PROPERTIES
  FinishedStatusComplete
CHECK_DEADLOCK FALSE
