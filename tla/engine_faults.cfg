SPECIFICATION Spec
CONSTANTS
  RingSlots = 2
  NumQueues = 2
  MaxValue = 4
  MaxDeps = 1
  Faults = TRUE
PROPERTIES SignalsIncrease DrainLeavesIdle
