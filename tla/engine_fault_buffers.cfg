SPECIFICATION Spec
CONSTANTS
  RingSlots = 2
  NumQueues = 2
  MaxValue = 4
  MaxDeps = 0
  Faults = TRUE
INVARIANTS BufferFree

