SPECIFICATION FairSpec
CONSTANTS
  RingSlots = 2
  NumQueues = 2
  MaxValue = 3
  MaxDeps = 2
  Faults = FALSE
INVARIANTS TypeOK BufferFree ThrottleBound StartAfterDeps InFlightExact
PROPERTIES WaitReturnsRetired ImplementsFairTasks CallsReturn
