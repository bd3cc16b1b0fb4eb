CONSTANTS
    MaxStep = 2
    MaxCalls = 3
    Wrap = 2
    TrainerCalls = 4
SPECIFICATION Spec
INVARIANTS
    TypeOK
    UpdatesFromThisWindowElsewhere
    AccumulatedSinceBegin
    CheckpointRoundTrip
    ReadbackIsCurrent
PROPERTIES
    FailedCallChangesNothing
    OnlyLoraPassesMaxStep
    FailedStepChangesNothing
CHECK_DEADLOCK FALSE
