CONSTANTS
    MaxStep = 2
    MaxCalls = 2
    Wrap = 2
    TrainerCalls = 1
SPECIFICATION Spec
INVARIANT UpdatesFromThisWindow
CHECK_DEADLOCK FALSE
