SPECIFICATION Spec
CONSTANTS
    Providers = 2
    Reconnects = 1
    HoldBudget = 2
    MaxAttempts = 5
    MaxChunks = 3
    MaxNesting = 4
    Quirks = {}
INVARIANTS
    HeldAudioInOrder
    NothingAfterInputEnded
    TranscriberHeld
    NothingRunsUnseen
PROPERTIES
    KeepsPromise
    StopEnds
CHECK_DEADLOCK FALSE
