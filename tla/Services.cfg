CONSTANTS
    MaxAttempts = 2
    MaxChunks = 4
    StreamChunks = 3
    MostPending = 2
    MostHeld = 2
    MaxEvents = 2
    Crossing = {}
    LeadIn = 1
    MostWaiting = 1
    Models = {"stream", "batch"}
    MaxJobs = 1
    Null = Null
SPECIFICATION Spec
INVARIANT AudioInOrder
PROPERTY KeepsContract
PROPERTY ToldEnds
CHECK_DEADLOCK FALSE
