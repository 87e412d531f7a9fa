SPECIFICATION Spec
CONSTANTS
    Providers = 2
    Renewers = {1}
    Reconnects = 1
    Chunk = 2
    MostKept = 2
    Pauses = 3
    MaxHeard = 3
    MaxMarks = 4
    MaxAttempts = 3
PROPERTIES
    PauseGrows
