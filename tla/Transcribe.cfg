CONSTANTS
    Files = {"a", "b"}
    Speakers = 2
    Refiners = 1
    MostUnsent = 1
    MaxBuffers = 2
    MaxBatches = 3
SPECIFICATION Spec
INVARIANTS
    ResultsFitBatch NeverBesideDictation
PROPERTY
    BatchEnds
CHECK_DEADLOCK FALSE
