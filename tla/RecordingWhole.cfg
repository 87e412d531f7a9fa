CONSTANTS
    SystemAudio = TRUE
    Cancels = TRUE
SPECIFICATION Spec
INVARIANTS
    LinesWhole ReferenceOutlasts EndsWhole
PROPERTY
    StopEnds
