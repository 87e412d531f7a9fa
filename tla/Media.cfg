SPECIFICATION Spec
CONSTANTS
    Players = {"p1"}
    PausesUnanswered = FALSE
    MaxAsked = 6
INVARIANT PlaysAgain
CHECK_DEADLOCK FALSE
