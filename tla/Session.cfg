CONSTANTS
    Refiners = 2
    MaxUnanswered = 2
    MaxNesting = 6
SPECIFICATION Spec
INVARIANTS
    MicrophoneRests WorkFollows ReceiptIsOwn MediaPlaysAtRest
PROPERTIES
    ReviewKept AsksAsPromised MovesOn
CHECK_DEADLOCK FALSE
