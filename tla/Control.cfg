SPECIFICATION Spec
CONSTANTS
    Modes = {"Toggle", "PushToTalk", "Hybrid"}
    MaxPresses = 5
INVARIANTS HoldEndsWithKey DictatesAlone
PROPERTIES NoUnaskedStart
CHECK_DEADLOCK FALSE
