SPECIFICATION Spec
CONSTANTS
    Settings <- MCSettings
    MaxRequests = 2
    MaxCopies = 2
INVARIANT KeysAreLetGo
PROPERTIES KeepsContract KeysPasteOwn ClipboardAsSaid
CHECK_DEADLOCK FALSE
