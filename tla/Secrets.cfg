SPECIFICATION Spec
CONSTANTS
    Keys = {"k1", "k2"}
    Secrets = {"OpenAiApiKey", "CliproxyApiKey", "SpeechEndpointKey"}
    LateWrites = {"CliproxyApiKey"}
    OpenFolders = {"SpeechEndpointKey"}
    StuckFiles = {}
    MaxRequests = 3
    MaxStarts = 1
INVARIANTS StoredSurvives HiddenWhileClearing RemovedIsGone
PROPERTIES WritesSettle
CHECK_DEADLOCK FALSE
