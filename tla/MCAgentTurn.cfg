SPECIFICATION MCSpec
CONSTANTS
    MaxModelTurns = 3
    MaxToolCalls = 2
    MaxVerificationRuns = 1
    MaxTruncationRetries = 2
    MaxRaises = 1
    MaxCalls = 2
    Kinds = {"read", "edit", "shell_deny"}
    MaxPrompts = 2
    MaxFaults = 1
    MaxResumes = 1
INVARIANTS
    TypeOK
    NoDanglingRequest
    StoredTranscriptPaired
    PassedIsCurrent
    HonestResult
    AbortStopsTools
    NoOrphanResult
PROPERTIES
    CancelledSticks
    
CHECK_DEADLOCK FALSE
