SPECIFICATION Spec
CONSTANTS
    Keep = 4
    FreshIds = FALSE
    Images = "last"
    MaxCalls = 2
    MaxReplies = 4
    MaxNotes = 3
    MaxResumes = 0
INVARIANT
    CallsAnswered
CHECK_DEADLOCK FALSE
