SPECIFICATION Spec
CONSTANTS
    Models = {m, n}
    Commands = {c}
    RequireLogin = TRUE
    MaxSessions = 2
    Sessions = {s, t}
    Calls = {c}
    AutoApproveAll = FALSE
    MaxStreams = 1
    MaxProcs = 3
    None = None
INVARIANTS
    PromptTellsTruth
    ProcessesReaped
    AnswersAreTheUsers
PROPERTIES
    AttachmentRidesOnce
    ClientsUnblock
CHECK_DEADLOCK FALSE
