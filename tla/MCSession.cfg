SPECIFICATION Spec
CONSTANTS
    Keep = 4
    FreshIds = TRUE
    Images = "last"
    MaxCalls = 2
    MaxReplies = 3
    MaxNotes = 2
    MaxResumes = 2
    Recorded = {j1, j2}
    Legacy = {j1}
    MaxWrites = 3
    None = None
    Owners = {s1, s2}
    Paths = {f, g}
    AgentBytes = {a}
    HumanBytes = {h}
    RetainTurns = 1
    MaxTurns = 2
    MaxMutations = 3
    MaxTrash = 1
    MaxOutside = 1
INVARIANTS
    RequestsAreSound
    JournalKeepsItsWord
    UndoInverts
PROPERTY
    OthersAreSpared
SYMMETRY Symmetry
CHECK_DEADLOCK FALSE
