SPECIFICATION MCSpec
CONSTANTS
    None = None
    Paths = {f, g}
    Texts = {a, b}
    HumanTexts = {h}
    MaxStages = 3
    MaxOutside = 1
    MaxFaults = 2
    SourceFiles = {s}
    PlanFiles = {p}
    Protected = {q}
    HasApprover = TRUE
    MaxCalls = 2
    MaxChanges = 1
    Shells = {sh1}
    Retention = 3
    MaxBytes = 6
    Callers = {c, d}
    Limit = 1
    FailClosed = {c}
    Terminals = {t, u}
    Profiles = {x, y, z}
    FromEnvironment = {z}
    MaxDeaths = 1
INVARIANTS
    GreenIsComplete
    SecretFirst
PROPERTIES
    ImplementsAtomicCommit
    NoLostEdit
    OnlyTheAllowedRuns
    CachedTrue
    ShellsHold
    CommandsEnd
    LimiterLetsGo
CHECK_DEADLOCK FALSE
