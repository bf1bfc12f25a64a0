SPECIFICATION MCSpec
CONSTANTS
    Omitted = Omitted
    NoCommand = NoCommand
    MaxSteps = 2
    MaxEvents = 5
    MaxAttempts = 4
    Servers = {a, b}
    UserServers = {a}
    HttpServers = {b}
    SseServers = {}
    Names = {x, y}
    MaxSessions = 3
    MaxRequests = 5
    StoredSessions = {s, t}
    MaxMessages = 2
    MaxFaults = 1
    Pools = {sessions, identities}
    MaxMigration = 5
    MaxFailures = 2
    Identities = {i, j}
    Codes = {c}
    Handlers = {g, h}
    Turns = {t1}
    Bonus = 1
    MaxAccounts = 1
    MaxCost = 2
INVARIANTS
    DeadToolsGone
    OneTranscript
    BalanceReconciles
PROPERTIES
    NoStepDropped
    CallsEnd
    SchemaReady
CHECK_DEADLOCK FALSE
