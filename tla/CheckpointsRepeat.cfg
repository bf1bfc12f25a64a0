SPECIFICATION Spec
CONSTANTS
    f = f
    g = g
    a = a
    b = b
    h = h
    s1 = s1
    s2 = s2
    None = None
    Sessions = {s1}
    Paths = {f, g}
    AgentBytes = {a, b}
    HumanBytes = {h}
    Keep = 2
    MaxTurns = 1
    MaxCalls = 3
    MaxTrash = 0
    MaxOutside = 0
INVARIANT
    RepeatedEditUndone
CHECK_DEADLOCK FALSE
