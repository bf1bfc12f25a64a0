SPECIFICATION Spec
CONSTANTS
    Sessions = {s1}
    Legacy = {}
    MaxWrites = 4
    None = None
INVARIANT
    TornTailSkipped
CHECK_DEADLOCK FALSE
