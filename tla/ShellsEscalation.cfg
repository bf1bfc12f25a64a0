SPECIFICATION Spec
CONSTANTS
    Shells = {sh1}
    Retention = 2
    MaxBytes = 2
INVARIANT
    EscalationKills
CHECK_DEADLOCK FALSE
