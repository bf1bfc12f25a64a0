SPECIFICATION Spec
CONSTANTS
    None = None
    Omitted = Omitted
    NoCommand = NoCommand
    MaxSteps = 3
    MaxEditDistance = 3
INVARIANT
    EditsAreExact
CHECK_DEADLOCK FALSE
