SPECIFICATION Spec
CONSTANTS
    None = None
    Omitted = Omitted
    NoCommand = NoCommand
    MaxSteps = 3
    MaxEditDistance = 3
INVARIANTS
    ChangesAreExact
    VerdictsHold
    PublishedPlansAreSound
    ConversationsCarryOver
CHECK_DEADLOCK FALSE
