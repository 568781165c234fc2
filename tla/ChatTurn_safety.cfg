SPECIFICATION FairSpec
CONSTANTS
    Messages = {m1, m2}
    WithFiles = {m2}
    NoMessage = NoMessage
    MaxAttempts = 3
    MaxTools = 2
    MaxCrashes = 2
INVARIANTS
    WorkIsStored
    OneAnswer
PROPERTIES
    TurnEnds
CHECK_DEADLOCK FALSE
