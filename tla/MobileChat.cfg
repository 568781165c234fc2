SPECIFICATION Spec
CONSTANTS
    Chats = {a, b}
    Leader = a
    MaxSends = 1
    MaxOthers = 1
    MaxMoves = 1
    MaxFaults = 1
    MaxLoads = 1
    Page = 1
    None = None
INVARIANTS
    NoMixing
    ReturnedIsOver
PROPERTIES
    DraftFollows
    CatchesUp
