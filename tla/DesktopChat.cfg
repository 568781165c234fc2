SPECIFICATION Spec
CONSTANTS
    Chats = {c1, c2}
    Jobs = {j1, j2}
    MaxMoves = 2
    None = None
SYMMETRY Symmetry
INVARIANTS
    DraftsReturn
    NoLeak
    OneAnswer
CHECK_DEADLOCK FALSE
