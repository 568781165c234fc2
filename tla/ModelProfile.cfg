SPECIFICATION FairSpec
CONSTANTS
    MaxAsks = 1
    MaxFaults = 2
INVARIANTS
    ReleasedIsFree
    PauseIsKept
PROPERTIES
    GameGetsTheCard
