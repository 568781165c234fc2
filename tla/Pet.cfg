SPECIFICATION FairPet
CONSTANTS
    MaxMoves = 3
    MaxEvents = 2
    MaxWay = 1
    None = None
INVARIANTS
    OneErrand
PROPERTIES
    KeepsGoing
    InteractionEnds
CHECK_DEADLOCK FALSE
