SPECIFICATION FairLoop
CONSTANTS
    Calls <- AllCalls
    AllowedSets <- SomeTools
    Contents = {x}
    NoContent = NoContent
    NoCall = NoCall
    MaxCalls = 3
    MaxBatch = 2
INVARIANTS
    CompletedIsVerified
    NoChangeTwice
PROPERTIES
    JobEnds
CHECK_DEADLOCK FALSE
