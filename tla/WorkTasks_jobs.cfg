SPECIFICATION FairSpec
CONSTANTS
    Requests <- TwoAndOne
    NoRequest = NoRequest
    WorkRequests <- TheOthers
    PlanTools = 2
    MaxActive = 2
    MaxRecords = 1
    MaxJobs = 2
    MaxFaults = 2
INVARIANTS
    ActiveHasSession
    LaunchedOnce
    StopLetsOneToolPass
PROPERTIES
    StopTakesEffect
CHECK_DEADLOCK FALSE
