SPECIFICATION FairSpec
CONSTANTS
    Requests <- One
    NoRequest = NoRequest
    WorkRequests = {}
    PlanTools = 2
    MaxActive = 2
    MaxRecords = 2
    MaxJobs = 1
    MaxFaults = 1
PROPERTIES
    StopEndsEveryJob
CHECK_DEADLOCK FALSE
