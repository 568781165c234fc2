SPECIFICATION Spec
CONSTANTS
    Requests = {r1, r2}
    Paths = {a, b}
    Other = Other
    Absent = Absent
    NoOrder = NoOrder
    MaxChanges = 1
    MaxFaults = 2
    Metros = {m1, m2, m3}
    Grace = 2
    FailureLimit = 2
    FirstDelay = 1
    LastDelay = 3
    MaxRuns = 2
    Calls = {c1, c2}
    Limit = 1
    Window = 2
    MaxTime = 3
    Threads = {t1, t2, t3}
    Query = query
    Wider = wider
    Another = another
    Nameless = nameless
    Page = 2
    Tasks = 2
    MaxRenames = 1
    MaxNoise = 1
    Searches = {1, 2}
    Pages = {page, moved}
    Redirecting = {moved}
    Spellings = {watch, short}
    Watch = watch
    Local = local
    Engines = 2
    Offered = {moved, watch, short, local}
    Rows = 2
    Wanted = 2
    Batch = 2
    Workers = 1
    Redirects = 1
    PositiveTtl = 1
    NegativeTtl = 0
    CacheSize = 1
    LinkDeadline = 0
    Deadline = 0
    MaxMoves = 1
    None = None
SYMMETRY Symmetry
INVARIANTS
    WholeFiles
    FailureIsClean
    MetroIsHeld
    KeepsTheKey
    NoGuess
    OnlyLiveLinks
PROPERTIES
    NoSilentOverwrite
    ChangesAreSeen
CHECK_DEADLOCK FALSE
