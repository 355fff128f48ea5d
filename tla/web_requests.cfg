SPECIFICATION WebSpec
CONSTANTS
    Xhrs = {x}
    Fetches = {f}
    Hosts = {h}
    Cookies = {c}
    SyncStore = TRUE
    MaxChunks = 2
    MaxWrites = 2
    MaxCalls = 2
INVARIANTS StoredIsJar  LoadIsWhole
PROPERTY EveryRequestEnds
CHECK_DEADLOCK FALSE
