SPECIFICATION FairSpec
CONSTANTS
    Callers = {c1, c2}
    Sync = TRUE
    Forced = FALSE
    MaxCalls = 3
    MaxRestarts = 1
INVARIANTS  ResolvesLoggedIn
PROPERTY EveryCallSettles
CHECK_DEADLOCK FALSE
