SPECIFICATION FairSpec
CONSTANTS
    Callers = {c, d}
    Msgs = {m}
    MaxAttempts = 3
INVARIANTS CellIsCurrent ReadyHasSession
PROPERTY CallersSettle
CHECK_DEADLOCK FALSE
