SPECIFICATION FairSpec
CONSTANTS
    Callers = {c1, c2}
    add = add
    sync = sync
    Urls <- MCUrls
    NumRules = 2
    Matches <- MCMatches
    MinInterval <- MCMinInterval
    Burst <- MCBurst
    Epoch = 3
    MaxTime = 12
CHECK_DEADLOCK FALSE
INVARIANT FloorPerCaller
 
