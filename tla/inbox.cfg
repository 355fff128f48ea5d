SPECIFICATION InboxFairSpec
CONSTANTS
    m1 = m1
    m2 = m2
    m3 = m3
    a = a
    b = b
    Inbound = {m1, m2, m3}
    ConvOf <- TwoConvs
    Enumerated <- One
    Cap = 2
    MaxPushes = 2
INVARIANT FetchedOnce
 
CHECK_DEADLOCK FALSE
