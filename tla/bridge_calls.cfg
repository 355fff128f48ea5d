SPECIFICATION DuplexFairSpec
CONSTANTS
    Channels = {p, q}
    MaxRegs = 3
    MaxCalls = 4
    None = None
    MaxJar = 2
    MaxSockets = 2
INVARIANTS OnePerChannel WantedIsServed StateFollowsSocket
 
CHECK_DEADLOCK FALSE
