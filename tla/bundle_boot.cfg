SPECIFICATION FairSpec
CONSTANTS
    a = a
    b = b
    a1 = a1
    a2 = a2
    b1 = b1
    Clients = {a, b}
    Callers = {a1, a2, b1}
    Owner <- MCOwner
    Parts <- MCParts
    MaxCalls = 3
CHECK_DEADLOCK FALSE
INVARIANTS MainEvaluatedOnce FacadeFollowsBoot ResolvedAfterBoot
PROPERTY EveryBringUpSettles
