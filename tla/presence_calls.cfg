SPECIFICATION FairPresenceSpec
CONSTANTS
    Convs = {a, b}
    Typists = {t}
    Viewers = {w}
    MaxBegun = 3
    MaxPolls = 2
    NoConv = NoConv
INVARIANTS OwnConversation IndicatorsAreOwned
CHECK_DEADLOCK FALSE
PROPERTY EveryCallEnds
