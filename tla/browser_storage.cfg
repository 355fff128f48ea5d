SPECIFICATION FairStorageSpec
CONSTANTS
    Keys <- AllKeys
    Fifo = TRUE
    TornWrites = FALSE
    MaxOps = 12
    Txs = {"t", "u"}
    Cachers = {"x"}
    Records = {"a", "b"}
    Requests = {"r"}
    Items = {"i"}
    Programs <- SomePrograms
    MaxStarts = 3
INVARIANTS  SettlesWithOutcome  ListedIsStored
PROPERTY EveryStorageCallSettles
CHECK_DEADLOCK FALSE
