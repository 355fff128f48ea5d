SPECIFICATION Spec
CONSTANTS
    Users = {a}
    Readers = {}
    Ticks = {t1, t2}
    Prompt = FALSE
    NoCache = NoCache
    MaxMoves = 3
    MaxBoots = 1
SYMMETRY Symmetry
 
PROPERTIES AcceptedIsAdded RemovedMeansUnfriended 
CHECK_DEADLOCK FALSE
