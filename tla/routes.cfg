SPECIFICATION Spec
CONSTANTS
    W = 2
    Worlds <- EveryWorld
    None = None
    NLMAX = 3
    DUMP_TIMEOUT = 2
    Steps <- OneStep
INVARIANT FindLongest
INVARIANT ListsKnown
INVARIANT EarlierRemoved
