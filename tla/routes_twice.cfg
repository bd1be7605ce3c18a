SPECIFICATION Spec
CONSTANTS
    W = 2
    Worlds <- LinkedWorld
    None = None
    NLMAX = 3
    DUMP_TIMEOUT = 2
    Steps <- OneStep
INVARIANT RoutesComplete
