CONSTANTS
    i1 = i1
    Ids <- MCIds
    MaxPid = 3
    MaxForsaken = 2
SPECIFICATION FairSpec
CHECK_DEADLOCK FALSE
INVARIANTS
    TypeOK
    OneDaemon
    Guarded
PROPERTIES
    NothingLeft
    ImplementsService
    Returns
