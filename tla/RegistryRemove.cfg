CONSTANTS
    c1 = c1
    c2 = c2
    r1 = r1
    r2 = r2
    i1 = i1
    i2 = i2
    f1 = f1
    f2 = f2
    f3 = f3
    NoClient = NoClient
    NoReader = NoReader
    NoId = NoId
    NoFile = NoFile
    Clients <- MCClients
    Readers <- MCOneReader
    Ids <- MCOneId
    Files <- MCFiles
    LostCalls = FALSE
SPECIFICATION Spec
CHECK_DEADLOCK FALSE
SYMMETRY MCSymmetry
INVARIANTS
    RemoveSucceeds
