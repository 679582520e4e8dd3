CONSTANTS
    r1 = r1
    r2 = r2
    r3 = r3
    NoReader = NoReader
    Readers <- MCReaders
    MaxQueue = 2
    MaxBatch = 2
    MaxFds = 3
SPECIFICATION Spec
INVARIANTS
    TypeOK
    NoneForgotten
    FdsReturned
    OnlyTheKernelLetsThrough
PROPERTIES
    AnsweredInOrder
    EveryEventAnswered
