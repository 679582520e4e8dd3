CONSTANTS
    g1 = g1
    g2 = g2
    g3 = g3
    d1 = d1
    d2 = d2
    d3 = d3
    d4 = d4
    Nothing = Nothing
    Getters <- MCGetters
    Digests <- MCDigests
    MaxEntries = 2
SPECIFICATION Spec
SYMMETRY MCSymmetry
INVARIANTS
    TypeOK
    CacheQueued
    CacheBounded
    AnswersVerified
PROPERTIES
    EvictsOldest
