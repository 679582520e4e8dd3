CONSTANTS
    w1 = w1
    w2 = w2
    k1 = k1
    k2 = k2
    NoKey = NoKey
    NoImage = NoImage
    NoLayer = NoLayer
    Workers <- MCWorkers
    Keys <- MCKeys
    Layers <- MCLayers
    Images <- MCImages
    Native <- MCNative
    LegacyLayers <- MCSiblings
    Daemon = "eager"
    ContentStore = FALSE
    ExclusiveRemove = TRUE
    LostCalls = FALSE
    MaxId = 3
    MaxCrashes = 0
SPECIFICATION Spec
SYMMETRY MCSymmetry
INVARIANTS
    ChainContent
