CONSTANTS
    w1 = w1
    w2 = w2
    k1 = k1
    k2 = k2
    NoKey = NoKey
    NoImage = NoImage
    NoLayer = NoLayer
    Workers <- MCWorkers
    Keys <- MCKeys
    Layers <- MCLayers
    Images <- MCImages
    Native <- MCNative
    LegacyLayers <- MCDerived
    Daemon = "lazyd"
    ContentStore = TRUE
    ExclusiveRemove = TRUE
    LostCalls = TRUE
    MaxId = 2
    MaxCrashes = 2
SPECIFICATION Spec
SYMMETRY MCSymmetry
INVARIANTS
    TypeOK
    ChainContent
    Served
    InstanceOwned
    LabelsFollowParent
PROPERTIES
    UsesService
