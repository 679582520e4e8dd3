CONSTANTS
    c1 = c1
    c2 = c2
    Converters <- MCTwo
    Source <- MCSources
    Matches <- MCAmd64
    Removable <- MCRemovable
SPECIFICATION Spec
CHECK_DEADLOCK FALSE
SYMMETRY MCSymmetry
INVARIANTS
    TypeOK
    Complete
    NativeFormat
PROPERTIES
    StaysComplete
