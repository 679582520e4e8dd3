CONSTANTS
    c1 = c1
    c2 = c2
    Converters <- MCOne
    Source <- MCNative
    Matches <- MCAll
    Removable = {}
SPECIFICATION Spec
CHECK_DEADLOCK FALSE
INVARIANTS
    NativeFormat
