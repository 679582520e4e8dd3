CONSTANTS
    t1 = t1
    t2 = t2
    t3 = t3
    Tasks <- MCTwo
    Size = 5
    Block = 2
    Requests <- MCUnaligned
SPECIFICATION Spec
INVARIANTS
    AnsweredFilled
