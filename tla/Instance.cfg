CONSTANTS
    t1 = t1
    t2 = t2
    t3 = t3
    Tasks <- MCThree
    Size = 5
    Block = 2
    Requests <- MCAligned
SPECIFICATION FairSpec
INVARIANTS
    TypeOK
    AnsweredFilled
    FetchersDisjoint
    ReservationsHeld
PROPERTIES
    EveryCallAnswered
