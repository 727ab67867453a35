SPECIFICATION SpecInOrder
CONSTANTS
    io = io
    mme = mme
    enb = enb
    Thread <- MCThread
    FirstCallers <- AnyFirstCaller
    Line = {l1, l2}
    Empty = Empty
    Nobody = Nobody
INVARIANTS
    LockIsHeld
