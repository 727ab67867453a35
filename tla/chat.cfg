SPECIFICATION Spec
CONSTANTS
    io = io
    mme = mme
    enb = enb
    Thread <- MCThread
    FirstCallers <- OneFirstCaller
    Line = {l1, l2}
    Empty = Empty
    Nobody = Nobody
INVARIANTS
    TypeOK
    MutualExclusion
    DeliveredOnce
PROPERTIES
    ImplementsMailbox
