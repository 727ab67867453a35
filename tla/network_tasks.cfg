SPECIFICATION Spec
CONSTANTS
    mme = mme
    enb1 = enb1
    enb2 = enb2
    Task <- MCTask
    Mortal <- MCMortal
    Io = io
    MaxLines = 3
    Empty = Empty
    Quit = Quit
INVARIANTS
    TypeOK
    QuitTokenConserved
    NoUnaskedExit
    LinesSentOnceInOrder
PROPERTIES
    QuitEndsTheProcess
\* The program ends: main returns, or the end of the input ends the process.
CHECK_DEADLOCK FALSE
