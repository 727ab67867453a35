SPECIFICATION Spec
CONSTANTS
    Path = {"a", "b", "c"}
    NoPath = "none"
    peers_max_count = 2
    CommandLine <- MCCommandLine
    QueueLimit = 2
INVARIANTS
    TypeOK
    ConfiguredAsWritten
    NoSlotForTheGone
    CrashNeedsSilence
\* Every process has ended.
CHECK_DEADLOCK FALSE
