SPECIFICATION Spec
CONSTANTS
    mme = mme
    enb = enb
    Remote <- MCRemote
    Remotes <- MCRemotes
    FD = {3, 4, 5}
    AssocId = {1, 2}
    peers_max_count = 2
    selected_fds_max_count = 2
    MaxUnread = 3
INVARIANTS
    TypeOK
    SlotsOwnAssociations
    CrashOnlyIfFull
PROPERTIES
    LossIsRepaired
\* The process ends.
CHECK_DEADLOCK FALSE
