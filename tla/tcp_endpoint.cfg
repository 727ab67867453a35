SPECIFICATION Spec
CONSTANTS
    mme = mme
    enb = enb
    Remote <- MCRemote
    NoRemote = NoRemote
    Remotes <- MCRemotes
    FD = {3, 4, 5}
    peers_max_count = 2
    selected_fds_max_count = 2
    Backlog = 1
INVARIANTS
    TypeOK
    SlotsOwnDescriptors
    SelectedAreServable
    NoSurplusConnection
    WantedKept
PROPERTIES
    LostIsRetried
    ReadyIsServed
\* The process ends.
CHECK_DEADLOCK FALSE
