SPECIFICATION Spec
CONSTANTS
    mme = mme
    enb = enb
    Remote <- MCRemote
    NoRemote = NoRemote
    Remotes <- MCRemotes
    peers_max_count = 4
    keep_alive_probes = 2
    ReestablishDelay = 4
INVARIANTS
    NoFalseAlarm
CHECK_DEADLOCK FALSE
