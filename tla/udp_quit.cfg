SPECIFICATION NetworkSpec
CONSTANTS
    mme = mme
    enb = enb
    Remote <- MCRemote
    NoRemote = NoRemote
    RemotesOf <- MCRemotesOf
    peers_max_count = 3
    keep_alive_probes = 2
    ReestablishDelay = 4
    MaxStarts = 2
    MaxLost = 0
INVARIANTS
    QuitIsFromAPeer
CHECK_DEADLOCK FALSE
