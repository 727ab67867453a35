SPECIFICATION NetworkSpec
CONSTANTS
    mme = mme
    enb = enb
    Remote <- MCRemote
    NoRemote = NoRemote
    RemotesOf <- MCRemotesOf
    peers_max_count = 3
    keep_alive_probes = 2
    ReestablishDelay = 4
    MaxStarts = 3
    MaxLost = 1
INVARIANTS
    NetworkTypeOK
PROPERTIES
    PeerKept
    EndpointsMeet
\* No endpoint may be up.
CHECK_DEADLOCK FALSE
