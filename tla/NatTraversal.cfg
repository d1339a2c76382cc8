CONSTANTS
    Peer = {p1, p2}
    NumServers = 2
    HostNames = {}
    PunchCount = 5
    MaxAttrs = 2
    NoPeer = NoPeer
SPECIFICATION FairSpec
INVARIANTS
    TypeOK
    PrivateIsNeverOpen
    StrategiesAgree
    ConnectedPeersAgree
PROPERTIES
    DiscoveryEnds
    AttemptsAreUsedUp
CHECK_DEADLOCK FALSE
