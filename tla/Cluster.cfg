SPECIFICATION WatchSpec
CONSTANTS
    Server = {s1, s2}
    Stoppable = {s2}
    Ahead = s1
    NoLeader = NoLeader
    HeartbeatInterval = 1
    LeaderTimeout = 3
    ClaimTimeout = 3
    MaxDelay = 1
    MaxSkew = 1
    Skew <- MCSkew
    MaxTime = 7
    MaxCrashes = 1
    MaxDbErrors = 1
    TakeoverBound = 6
INVARIANTS
    TypeOK
    AtMostOneLeader
    LiveServerStaysHealthy
    TakeoverWithinBound
    SplitBrainHeals
PROPERTIES
    RoundLeavesLiveLease
    ElectionsRaiseTerm
    LeaseNeverShrinks
    ImplementsLease
