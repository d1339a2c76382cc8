SPECIFICATION WatchSpec
CONSTANTS
    Server = {s1, s2}
    Subdomain = {d1}
    Conn = {c1}
    Authorized = {c1}
    AgentId = {i1,i2}
    Stoppable = {s1, s2}
    Restarted = {}
    None = None
    UniqueSubdomain = {TRUE}
    NullReadsAsText = {FALSE}
    MaxFaults = 0
PROPERTY HeartbeatKeepsAgent
