SPECIFICATION FairSpec
CONSTANTS
    Server = {s1, s2}
    Subdomain = {d1}
    Conn = {c1, c2}
    Authorized = {c1}
    AgentId = {i1}
    Stoppable = {s2}
    Restarted = {s2}
    None = None
    UniqueSubdomain = {TRUE}
    NullReadsAsText = {FALSE}
    MaxFaults = 2
PROPERTY NamesOfDeadServersAreFreed
