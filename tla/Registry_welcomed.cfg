SPECIFICATION FairSpec
CONSTANTS
    Server = {s1, s2}
    Subdomain = {d1}
    Conn = {c1}
    Authorized = {c1}
    AgentId = {i1, i2}
    Stoppable = {s2}
    Restarted = {s2}
    None = None
    UniqueSubdomain = {TRUE}
    NullReadsAsText = {FALSE}
    MaxFaults = 1
PROPERTIES
    AgentIsWelcomed
    ImplementsServerRows
