SPECIFICATION Spec
CONSTANTS
    Server = {s1, s2}
    Subdomain = {d1}
    Conn = {c1, c2}
    Authorized = {c1, c2}
    AgentId = {i1, i2}
    Stoppable = {s1, s2}
    Restarted = {}
    None = None
    UniqueSubdomain = {TRUE, FALSE}
    NullReadsAsText = {TRUE, FALSE}
    MaxFaults = 1
SYMMETRY Symmetry
INVARIANTS TypeOK EntriesAreListed
PROPERTIES
    DeactivationJustified
    CleanupSparesNewEntries
