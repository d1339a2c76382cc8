SPECIFICATION Spec
CONSTANTS
    Agent = {a1}
    Tcp = {a1}
    Subdomain = {d1}
    None = None
    Session = {s1}
    Endpoint = {e1}
    AgentNat = {None, "Open", "Symmetric"}
    ConnectInfo = {TRUE}
    CleanupCalled = FALSE
    MaxReports = 2
PROPERTY PollsGoForward
CHECK_DEADLOCK FALSE
