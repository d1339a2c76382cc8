SPECIFICATION Spec
CONSTANTS
    Agent = {a1, a2}
    Tcp = {a1}
    Subdomain = {d1}
    None = None
    Session = {s1, s2}
    Endpoint = {e1}
    AgentNat = {None, "Open", "Symmetric"}
    ConnectInfo = {TRUE, FALSE}
    CleanupCalled = TRUE
    MaxReports = 4
INVARIANTS TypeOK StrategyFitsNats SuccessesFitClients ConnectedAreCounted
