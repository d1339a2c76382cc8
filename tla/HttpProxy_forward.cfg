SPECIFICATION Spec
CONSTANTS
    Agent = {a1}
    Tcp = {}
    Subdomain = {d1}
    None = None
    Request = {r1}
PROPERTY LocalAgentGetsRequest
CHECK_DEADLOCK FALSE
