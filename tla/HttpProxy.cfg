SPECIFICATION FairSpec
CONSTANTS
    Agent = {a1, a2}
    Tcp = {a2}
    Subdomain = {d1, d2}
    None = None
    Request = {r1, r2}
INVARIANTS TypeOK PendingIsAwaited
PROPERTY RequestIsAnswered
CHECK_DEADLOCK FALSE
