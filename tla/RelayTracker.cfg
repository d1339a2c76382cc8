CONSTANTS
    Task = {t1, t2}
    Session = {s1, s2}
    Idle = Idle
    None = None
    Unread = Unread
    MaxCount = 2
SPECIFICATION Spec
INVARIANTS
    TypeOK
    SuccessesFitAttempts
    FlagsAreCounted
    RateIsARatio
