SPECIFICATION Spec
CONSTANTS
    p1 = p1
    t1 = t1
    p2 = p2
    t2 = t2
    Passwords = {p1, p2}
    Threads = {t1}
    MaxFails = 2
    MaxTime = 1
    MaxKeys = 2
    MaxLinks = 1
    MaxAccounts = 1
    MaxRequests = 5
SYMMETRY Interchangeable
INVARIANTS TypeOK FailuresAreCounted CodesStayBurnt SeedsStayReadable
PROPERTY RevokedSessionsEnd
CHECK_DEADLOCK FALSE
