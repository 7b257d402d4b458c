SPECIFICATION FairSpec
CONSTANTS
    None = None
    t1 = t1
    t2 = t2
    t3 = t3
    p1 = p1
    p2 = p2
    Threads = {t1, t2, t3}
    Processes = {p1, p2}
    Home <- Homes
    Async = {p2}
    MaxCalls <- Limits
    MaxRetries = 2
    MaxFaults = 1
INVARIANTS
    TypeOK
    ConflictIsReadable
PROPERTIES
    ImplementsStore
    CallsEnd
