SPECIFICATION Spec
CONSTANTS
    None = None
    Blank = Blank
    Nil = Nil
    t1 = t1
    t2 = t2
    Threads = {t1, t2}
    Async = {t2}
    CommittedTTL = 1
    MaxResends = 1
    MaxCalls <- Limits
    MaxFaults = 2
INVARIANTS
    TypeOK
PROPERTIES
    ImplementsStore
    ClaimsDoNotExpire
