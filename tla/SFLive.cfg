CONSTANTS
    p1 = p1
    p2 = p2
    p3 = p3
    Procs <- TwoProcs
    Skew <- FirstAhead
    MaxSkew = 1
    Faults = {"drop", "late", "restart"}
    MaxCalls = 1
    MaxWrites = 1
    MaxTime = 1
    MaxLate = 1
    NegativeCaching = FALSE
    AbsentVersions = {1}
    LeaseMs = 1
    WaitMs = 1
    PollMs = 1
    Ttl = 1
    NegativeTtl = 1
    MaxTtl = 3
    MaxStaleness = 3
SPECIFICATION FairSpec
INVARIANTS
    TypeOK
    NegativeOptIn
PROPERTIES
    HitsAreValid
    CallsReturn
    LeaseFreed
    StaleDiesOut
