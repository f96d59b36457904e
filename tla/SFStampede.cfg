CONSTANTS
    p1 = p1
    p2 = p2
    p3 = p3
    Procs <- TwoProcs
    Skew <- NoSkew
    MaxSkew = 0
    Faults = {}
    MaxCalls = 1
    MaxWrites = 0
    MaxTime = 0
    MaxLate = 0
    NegativeCaching = TRUE
    AbsentVersions = {1}
    LeaseMs = 2
    WaitMs = 1
    PollMs = 1
    Ttl = 2
    NegativeTtl = 1
    MaxTtl = 3
    MaxStaleness = 3
SPECIFICATION Spec
INVARIANT
    StampedeLoadsOnce
