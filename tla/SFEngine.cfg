CONSTANTS
    p1 = p1
    p2 = p2
    p3 = p3
    Procs <- TwoProcs
    Skew <- NoSkew
    MaxSkew = 0
    Faults = {"late", "failover", "evict", "damage", "loader", "encode"}
    MaxCalls = 1
    MaxWrites = 1
    MaxTime = 1
    MaxLate = 1
    NegativeCaching = TRUE
    AbsentVersions = {0}
    LeaseMs = 1
    WaitMs = 1
    PollMs = 1
    Ttl = 2
    NegativeTtl = 1
    MaxTtl = 3
    MaxStaleness = 3
SPECIFICATION Spec
SYMMETRY ProcSymmetry
INVARIANTS
    NegativeOptIn
    LeaderExclusion
    NoOrphanLease
PROPERTY
    HitsAreValid
