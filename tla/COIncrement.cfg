CONSTANTS
    c1 = c1
    c2 = c2
    Clients = {c1, c2}
    Kinds = {"incr"}
    Values = {1}
    Sources = {0}
    NonNumeric = {}
    Amount = 1
    Retries = 2
    Faults = {"execloss"}
    MaxOps = 1
    MaxTime = 0
    MaxLate = 0
    Ttl = 2
    NegativeTtl = 1
    MaxTtl = 3
    MaxStaleness = 2
    AbsentVersions = {}
    NegativeCaching = TRUE
SPECIFICATION Spec
INVARIANT
    IncrementOnce
