CONSTANTS
    c1 = c1
    c2 = c2
    Clients = {c1, c2}
    Kinds = {"put", "pifa", "cas", "delete", "incr"}
    Values = {1}
    Sources = {0}
    NonNumeric = {}
    Amount = 1
    Retries = 2
    Faults = {"late", "damage"}
    MaxOps = 2
    MaxTime = 1
    MaxLate = 1
    Ttl = 1
    NegativeTtl = 1
    MaxTtl = 3
    MaxStaleness = 2
    AbsentVersions = {}
    NegativeCaching = TRUE
SPECIFICATION Spec
SYMMETRY ClientSymmetry
INVARIANT
    TypeOK
PROPERTY
    ImplementsAtomicCache
