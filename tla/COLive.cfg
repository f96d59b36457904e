CONSTANTS
    c1 = c1
    c2 = c2
    Clients = {c1, c2}
    Kinds = {"put", "cas", "incr", "lookup"}
    Values = {1, 5}
    Sources = {0}
    NonNumeric = {5}
    Amount = 1
    Retries = 2
    Faults = {"drop", "restart", "execloss", "encode", "damage"}
    MaxOps = 1
    MaxTime = 1
    MaxLate = 0
    Ttl = 2
    NegativeTtl = 1
    MaxTtl = 3
    MaxStaleness = 2
    AbsentVersions = {}
    NegativeCaching = TRUE
SPECIFICATION FairSpec
PROPERTY
    OpsReturn
