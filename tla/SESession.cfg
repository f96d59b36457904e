CONSTANTS
    k1 = k1
    k2 = k2
    Selectors <- KeyListChoices
    Threads = {t1, t2}
    Keys = {k1, k2}
    BadKey = bad
    MaxBatch = 2
    Contracts = {"get", "put", "put_if_absent", "compare_and_set", "delete", "invalidate"}
    Defects = {"binding", "shape", "version", "resource", "value", "ttl", "source",
               "ttlbound", "size"}
    Errors = {"AuthenticationError", "AuthorizationError", "NoPermissionError",
              "TimeoutError", "ClusterCrossSlotError", "WatchError",
              "MaxConnectionsError", "OutOfMemoryError", "ConnectionError",
              "MasterDownError", "ResponseError", "OtherError"}
    MaxOps = 1
    MaxLate = 1
SPECIFICATION Spec
SYMMETRY ThreadSymmetry
INVARIANTS
    TypeOK
    RetryHintSound
    InvalidatedStaysGone
    RemovalsClaimedOnce
PROPERTY
    CleanRefusal
