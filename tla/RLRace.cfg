CONSTANTS
    Threads = {t1, t2}
    Versions = {"8", "9"}
    Pinned = "8"
    Unfit = {"memory", "maxmemory", "replication"}
    Waived = {"save"}
    NHandles = 2
    MaxOps = 2
    MaxChanges = 1
SPECIFICATION Spec
SYMMETRY ThreadSymmetry
INVARIANTS
    TypeOK
    OpenedIsPinned
    CloseIsComplete
PROPERTIES
    NoUseAfterClose
    DriftDetected
