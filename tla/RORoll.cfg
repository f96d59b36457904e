CONSTANTS
    Replicas = {r1, r2}
    Bindings <- MCBindings
    First <- MCFirst
    Upgrades <- MCUpgrades
    Engine = "9"
    Requests <- MCRequests
    BadKey = "bad"
    Skew <- MCSkew
    MaxSkew = 1
    MaxOps = 2
    MaxChanges = 1
    MaxTime = 3
    MaxLate = 2
    MaxDamage = 1
SPECIFICATION Spec
INVARIANTS
    TypeOK
    HitsAreOwn
    OldGenerationUnreachable
    TtlBounded
    KeysApart
    KeysFit
    AcceptedIsWritable
    SentinelsDistinct
PROPERTIES
    HitsWithinBounds
    ForeignUntouched
