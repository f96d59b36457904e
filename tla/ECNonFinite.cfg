CONSTANTS
    s1 = s1
    s2 = s2
    Schemas <- TwoSchemas
    Bodies = {b1, b2}
    Sources = {0}
    WriterTtl = 2
    Staleness = 3
    Overhead = 1
    WriterLimit = 2
    ReaderLimit = 2
    MaxLength = 2
    MaxDamage = 1
    MaxTime = 2
SPECIFICATION Spec
INVARIANT
    CorruptIsMiss
