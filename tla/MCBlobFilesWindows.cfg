\* Three operations on one key with kills, power losses and failing calls.
CONSTANTS
    v1 = v1 v2 = v2 big = big i1 = i1 i2 = i2 Absent = Absent
    Platform = "windows"
    Values = {v1, big}
    Oversized = {big}
    Ids = {i1, i2}
    MinAge = 1
    MaxClock = 1
    MaxOps = 3
SPECIFICATION Spec
SYMMETRY MCSymmetry
INVARIANTS
    CanonicalComplete
    DurableOutcome
PROPERTIES
    DerivedFilesKept
    CleanupRespectsAge
    IsAtomic
