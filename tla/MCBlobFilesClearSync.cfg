\* A clear retried after its directory sync failed.
CONSTANTS
    v1 = v1 v2 = v2 big = big i1 = i1 i2 = i2 Absent = Absent
    Platform = "unix"
    Values = {v1}
    Oversized = {}
    Ids = {i1}
    MinAge = 1
    MaxClock = 0
    MaxOps = 3
SPECIFICATION Spec
INVARIANTS
    ClearIsSynchronized
