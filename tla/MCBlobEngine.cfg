\* A save and a load of one key, a cleanup and a close, two workers, all faults.
CONSTANTS
    o1 = o1 o2 = o2 k1 = k1 m1 = m1 c1 = c1
    Keys = {k1}
    Ops = {o1, o2}
    Saves = {o1}
    Maintenances = {m1}
    Flushes = {}
    Closes = {c1}
    MaxConcurrent = 2
    None = None
    Absent = Absent
    WorkerFaults = TRUE
    CoordinatorFaults = TRUE
    KeyOf <- MCKeyOf
SPECIFICATION StoreSpec
\* A stopped engine has no step left.
CHECK_DEADLOCK FALSE
INVARIANTS
    LoadsSeeLastSave
PROPERTIES
    Implements
