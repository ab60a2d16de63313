\* Two keys, a cleanup and a flush, every worker failure.
CONSTANTS
    o1 = o1 o2 = o2 o3 = o3 k1 = k1 k2 = k2 m1 = m1 f1 = f1 c1 = c1 c2 = c2
    Keys = {k1, k2}
    Ops = {o1, o2, o3}
    Maintenances = {m1}
    Flushes = {f1}
    Closes = {}
    MaxConcurrent = 2
    None = None
    WorkerFaults = TRUE
    CoordinatorFaults = FALSE
    KeyOf <- MCKeyOf
SPECIFICATION Spec
SYMMETRY MCSymmetry
INVARIANTS
    TypeOK
    PerKeyFIFO
    WorkerForEveryJob
    MaintenanceExclusive
    BarrierOrder
    NoStall
