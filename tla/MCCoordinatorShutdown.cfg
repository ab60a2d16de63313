\* Two close callers and a coordinator or worker that may fail at any point.
CONSTANTS
    o1 = o1 o2 = o2 o3 = o3 k1 = k1 k2 = k2 m1 = m1 f1 = f1 c1 = c1 c2 = c2
    Keys = {k1, k2}
    Ops = {o1, o2, o3}
    Maintenances = {}
    Flushes = {f1}
    Closes = {c1, c2}
    MaxConcurrent = 2
    None = None
    WorkerFaults = TRUE
    CoordinatorFaults = TRUE
    KeyOf <- MCKeyOf
SPECIFICATION Spec
SYMMETRY MCSymmetry
INVARIANTS
    PerKeyExclusion
    CloseOrder
    TerminalIsQuiescent
    ExitLeavesNothing
    CloseAgreement
PROPERTIES
    ReplyOnce
