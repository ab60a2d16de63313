\* Every fault, two keys, one worker: operations, a cleanup and a close.
CONSTANTS
    o1 = o1 o2 = o2 o3 = o3 k1 = k1 k2 = k2 m1 = m1 f1 = f1 c1 = c1 c2 = c2
    Keys = {k1, k2}
    Ops = {o1, o3}
    Maintenances = {m1}
    Flushes = {}
    Closes = {c1}
    MaxConcurrent = 1
    None = None
    WorkerFaults = TRUE
    CoordinatorFaults = TRUE
    KeyOf <- MCKeyOf
SPECIFICATION FairSpec
\* A stopped engine has no step left; the properties below exclude every other stop.
CHECK_DEADLOCK FALSE
PROPERTIES
    EveryRequestAnswered
    EveryCloseReturns
    LastHandleStops
