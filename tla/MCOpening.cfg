\* A blocking and a Tokio caller race on Unix, with kills and power losses.
CONSTANTS
    b = b t = t
    Platform = "unix"
    Openers = {b, t}
    TokioOpeners = {t}
    Namespaces <- MCNamespaces
    Maximums = {0, 5, 6}
    Overhead = 2
    Word = 7
    MaxAttempts = 3
    Faults = TRUE
\* The callers may stop opening stores.
CHECK_DEADLOCK FALSE
SPECIFICATION FairSpec
INVARIANTS
    EngineOnNamespace
PROPERTIES
    NoOrphanEngine
