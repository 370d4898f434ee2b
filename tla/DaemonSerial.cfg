SPECIFICATION Spec
CONSTANTS
    Procs = {p1, p2, p3, p4}
    None = None
    SerialStarts = TRUE
    MaxCrashes = 1
    MaxFaults = 0
SYMMETRY Interchangeable
INVARIANTS
    TypeOK
    CountIsSessions
    OneDaemon
    NamedWhileServing
    NeverDeaf
PROPERTY
    UnlinksOwn
CHECK_DEADLOCK FALSE
