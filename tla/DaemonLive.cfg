SPECIFICATION Spec
CONSTANTS
    Procs = {p1, p2, p3}
    None = None
    SerialStarts = FALSE
    MaxCrashes = 0
    MaxFaults = 1
PROPERTIES
    DialIsSettled
    DaemonExits
CHECK_DEADLOCK FALSE
