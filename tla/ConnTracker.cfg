SPECIFICATION Spec
CONSTANTS
    Stdio = stdio
    Conns = {stdio, s1, s2, s3, s4}
INVARIANTS
    TypeOK
    CountIsActive
    DoneIsLevel
    NoLostWakeup
PROPERTY
    ImplementsDrain
CHECK_DEADLOCK FALSE
