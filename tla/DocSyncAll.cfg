SPECIFICATION Spec
CONSTANTS
    Reader = reader
    Slots = {s1, s2}
    EditKinds = {"func", "global"}
    Externals = {"disk", "scan", "restart"}
    Burst = 1
    MaxRev = 3
SYMMETRY Interchangeable
INVARIANTS
    TypeOK
    ReadersSeeTheText
    OneHolder
    ClosedHoldsNothing
    OwedIsScheduled
CHECK_DEADLOCK FALSE
