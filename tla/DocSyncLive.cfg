SPECIFICATION FairSpec
CONSTANTS
    Reader = reader
    Slots = {s1}
    EditKinds = {"func", "global"}
    Externals = {}
    Burst = 1
    MaxRev = 4
PROPERTY
    IndexCatchesUp
CHECK_DEADLOCK FALSE
