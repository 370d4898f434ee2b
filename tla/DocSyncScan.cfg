SPECIFICATION Spec
CONSTANTS
    Reader = reader
    Slots = {s1, s2}
    EditKinds = {"func", "global"}
    Externals = {"scan"}
    Burst = 1
    MaxRev = 3
PROPERTY
    BufferOutranksDisk
CHECK_DEADLOCK FALSE
