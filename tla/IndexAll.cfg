SPECIFICATION Spec
CONSTANTS
    a1 = a1
    a2 = a2
    b1 = b1
    a = a
    b = b
    ws = ws
    Uris = {a1, a2, b1}
    Keys = {a, b}
    KeyOf <- AKeyOf
    Folders = {ws}
    UnderRaw <- AlikeRaw
    UnderKey <- AUnderKey
    Names = {n}
    Scopes = {s}
    Top = top
    MaxLine = 2
    Deltas <- ADeltas
    Addresses = {0, 1, 2}
INVARIANTS TypeOK ViewsAgree NothingAccumulates
PROPERTY ImplementsFileTable
