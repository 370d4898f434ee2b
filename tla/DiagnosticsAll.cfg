SPECIFICATION Spec
CONSTANTS
    Files = {f}
    Reports = {cflint}
    LintReports = {cflint}
    OpenOnly = {cflint}
    Slots = {s1, s2}
    Reader = reader
    None = None
    MaxRev = 3
    Clean = {1, 3}
SYMMETRY Interchangeable
INVARIANTS
    TypeOK
    ClientAgrees
    KnownCoversEntries
    ClosedHasNoLint
    TwiceOnlyWhenLate
