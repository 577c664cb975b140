CONSTANTS
    Program = {u, v}
    Path = {p, q}
    Old = Old
    Zero = Zero
    Absent = Absent
    FlushSize = 2
    ReadAhead = 2
    MaxCaches = 1
    MaxLength = 2
    MaxWrites = 3
    MaxCalls = 3
    MaxFaults = 1
SPECIFICATION Spec
INVARIANTS
    TypeOK
    NothingLost
    NothingLeftBehind
    ListingCurrent
CONSTRAINTS
    Unharmed
    Bounded
SYMMETRY Symmetry
CHECK_DEADLOCK FALSE
