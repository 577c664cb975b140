SPECIFICATION Spec
CONSTANTS
    Panel = {p1}
    Slot = {s1, s2}
    Primary = s1
    Folder = {home, top}
    Home = home
    Top = top
    None = none
    MaxActs = 2
    MaxLosses = 1
    MaxThrows = 1
INVARIANTS ShowsItsFolder AwaitedIsComing NothingSleptThrough
CHECK_DEADLOCK FALSE
CONSTRAINT OneFault
