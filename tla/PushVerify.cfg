SPECIFICATION PushSpec
CONSTANTS
    Size = 2
    Depth = 1
    MaxTries = 2
    MaxBatches = 2
    Slot = {"c1", "c2"}
INVARIANTS VerifiedIsStored RejectedIsWrong
CHECK_DEADLOCK FALSE
