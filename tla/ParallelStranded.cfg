CONSTANTS
    w1 = w1
    w2 = w2
    Plan <- OnePlan
    Present = {}
    Worker = {w1, w2}
    Mortal = {w2}
    BlockLen = 2
    MaxTries = 3
    IsPull = TRUE
    Verify = FALSE
    MayShutDown = FALSE
    CreateMayFail = FALSE
SPECIFICATION Spec
PROPERTY
    BatchEnds
