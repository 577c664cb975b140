CONSTANTS
    w1 = w1
    w2 = w2
    Plan <- PushPlan
    Present = {2, 3}
    Worker = {w1, w2}
    Mortal = {}
    BlockLen = 1
    MaxTries = 2
    IsPull = FALSE
    Verify = TRUE
    MayShutDown = TRUE
    CreateMayFail = FALSE
SPECIFICATION Spec
INVARIANT CompletedMeansDelivered
