CONSTANTS
    w1 = w1
    w2 = w2
    Plan <- PullPlan
    Present = {1}
    Worker = {w1, w2}
    Mortal = {}
    BlockLen = 2
    MaxTries = 2
    IsPull = TRUE
    Verify = FALSE
    MayShutDown = FALSE
    CreateMayFail = FALSE
SPECIFICATION Spec
INVARIANTS
    WorkPartitioned
    CompletedMeansDelivered
    CleansUp
PROPERTIES
    OnlyPartialDeleted
    OverwriteIsApproved
    BatchEnds
