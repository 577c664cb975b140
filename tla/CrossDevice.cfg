CONSTANTS
    p1 = p1
    p2 = p2
    Plan <- RelayPlan
    Present = {3, 4}
    Pair = {p1, p2}
    RangeLen = 2
    Verify = TRUE
    MayShutDown = TRUE
SPECIFICATION Spec
INVARIANTS
    CompletedMeansDelivered
    CleansUp
    InStep
PROPERTY
    BatchEnds
