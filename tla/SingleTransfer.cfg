CONSTANTS
    Plan <- MixedPlan
    Parent <- MixedParent
    Present = {2, 4}
    Kinds = {"pull", "push", "copy", "move", "rename"}
    MaxRetries = 1
    CrcTries = 2
    Verify = TRUE
    MayShutDown = TRUE
SPECIFICATION Spec
INVARIANTS
    CompletedMeansDelivered
    SourceOrCopy
    NoPartialLeft
PROPERTIES
    OverwriteIsApproved
    StopBeginsNothing
    BatchEnds
