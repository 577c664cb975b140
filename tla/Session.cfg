CONSTANTS
    MaxOps = 3
    MaxChunks = 2
SPECIFICATION Spec
INVARIANTS
    InSync
    SuccessIsServed
PROPERTY OperationEnds
CHECK_DEADLOCK FALSE
