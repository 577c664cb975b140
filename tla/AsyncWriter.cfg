CONSTANTS
    Buf = {b1, b2, b3}
    StreamLen = 6
    MaxChunk = 2
    Unwritten = Unwritten
    NoBuf = NoBuf
SPECIFICATION MCSpec
INVARIANTS
    BufferOwnership
    ChunksIntact
    OkMeansStored
PROPERTIES
    Answered
    Implements
