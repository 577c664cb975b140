CONSTANT MaxSize = 6
SPECIFICATION LogSpec
INVARIANTS
    RangesDisjoint
    BytesExact
    CompleteMeansCovered
