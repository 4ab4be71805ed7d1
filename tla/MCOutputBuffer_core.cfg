SPECIFICATION Spec
CONSTANTS
    Kinds = {"kPartitioned", "kBroadcast", "kArbitrary"}
    NumDests = 2
    InitDests = 1
    Producers = {p1, p2}
    ExtraDrivers = 1
    MaxPages = 2
    PageSize = 2
    MaxSize = 3
    FetchPages = 1
    EarlyDelete = {"kPartitioned", "kBroadcast", "kArbitrary"}
    p1 = p1
    p2 = p2
SYMMETRY SymProducers
CHECK_DEADLOCK FALSE
INVARIANTS
    NothingLostOrRepeated
    EndAfterAllPages
    NobodyForgotten
    BytesCounted
