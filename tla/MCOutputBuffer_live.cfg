SPECIFICATION FairSpec
CONSTANTS
    Kinds = {"kPartitioned", "kArbitrary"}
    NumDests = 2
    InitDests = 1
    Producers = {p1}
    ExtraDrivers = 1
    MaxPages = 2
    PageSize = 2
    MaxSize = 3
    FetchPages = 1
    EarlyDelete = {"kPartitioned"}
    p1 = p1
CHECK_DEADLOCK FALSE
PROPERTIES
    OutputIsConsumed
    DeleteUnblocksProducers
