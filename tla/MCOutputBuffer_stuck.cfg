SPECIFICATION FairSpec
CONSTANTS
    Kinds = {"kBroadcast"}
    NumDests = 2
    InitDests = 1
    Producers = {p1, p2}
    ExtraDrivers = 1
    MaxPages = 2
    PageSize = 2
    MaxSize = 3
    FetchPages = 1
    EarlyDelete = {}
    p1 = p1
    p2 = p2
CHECK_DEADLOCK FALSE
PROPERTIES
    ProducersResumed
