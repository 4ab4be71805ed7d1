SPECIFICATION FairSpec
CONSTANTS
    p1 = p1
    p2 = p2
    Producers = {p1, p2}
    Plans <- MCPlans
CHECK_DEADLOCK FALSE
INVARIANTS
    BuffersBounded
    NoSleepInVain
    JoinInputSorted
PROPERTIES
    AllFinish
