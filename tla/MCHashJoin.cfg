SPECIFICATION FairSpec
CONSTANTS
    b1 = b1
    b2 = b2
    b3 = b3
    p1 = p1
    p2 = p2
    Builders = {b1, b2, b3}
    Probers = {p1, p2}
    BuilderOrder <- MCOrder
    Keys = {"k11", "k12", "k21"}
    Hash <- MCHash
    NumPartitions = 2
    MaxSpillLevel = 1
    Joins <- MCJoins
CHECK_DEADLOCK FALSE
INVARIANTS
    JoinResult
    ChecksHold
PROPERTIES
    SpillsLiveTable
    AllFinish
