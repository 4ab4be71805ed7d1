SPECIFICATION FairSpec
CONSTANTS
    q1 = q1
    q2 = q2
    t1 = t1
    t2 = t2
    t3 = t3
    Pools = {q1, q2}
    Tasks = {t1, t2, t3}
    PoolOf <- MCPoolOf
    Spillable = {t1, t3}
    Capacity = 2
    MaxCapacity <- MCMaxCapacity
    InitCapacity = 1
    Transfer = 2
    SpillNeed = 1
    Sizes = {1, 2}
    MaxAsks <- MCMaxAsks
    Word = 64
INVARIANTS
    CapacityConserved
    Serialized
    OveruseOnlyInSpill
PROPERTIES
    GrantFits
    AbortedNeverGrows
    RequestsAnswered
