SPECIFICATION Spec
CONSTANTS
    a = a
    b = b
    g1 = g1
    g2 = g2
    Nodes = {a, b}
    Groups = {g1, g2}
    Plans <- MCPlans
    MaxPreload = 2
    MaxResends = 1
CHECK_DEADLOCK FALSE
INVARIANTS
    SplitsProcessed
    NobodySleepsOnSplits
    CompletedGroups
    RemoteSplitsHanded
PROPERTIES
    TaskEnds
