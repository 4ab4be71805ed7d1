SPECIFICATION FairSpec
CONSTANTS
    s1 = s1
    s2 = s2
    c1 = c1
    c2 = c2
    Sources = {s1, s2}
    Consumers = {c1, c2}
    Splitter = c1
    Quitters = {c2}
    SplitList <- MCSplitList
    EarlySplits = 2
    NumPages <- MCNumPages
    PageBytes <- MCPageBytes
    MaxQueuedBytes = 2
    ConsumerBytes = 1
    DefaultPageBytes = 1
    MaxFaults = 1
CHECK_DEADLOCK FALSE
INVARIANTS
    NothingLostOrRepeated
    SourceNotForgotten
    NobodySleepsOnData
    EndAfterAllPages
PROPERTIES
    AllConsumersFinish
