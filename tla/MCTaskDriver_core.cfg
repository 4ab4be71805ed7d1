SPECIFICATION FairSpec
CONSTANTS
    Threads = {t1, t2}
    NumDrivers = 2
    OutputDrivers = {2}
    HasPartitionedOutput = FALSE
    CpuSlice = FALSE
    Yields = FALSE
    ReclaimTimeout = TRUE
    MaxArmed = 1
    None = None
INVARIANTS
    ReclaimExclusive
    AbortExclusive
    NoLostDriver
    DriverAccounting
    SingleCloser
PROPERTIES
    ImplementsContract
    TerminationCompletes
    ReclaimReturnsEventually
