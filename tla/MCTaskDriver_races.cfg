SPECIFICATION Spec
CONSTANTS
    Threads = {t1, t2, t3}
    NumDrivers = 1
    OutputDrivers = {1}
    HasPartitionedOutput = TRUE
    CpuSlice = TRUE
    Yields = TRUE
    ReclaimTimeout = TRUE
    MaxArmed = 2
    None = None
SYMMETRY SymThreads
INVARIANTS
    SingleCloser
    FinishedWhenDone
