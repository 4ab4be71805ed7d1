SPECIFICATION Spec
CONSTANTS
    Threads = {t1, t2}
    NumDrivers = 2
    OutputDrivers = {2}
    HasPartitionedOutput = TRUE
    CpuSlice = FALSE
    Yields = TRUE
    ReclaimTimeout = FALSE
    MaxArmed = 1
    None = None
SYMMETRY SymThreads
INVARIANTS
    YieldEnqueueCheck
