SPECIFICATION Spec
CONSTANTS
    Threads = {t1, t2}
    NumDrivers = 2
    OutputDrivers = {2}
    HasPartitionedOutput = TRUE
    CpuSlice = TRUE
    Yields = FALSE
    ReclaimTimeout = FALSE
    MaxArmed = 1
    None = None
SYMMETRY SymThreads
INVARIANTS
    NoLostDriver
