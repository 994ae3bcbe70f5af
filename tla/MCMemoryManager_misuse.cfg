\* Every call a program can make, sensible or not, and failing frees, on a
\* small size_t that wraps.
CONSTANTS
    Threads = {t1}
    Devices = {0}
    Ptrs = {p1, p2}
    NoPtr = NoPtr
    Requests <- TinySize
    StepSizes <- TinyStep
    MaxBuffers = 2
    MaxBytes <- TinyThreshold
    Capacity <- TinyCapacity
    DebugMode = FALSE
    ForeignBytes = 1
    W = 4
    UserMemory = TRUE
    ForeignLocks = TRUE
    StrayFrees = TRUE
    AdoptManaged = TRUE
    FreeMayFail = TRUE
SYMMETRY PtrSymmetry
SPECIFICATION Spec
INVARIANTS TypeOK
