\* Two threads that change between two devices; arrays around user memory.
\* No symmetry: CallsReturn is a liveness property.
CONSTANTS
    Threads = {t1, t2}
    Devices = {0, 1}
    Ptrs = {p1, p2}
    NoPtr = NoPtr
    Requests <- OneSize
    StepSizes <- OneStep
    MaxBuffers = 2
    MaxBytes <- OneBuffer
    Capacity <- TwoBuffers
    DebugMode = FALSE
    ForeignBytes = 100
    W = 65536
    UserMemory = TRUE
    ForeignLocks = FALSE
    StrayFrees = FALSE
    AdoptManaged = FALSE
    FreeMayFail = FALSE
SPECIFICATION FairSpec
INVARIANTS NoUseAfterFree OneOwner
PROPERTIES CallsReturn
