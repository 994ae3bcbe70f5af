\* Three threads, one device that holds two small buffers, three addresses.
CONSTANTS
    Threads = {t1, t2, t3}
    Devices = {0}
    Ptrs = {p1, p2, p3}
    NoPtr = NoPtr
    Requests <- TwoSizes
    StepSizes <- TwoSteps
    MaxBuffers = 2
    MaxBytes <- OneBuffer
    Capacity <- TwoBuffers
    DebugMode = FALSE
    ForeignBytes = 100
    W = 65536
    UserMemory = FALSE
    ForeignLocks = FALSE
    StrayFrees = FALSE
    AdoptManaged = FALSE
    FreeMayFail = FALSE
SYMMETRY Symmetry
SPECIFICATION Spec
INVARIANTS NoUseAfterFree NoAliasing OneOwner LocksAreHeld BufferCounters ByteCounters
PROPERTIES AllocPromise OutOfMemoryIsReal ImplementsBufferPool
