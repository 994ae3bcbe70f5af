\* Three arrays of two or four elements, three calls.  A parameter is two units
\* of nine, so that a kernel of four buffers does not fit; trees are counted
\* from height 1 on and evaluated above it; a fourth buffer is memory pressure.
CONSTANTS
    Handles = {1, 2, 3}
    NodeIds = {1, 2, 3, 4, 5, 6, 7}
    BufIds = {1, 2, 3, 4, 5, 6, 7, 8}
    AF_MAX_DIMS = 2
    M = 2
    Shapes <- RowColumnSquare
    Seqs <- AllSeqs
    ShiftAmounts <- BothWays
    MaxJitSize = 1
    HeightCheckLimit = 2
    ParamBytes = 2
    PointerBytes = 2
    UintBytes = 0
    ScalarBytes = 1
    PaddingBytes = 0
    KernelLimit = 9
    MaxBytes = 60
    MaxBuffers = 3
    MaxCalls = 3
    ShareRowShifts = FALSE
\* The client stops after MaxCalls calls.
CHECK_DEADLOCK FALSE
SPECIFICATION Spec
INVARIANTS TypeOK ValueSemantics  RetriesEvaluate
