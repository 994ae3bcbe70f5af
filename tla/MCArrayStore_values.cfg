\* Two handles, arrays of two elements; the client waits after two kernels.
CONSTANTS
    Handles = {h1, h2}
    Tmp = tmp
    Bufs = {b1, b2, b3, b4}
    NoBuf = NoBuf
    M = 2
    Size = 2
    HostData <- OneVector
    ScalarData = {1}
    Masks = {{0}}
    MaxHeight = 1
    SyncEvery = 2
    Pressures = {FALSE, TRUE}
    CallBufs = 2
    DeviceWrites = FALSE
    CAssigns = FALSE
SYMMETRY Symmetry
VIEW View
SPECIFICATION Spec
INVARIANTS TypeOK ValueSemantics ReadsAreCurrent 
 
