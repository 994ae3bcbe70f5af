\* Every call, the unsafe ones too; values are left out.  No symmetry and no
\* view: BuffersComeBack is a liveness property.
CONSTANTS
    Handles = {h1, h2}
    Tmp = tmp
    Bufs = {b1, b2, b3}
    NoBuf = NoBuf
    M = 1
    Size = 1
    HostData <- OneZero
    ScalarData = {0}
    Masks = {{}}
    MaxHeight = 1
    SyncEvery = 2
    Pressures = {FALSE, TRUE}
    CallBufs = 2
    DeviceWrites = TRUE
    CAssigns = TRUE
SPECIFICATION FairSpec
PROPERTIES BuffersComeBack
