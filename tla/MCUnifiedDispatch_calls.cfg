\* Every set of libraries found at start-up; one thread, two CUDA devices.
SPECIFICATION Spec
CONSTANTS
    Threads = {t1}
    Arrays = {a1}
    Installed <- EverySet
    Provides <- SameVersion
    NumDevices <- Devices
    MaxErrors = 4
    ReleaseAtHome = TRUE
    ErrorsRead = TRUE
INVARIANTS TypeOK DispatchesToActive FreedOnItsDevice ArraysStayHome LastErrorReported 
CHECK_DEADLOCK FALSE
