\* Two threads that want two kernels; their process may die and start again.
CONSTANTS
    p1 = p1  t1 = t1  t2 = t2
    Threads = {t1, t2}
    Procs = {p1}
    Proc <- OneProcess
    Keys = {k1, k2}
    NoKey = NoKey
    Mods = {m1, m2, m3}
    NoMod = NoMod
    Inodes = {i1, i2, i3, i4, i5, i6}
    NoIno = NoIno
    TempName <- OwnNames
    UseDisk = TRUE
    OpenFails = FALSE
    MaxCrashes = 1
SYMMETRY Symmetry
VIEW View
SPECIFICATION Spec
INVARIANTS TypeOK KernelsStayLoaded OneModulePerKey  RightCode
