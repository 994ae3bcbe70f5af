\* One internal device and two contexts of the program, which are added three
\* times in all; two arrays and four buffers, so that two migrations can leave
\* an address behind on a list.
CONSTANTS
    Threads = {t1, t2}
    Handles = {h1, h2}
    Buffers = {b1, b2, b3, b4}
    Internal <- OneDevice
    UserContexts <- TwoUserContexts
    None = None
    MaxFlags = 4
    Careful = TRUE
    ReusesListed = FALSE
SYMMETRY Symmetry
VIEW View
SPECIFICATION Spec
INVARIANTS   NothingLost
