\* A failed HEAD is taken for a missing object by the checks of an MKCOL.
CONSTANTS
    c1 = c1
    c2 = c2
    c3 = c3
    s1 = s1
    s2 = s2
    Client = {c1, c2}
    Server = {s1}
    Name <- Names
    Prefix <- Team
    Decoded <- Plain
    Request <- FlatRequests
    Seed <- TreeSeed
    MaxRequests = 2
    MaxFaults = 1
    MaxCrashes = 0
    PageSize = 2
    BatchLimit = 4
    MaxKeyLen = 6
SYMMETRY Symmetry
SPECIFICATION Spec
PROPERTY MkdirChecked
