\* An upload into a folder that is being moved.
CONSTANTS
    c1 = c1
    c2 = c2
    c3 = c3
    s1 = s1
    s2 = s2
    Client = {c1, c2}
    Server = {s1}
    Name <- Names
    Prefix <- Team
    Decoded <- Plain
    Request <- NestedRequests
    Seed <- TreeSeed
    MaxRequests = 2
    MaxFaults = 0
    MaxCrashes = 0
    PageSize = 2
    BatchLimit = 4
    MaxKeyLen = 6
SYMMETRY Symmetry
SPECIFICATION Spec
PROPERTY ContentKept
