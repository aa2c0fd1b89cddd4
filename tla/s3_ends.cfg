\* Every request comes to an end, listings of one key a page included.
CONSTANTS
    c1 = c1
    c2 = c2
    c3 = c3
    s1 = s1
    s2 = s2
    Client = {c1, c2}
    Server = {s1}
    Name <- Names
    Prefix <- Team
    Decoded <- Plain
    Request <- SelfRequests
    Seed <- TreeSeed
    MaxRequests = 2
    MaxFaults = 1
    MaxCrashes = 1
    PageSize = 1
    BatchLimit = 2
    MaxKeyLen = 6
SPECIFICATION FairSpec
PROPERTY EveryRequestEnds
