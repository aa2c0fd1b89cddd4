\* Every interleaving of requests on whole paths, page by page, with a failed
\* call and a crash anywhere.
CONSTANTS
    c1 = c1
    c2 = c2
    c3 = c3
    s1 = s1
    s2 = s2
    Client = {c1, c2, c3}
    Server = {s1}
    Name <- Names
    Prefix <- Team
    Decoded <- Plain
    Request <- InsideRequests
    Seed <- S3Seeds
    MaxRequests = 3
    MaxFaults = 1
    MaxCrashes = 1
    PageSize = 1
    BatchLimit = 4
    MaxKeyLen = 6
SYMMETRY Symmetry
SPECIFICATION Spec
INVARIANTS TypeOK LockExclusion DeletesOnlyCopies
PROPERTIES ContentKept PrefixContained DeleteSound MoveSound NotFoundSound MkdirSound OverwriteSound
