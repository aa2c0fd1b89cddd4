\* The root of a bucket without a prefix.
CONSTANTS
    Name <- Names
    Prefix <- NoPrefix
    Backend <- Backends
    Request <- RootRequest
    Seed <- RootSeeds
    Touched <- NoOthers
    MaxChanges = 0
    MaxFaults = 0
    PageSize = 2
SPECIFICATION Spec
INVARIANT NothingOverlooked
