\* A GET of any path on each backend, with two writes or deletions by others
\* and a failed call anywhere.
CONSTANTS
    Name <- Names
    Prefix <- Team
    Backend <- Backends
    Request <- Requests
    Seed <- Seeds
    Touched <- Others
    MaxChanges = 2
    MaxFaults = 1
    PageSize = 2
SPECIFICATION Spec
INVARIANTS TypeOK NoPhantom NothingOverlooked NamesOnce SteadyAnswer
