\* Two replicas and two clients, one failed call and one crash.
CONSTANTS
    Folder <- Folders
    Bytes <- Lengths
    Void = 0
    Up = 99
    User <- Users
    Fold <- Folded
    Anyone = Anyone
    Public = Public
    NoUser = NoUser
    Health <- HealthPath
    Favicon <- FaviconPath
    ROMethods <- Reads
    RWMethods <- Writes
    Process = {1, 2}
    Seed <- Seeds
    MaxFaults = 1
    MaxCrashes = 1
    Frontend = {1}
    Client = {"a", "b"}
    Request <- Requests
    BasicUsers = {1}
    Directory = {1, 2}
    Config <- Configs
SPECIFICATION FairSpec
INVARIANTS TypeOK Authorized NoFalseChallenge HalfInit FoldersReady
PROPERTY EveryProcessStarts
CHECK_DEADLOCK FALSE
