\* Two uploads of two chunks and a download on each backend, with two
\* failed calls.  The system stops when all requests are answered.
CONSTANTS
    Backend <- Backends
    Put = {1, 2}
    Get = {3}
    Size = 2
    MaxFaults = 2
    Old = 0
SPECIFICATION FairSpec
INVARIANTS TypeOK TimeOfContent
PROPERTIES ImplementsFile EveryPutEnds
CHECK_DEADLOCK FALSE
