\* Pages of two, and a budget of retries that runs out within the faults.
SPECIFICATION FairSpec
CONSTANTS
    Earliest = Earliest
    Latest = Latest
    PageSize = 2
    MaxRetries = 2
    MaxLog = 5
    MaxFaults = 4
INVARIANTS
    TypeOK
    NothingLost
    NothingTwice
PROPERTIES
    CatchesUp
CHECK_DEADLOCK FALSE
