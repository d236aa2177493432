\* Any start; it fails from "latest".
SPECIFICATION Spec
CONSTANTS
    Earliest = Earliest
    Latest = Latest
    PageSize = 2
    MaxRetries = 2
    MaxLog = 3
    MaxFaults = 4
INVARIANTS
    NoLossOnReconnect
CHECK_DEADLOCK FALSE
