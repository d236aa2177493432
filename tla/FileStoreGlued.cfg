\* The process is killed between the body and the newline of a line, and restarts.
SPECIFICATION FairSpec
CONSTANTS
    Procs = {p1}
    Writers = {p1}
    Fibers = {f1}
    Faults = {"kill"}
    StaticBoot = TRUE
    MaxId = 2
    MaxBatch = 1
    MaxFile = 6
    MaxCalls = 2
    MaxFaults = 1
INVARIANTS
    AckedIsRecovered
CHECK_DEADLOCK FALSE
