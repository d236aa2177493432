\* Two processes append to one file; nothing fails.
SPECIFICATION FairSpec
CONSTANTS
    Procs = {p1, p2}
    Writers = {p1, p2}
    Fibers = {f1}
    Faults = {}
    StaticBoot = TRUE
    MaxId = 2
    MaxBatch = 1
    MaxFile = 6
    MaxCalls = 2
    MaxFaults = 0
PROPERTIES
    EveryoneCatchesUp
CHECK_DEADLOCK FALSE
