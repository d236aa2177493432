\* One appending process with two fibers, one that only reads.  A store with nothing
\* new in its file and no append under way rests.
SPECIFICATION FairSpec
CONSTANTS
    Procs = {w, r}
    Writers = {w}
    Fibers = {f1, f2}
    Faults = {"kill", "crash", "write"}
    StaticBoot = TRUE
    MaxId = 2
    MaxBatch = 2
    MaxFile = 6
    MaxCalls = 2
    MaxFaults = 2
INVARIANTS
    TypeOK
    MirrorsFile
    AckedOnDisk
PROPERTIES
    MirrorCatchesUp
CHECK_DEADLOCK FALSE
