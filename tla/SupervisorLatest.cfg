\* An agent that is not in the cursor file yet; its handler fails once.
SPECIFICATION FairSpec
CONSTANTS
    a = a
    b = b
    Agents = {a, b}
    Emitters = {a}
    On <- MCOn
    Kinds <- Plain
    First <- FromLatest
    External = ext
    Out = out
    Nobody = nobody
    Timer = timer
    Earliest = earliest
    Latest = latest
    Empty = empty
    FlushEvents = 2
    Faults = {"handler"}
    MaxArrivals <- Once
    MaxFaults <- Once
INVARIANT
    NothingSkipped
CHECK_DEADLOCK FALSE
