\* Agent a emits for every external event, agent b consumes what a emits; both replay
\* from the start.  Up to three faults strike, anywhere.  When all is handled and
\* flushed the system waits.
SPECIFICATION FairSpec
CONSTANTS
    a = a
    b = b
    Agents = {a, b}
    Emitters = {a}
    On <- MCOn
    Kinds <- AnyKind
    First <- FromEarliest
    External = ext
    Out = out
    Nobody = nobody
    Timer = timer
    Earliest = earliest
    Latest = latest
    Empty = empty
    FlushEvents = 2
    Faults = {"handler", "append", "beat", "kill"}
    MaxArrivals <- Arrivals
    MaxFaults <- Strokes
INVARIANTS
    TypeOK
    NothingSkipped
    CursorMeansDone
    EmittedOnce
    StateReplays
    PersistedIsCurrent
PROPERTIES
    CatchesUp
    HeartbeatCatchesUp
CHECK_DEADLOCK FALSE
