\* Two pages over one shape, or one page and the agent.
SPECIFICATION FairSpec
CONSTANTS
    Agent = Agent
    Pages = {page1, page2}
    Casts = {{page1, page2}, {page1, Agent}}
    Shapes = {shape1}
    Notes = {note1, note2}
    Misfits = {note2}
    MaxTries = 2
    MaxEdits = 3
    MaxOpens = 2
    MaxCalls = 2
    MaxFaults = 1
INVARIANTS
    TypeOK
    Converged
    LastChangeLogged
    OrderKept
    NoEcho
    NoOrphans
PROPERTIES
    ComesToRest
CHECK_DEADLOCK FALSE
