\* A cookie page and one with a token provider; a restart may change how the server is started.
SPECIFICATION FairSpec
CONSTANTS
    Clients = {cookie, provider}
    Session = {cookie}
    Browser = {provider}
    Room = {}
    Bare = {}
    Types = {}
    Schemas = {ast}
    Any = Any
    Absent = Absent
    Boot = {}
    BootSchema = ast
    Modes = {"generated", "open"}
    None = None
    NoToken = NoToken
    Batches = {0, 2}
    MaxCalls = 2
    MaxSyncs = 0
    MaxRestarts = 1
INVARIANTS
    TypeOK
    AppendedOnce
    AuthFailedExplained
    RefusedTokenDropped
    LatestCursorOwn
PROPERTIES
    EveryCallEnds
CHECK_DEADLOCK FALSE
