\* A room page synchronises with the empty registry of rxweave serve, and appends.
SPECIFICATION Spec
CONSTANTS
    Clients = {page1}
    Session = {}
    Browser = {}
    Room = {page1}
    Bare = {}
    Types = {shape}
    Schemas = {ast}
    Any = Any
    Absent = Absent
    Boot = {}
    BootSchema = ast
    Modes = {"fixed"}
    None = None
    NoToken = NoToken
    Batches = {1}
    MaxCalls = 1
    MaxSyncs = 1
    MaxRestarts = 0
INVARIANTS
    SyncOpensGate
CHECK_DEADLOCK FALSE
