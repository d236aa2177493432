\* Two pages that define, append and synchronise against a server that knows one type.
SPECIFICATION Spec
CONSTANTS
    Clients = {page1, page2}
    Session = {}
    Browser = {}
    Room = {}
    Bare = {page1, page2}
    Types = {shape, note}
    Schemas = {ast}
    Any = Any
    Absent = Absent
    Boot = {shape}
    BootSchema = ast
    Modes = {"open"}
    None = None
    NoToken = NoToken
    Batches = {1}
    MaxCalls = 1
    MaxSyncs = 2
    MaxRestarts = 1
INVARIANTS
    GateDecides
    SyncedTypesKnown
PROPERTIES
    PushKeeps
CHECK_DEADLOCK FALSE
