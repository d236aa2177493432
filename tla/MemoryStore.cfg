\* One subscriber, a PubSub of two, a clock that may stand still or jump.
SPECIFICATION FairSpec
CONSTANTS
    Kind = {k1, k2}
    Earliest = Earliest
    Latest = Latest
    Subs = {s1}
    Clock = {0, 2}
    Capacity = 2
    MaxBatch = 2
    MaxEvents = 4
    MaxCursor = 5
INVARIANTS
    TypeOK
    DeliveredInOrder
    NoGapBehind
    KeepingUpLosesNothing
    PagingLosesNothing
PROPERTIES
    StreamSpec
    OwedIsDelivered
