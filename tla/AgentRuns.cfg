SPECIFICATION Spec
CONSTANTS
    User = {u1}
    Request = {r1, r2}
    Digest = digest
    Kind <- MCKind
    MaxBatch = 1
    MaxStamps = 3
    MAX_EVENTS_CONSIDERED = 2
    NoUser = NoUser
SYMMETRY Requests
INVARIANTS
    TypeOK
    SlotsExact
    AtMostOneActive
    CursorWithinEvents
    SeenNotCountedAgain
    NoCircularWait
PROPERTIES
    CursorMonotone
    ImplementsFeed
CHECK_DEADLOCK FALSE
