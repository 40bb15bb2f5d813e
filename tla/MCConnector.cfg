CONSTANTS
    Canceller = {c1, c2}
    Kind = {"connect", "execute", "async", "receive", "sendSync", "sendAsync"}
    Limit = {1, 2}
    IdModulus = 2
    Timeouts = {TRUE}
    MaxOps = 4
    MaxSockets = 3
    MaxNotes = 2
    MaxAborts = 2
SYMMETRY Cancellers
SPECIFICATION Spec
CHECK_DEADLOCK FALSE
INVARIANTS
    OwnReply
    ReusableWhenIdle
    LateShutdownHarmless
    NotificationsInOrder
PROPERTIES
    BufferOutlivesConnection
    AbortedOperationDisconnects
