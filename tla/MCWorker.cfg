CONSTANTS
    CommandCapacity = 2
    ChannelCapacity = 2
    ByteCapacity = 1
    Size = {1}
    Kind = {"connect", "disconnect", "exec"}
    Retries = {0, 1}
    Timeouts = TRUE
    MaxPermits = 3
    MaxCancels = 1
    MaxBytes = 1
SPECIFICATION Spec
CHECK_DEADLOCK FALSE
INVARIANTS
    TypeOK
    AccountsExact
    NoOrphanedReply
    InReservationOrder
