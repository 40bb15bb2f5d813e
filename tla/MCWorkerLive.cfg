CONSTANTS
    CommandCapacity = 2
    ChannelCapacity = 2
    ByteCapacity = 1
    Size = {1}
    Kind = {"connect", "disconnect", "exec"}
    Retries = {0, 1}
    Timeouts = TRUE
    MaxPermits = 2
    MaxCancels = 1
    MaxBytes = 1
SPECIFICATION FairSpec
CHECK_DEADLOCK FALSE
PROPERTIES
    RepliesSettle
    CapacityReturns
    WorkerStops
