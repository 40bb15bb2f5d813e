CONSTANTS
    Canceller = {c1}
    Kind = {"connect", "execute", "async", "receive"}
    Limit = {1}
    IdModulus = 2
    Timeouts = {TRUE, FALSE}
    MaxOps = 2
    MaxSockets = 2
    MaxNotes = 3
    MaxAborts = 1
SPECIFICATION FairSpec
CHECK_DEADLOCK FALSE
PROPERTIES
    CancelUnblocks
    OperationsReturn
