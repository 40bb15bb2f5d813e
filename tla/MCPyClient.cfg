CONSTANTS
    Thread = {t1, t2, t3}
    NoThread = NoThread
    Clients <- MCClients
    Retries = 1
    MaxCalls = 3
SPECIFICATION FairSpec
CHECK_DEADLOCK FALSE
INVARIANTS
    NothingOutlivesDisconnect
PROPERTIES
    CancelUnblocks
    CancelEndsBackoff
    CallsReturn
