CONSTANTS
    Thread = {t1, t2, t3}
    NoThread = NoThread
    Clients <- MCLaterClients
    Retries = 0
    MaxCalls = 3
SPECIFICATION Spec
CHECK_DEADLOCK FALSE
PROPERTIES
    LaterCallUsable
