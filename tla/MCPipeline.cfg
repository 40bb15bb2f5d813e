CONSTANTS
    Total = 7
    Prefix = 1
    Layout <- MCLayout
    PoolSize = {1, 2}
SPECIFICATION FairSpec
CHECK_DEADLOCK FALSE
INVARIANTS
    ReadersBelowWriter
PROPERTIES
    ReceivesLikeWholeFrame
    Returns
