SPECIFICATION Spec
CONSTANTS
    MAX_VALUE_DEPTH = 4
    MaxArgs = 2
    MaxBuilt = 2
    Calls <- MCCalls
    Bodies <- MCBodies
INVARIANTS
    SnapshotPaid
    SizedExactly
    RoundTrip
    ColumnsAsDocumented
    NoPartialValue
    TextsAreUtf8
    LosslessKeeps
    ReturnedIsKept
