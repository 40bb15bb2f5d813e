CONSTANTS
    Lists <- MCLists
SPECIFICATION Spec
CHECK_DEADLOCK FALSE
INVARIANTS
    SameAsOneShot
    ScanStaysInside
