CONSTANTS
    Bits = 3
    Hash <- MCHash
    Header = 1
    Prefix = 1
    MinLength = 18
    MaxRatio = 4
    Bodies <- MCBodies
    Payloads <- MCPayloads
    Lengths = {1, 2, 3, 5, 8, 9}
SPECIFICATION Spec
CHECK_DEADLOCK FALSE
INVARIANTS
    ScratchSuffices
    RoundTrip
    DictionaryPointsBack
    BoundsAreNecessary
