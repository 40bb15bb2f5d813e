CONSTANTS
    Initial = 4
    Factor = 2
    MaxRetained = 10
    PipelineMin = 3
    Prefixes = {1, 2}
    MaxBody = 20
SPECIFICATION Spec
INVARIANTS
    TypeOK
    RawAccessInitialized
    IdleBufferBounded
PROPERTIES
    GrowthFollowsDelivery
