CONSTANTS
    Clients = {c1, c2}
    PoolSize = 4
    MaxOutages = 2
SPECIFICATION Spec
INVARIANTS
    TypeOK
    BlocksOnlyIfDrained
PROPERTIES
    HandlesReturn
    AnsweredUnlessDrained
CHECK_DEADLOCK FALSE
