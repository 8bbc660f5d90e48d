CONSTANTS
    MaxRequests = 14
    MaxChunks = 2
    MaxWriteErrors = 2
SPECIFICATION Spec
INVARIANTS
    ReplyIsOwn
    FalseSuccessSendsNothing
PROPERTIES
    EveryRequestReturns
CHECK_DEADLOCK FALSE
