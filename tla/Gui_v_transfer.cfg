CONSTANTS
    Workers = {w1, w2}
    NoWorker = NoWorker
SPECIFICATION Spec
PROPERTIES
    MutexFreed
CHECK_DEADLOCK FALSE
