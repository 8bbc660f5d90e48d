CONSTANTS
    Magic = 2
    PayloadBytes = {1, 2}
    kMaxFrameSize = 2
    MaxFrames = 3
SPECIFICATION Spec
INVARIANTS
    TypeOK
    FramesInOrder
PROPERTIES
    EveryFrameHandled
CHECK_DEADLOCK FALSE
