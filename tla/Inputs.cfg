CONSTANTS
    Illegal = {"~"}
    Lengthened <- LongerNames
    Components = {"", ".", "..", "~", "x", "y"}
    MaxParts = 5
    OffTLimit = 16
    MaxFrame = 10
    FrameSlack = 4
    ChunkHeader = 2
    MaxSize = 11
SPECIFICATION Spec
INVARIANTS
    NormalizeIsLexical
    ResolvedInside
    ChunksInRange
PROPERTIES
    GetIsWhole
CHECK_DEADLOCK FALSE
