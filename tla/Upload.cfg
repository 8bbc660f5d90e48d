CONSTANTS
    Conns = {c1, c2}
    Inodes = {i1, i2, i3}
    NoInode = NoInode
    N = 3
    Overwrites = {FALSE}
    MaxFaults = 3
SPECIFICATION Spec
INVARIANTS
    TypeOK
    ObjectIntact
PROPERTIES
    HolesOnlyByTruncation
    
    EveryPutEnds
CHECK_DEADLOCK FALSE
