CONSTANTS
    u1 = u1
    u2 = u2
    s1 = s1
    s2 = s2
    Users = {u1}
    Sessions = {s1, s2}
    UserOf <- SharedAccount
    Paths <- TreePaths
    FilePaths <- TreeFiles
    DirPaths <- TreeDirs
    RenamePairs <- TreeRenames
    Overwrites <- OnlyFALSE
    LikeMatch <- TreeLike
    Md5 = {m1, m2}
    NoMd5 = NoMd5
SPECIFICATION Spec
INVARIANTS
    TypeOK
    NoOrphanObjects
    IndexedFilesReadable
    LsShowsChildren
PROPERTIES
    RefinesUserFiles
    OnlyMovesStrand
    OnlyTheseLose
SYMMETRY SharedSymmetry
