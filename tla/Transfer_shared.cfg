CONSTANTS
    u1 = u1
    u2 = u2
    s1 = s1
    s2 = s2
    Users = {u1, u2}
    Sessions = {s1, s2}
    UserOf <- OneSessionEach
    Paths <- FlatPaths
    FilePaths <- FlatFiles
    DirPaths <- RootOnly
    RenamePairs <- FlatRenames
    Overwrites <- BothFlags
    LikeMatch <- FlatLike
    Md5 = {m1, m2}
    NoMd5 = NoMd5
SPECIFICATION Spec
INVARIANTS
    RefsCoverIndex
PROPERTIES
    OthersUntouched
    RefsStayExact
SYMMETRY Symmetry
