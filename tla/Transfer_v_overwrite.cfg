CONSTANTS
    u1 = u1
    u2 = u2
    s1 = s1
    s2 = s2
    Users = {u1}
    Sessions = {s1}
    UserOf <- OneSession
    Paths <- FlatPaths
    FilePaths <- FlatFiles
    DirPaths <- RootOnly
    RenamePairs <- NoRenames
    Overwrites <- OnlyTRUE
    LikeMatch <- FlatLike
    Md5 = {m1}
    NoMd5 = NoMd5
SPECIFICATION Spec
INVARIANTS
    IndexedFilesReadable
