CONSTANTS
    Users = {u1}
    Paths <- StepPaths
    FilePaths <- StepFiles
    DirPaths <- StepDirs
    RenamePairs <- StepRenames
    LikeMatch <- StepLike
    MayFail <- Ignored
    Md5 = {m1, m2}
    NoMd5 = NoMd5
    MaxFaults = 2
SPECIFICATION Spec
INVARIANTS
    TypeOK
    UndisturbedReadable
PROPERTIES
    AtomicEffect
SYMMETRY Symmetry
