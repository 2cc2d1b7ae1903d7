SPECIFICATION Spec
CONSTANTS
    None = None
    i1 = i1
    i2 = i2
    b1 = b1
    b2 = b2
    b3 = b3
    Inodes = {i1, i2}
    Blocks = {b1, b2, b3}
    Old <- MCOld
    RootMax = 1
    MaxSize = 2
    MaxCrashes = 2
    MaxOps = 3
    Delalloc = TRUE
    Faults = TRUE
INVARIANTS
    TypeOK
    Restartable
    DataSurvive
    ListsAgree
PROPERTIES
    FilesDurable
    RecoveryEnds
    DeletedFilesGo
CHECK_DEADLOCK FALSE
