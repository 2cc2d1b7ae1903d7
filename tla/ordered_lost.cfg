SPECIFICATION Spec
CONSTANTS
    None = None
    i1 = i1
    i2 = i2
    b1 = b1
    b2 = b2
    b3 = b3
    Inodes = {i1, i2}
    Blocks = {b1, b2, b3}
    Old <- MCOld
    RootMax = 1
    MaxSize = 2
    MaxCrashes = 1
    MaxOps = 2
    Delalloc = FALSE
    Faults = FALSE
INVARIANTS
    CommittedDataOut
CHECK_DEADLOCK FALSE
