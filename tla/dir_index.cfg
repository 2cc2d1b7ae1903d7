SPECIFICATION Spec
CONSTANTS
    Threads = {t1, t2}
    t1 = t1
    t2 = t2
    Names = {n1, n2, n3, n4, n5, n6}
    n1 = n1
    n2 = n2
    n3 = n3
    n4 = n4
    n5 = n5
    n6 = n6
    Hash <- MCHash
    Capacity = 2
    Limit = 3
    Leaves = {1, 2, 3, 4}
    Starts <- MCStarts
    Calls <- MCCalls
    None = None
INVARIANTS
    TypeOK
    IndexFindsNames
    LeafIsRight
    AtIsRight
PROPERTIES
    DirectoryKept
    OperationsEnd
CHECK_DEADLOCK FALSE
