SPECIFICATION Spec
CONSTANTS
    m = m
    o1 = o1
    o2 = o2
    Mds = m
    Osts = {o1}
    AllOsts = {o1, o2}
    TotalInodes <- MCRerunInodes
    Disks <- MCRerunImages
    FSeqs <- MCFSeqs
    FOids <- MCFOids
    FVers <- MCFVers
    OiIds <- MCOiIds
    OidLimit <- MCOidLimit
    MaxRuns = 2
    MaxLost = 1
    Null = Null
    mds_total_inodes = 3
    Sequential = TRUE
INVARIANTS
    ParentEdgesSound
    ParentsComplete
    ObjectsComplete
PROPERTIES
    ParentsRefine
    WrittenOnce
CHECK_DEADLOCK FALSE
