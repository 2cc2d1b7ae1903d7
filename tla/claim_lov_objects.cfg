SPECIFICATION Spec
CONSTANTS
    m = m
    o1 = o1
    o2 = o2
    Mds = m
    Osts = {o1, o2}
    AllOsts = {o1, o2}
    TotalInodes <- MCSideInodes
    Disks <- ElsewhereImages
    FSeqs <- MCFSeqs
    FOids <- MCFOids
    FVers <- MCFVers
    OiIds <- MCOiIds
    OidLimit <- MCOidLimit
    MaxRuns = 1
    MaxLost = 0
    Null = Null
    mds_total_inodes = 3
    Sequential = TRUE
INVARIANT LovEdgesAreObjects
CHECK_DEADLOCK FALSE
