SPECIFICATION Spec
CONSTANTS
    m = m
    o1 = o1
    o2 = o2
    Mds = m
    Osts = {o1}
    AllOsts = {o1, o2}
    TotalInodes <- MCInodes
    Disks <- PlainImages
    FSeqs <- MCFSeqs
    FOids <- MCFOids
    FVers <- MCFVers
    OiIds <- MCOiIds
    OidLimit <- MCOidLimit
    MaxRuns = 1
    MaxLost = 0
    Null = Null
    mds_total_inodes = 3
    Sequential = FALSE
INVARIANT LovParentCreated
CHECK_DEADLOCK FALSE
