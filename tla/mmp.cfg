SPECIFICATION Spec
CONSTANTS
    h1 = h1
    h2 = h2
    r1 = r1
    r2 = r2
    r3 = r3
    Hosts = {h1, h2}
    Random = {r1, r2, r3}
    Update = 1
    MinCheck = 1
    MaxCheck = 2
    Slack = 2
    MaxSeq = 4
    Clean = Clean
    Fsck = Fsck
    Alone = TRUE
    Faults = FALSE
SYMMETRY Perms
INVARIANTS
    TypeOK
    MountedOnce
    CleanIsFree
PROPERTIES
    CountsItsOwn
