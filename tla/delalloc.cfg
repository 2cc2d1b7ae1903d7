SPECIFICATION Spec
CONSTANTS
    t1 = t1
    t2 = t2
    flusher = flusher
    Threads = {t1, t2}
    Flushers = {flusher}
    Last = 1
    Zeroout = TRUE
    MaxCalls = 3
INVARIANTS
    TypeOK
    ReservedEnough
    CacheIsTrue
PROPERTIES
    FileKept
    DirtyGoesOut
CHECK_DEADLOCK FALSE
