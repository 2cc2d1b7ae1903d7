SPECIFICATION Spec
CONSTANTS
    Threads = {t1, t2, t3}
    t1 = t1
    t2 = t2
    t3 = t3
    Depth = 1
    Keys = {k1}
    k1 = k1
    TreeModes = {"EX", "CW"}
    EventDeps = {0}
    None = None
INVARIANTS
    TypeOK
    TreeLockSound
    KeyRings
PROPERTIES
    NoOvertaking
    TreeWaitEnds
    KeysImplement
