CONSTANTS
    Tasks = {t1, t2}
    Adders = {w1, w2}
    t1 = t1
    t2 = t2
    w1 = w1
    w2 = w2
SPECIFICATION WalkSpec
INVARIANT DepsAcyclic
CHECK_DEADLOCK FALSE
