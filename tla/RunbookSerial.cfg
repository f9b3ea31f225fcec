CONSTANTS
    Tasks = {t1, t2, t3}
    Workers = {w1}
    Adders = {w1}
    MaxTime = 2
    t1 = t1
    t2 = t2
    t3 = t3
    w1 = w1
SPECIFICATION MCSpec
SYMMETRY Symmetry
INVARIANTS
    NeverStuck
    BlockedIsRefused
    EndsAfterStart
    RefusalJustified
PROPERTIES
    StartsAfterPredecessors
    ImplementsDag
CHECK_DEADLOCK FALSE
