SPECIFICATION MCSpec
CONSTANTS
    L3s = {a, b}
    L4s = {x, y}
    Parent <- MCParent
    Workshops = {w1, w2}
    Decisions = {"gap"}
    MaxByHand = 2
    FitThreads = {t1}
PROPERTY InterimStaysBelow
CHECK_DEADLOCK FALSE
