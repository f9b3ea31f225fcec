SPECIFICATION MCSpec
CONSTANTS
    L3s = {a, b}
    L4s = {x, y}
    Parent <- MCParent
    Workshops = {w1, w2}
    Decisions = {"gap"}
    MaxByHand = 2
    FitThreads = {t1, t2}
SYMMETRY Symmetry
INVARIANTS  ReadinessCurrent
PROPERTIES OverrideStands ConfirmedWasDecided
\* A behaviour ends when two requests have overlapped and are through.
CHECK_DEADLOCK FALSE
