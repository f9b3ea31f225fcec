SPECIFICATION MCSpec
CONSTANTS
    Tasks = {t1, t2, t3}
    Adders = {w1, w2}
    Durations = {2, 3}
    None = None
    Rehearsals = {r1, r2}
    SeedItems = {i1}
    Items = {i1}
    MaxTime = 2
INVARIANTS DepsHaveTasks CycleVerdict TopoIsOrder PathIsLongest
    FirstExecutionTimes ExecutesRehearsed
PROPERTIES AllAnswered
\* A behaviour ends when every request is answered or the clock is at its bound.
CHECK_DEADLOCK FALSE
