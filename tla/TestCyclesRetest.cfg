SPECIFICATION CyclesSpec
CONSTANTS
    Cases = {k1, k2}
    Cycles = {1, 2}
    Recorded = {"pass", "fail", "blocked"}
    StepOutcomes = {}
    MaxExecutions = 4
    MaxSteps = 0
    CycleThreads = {t1}
INVARIANT RetestsCount
CHECK_DEADLOCK FALSE
