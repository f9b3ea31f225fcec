SPECIFICATION MCSpec
CONSTANTS
    Windows = {w1, w2}
    MaxExceptions = 1
    MaxImplementations = 2
    ChangeThreads = {t1, t2}
    Stages = {1, 2}
    MaxSubmissions = 2
    ApprovalThreads = {t1, t2}
    BornCounts = {0, 2}
    MaxHistory = 8
    DefectThreads = {t1, t2}
    Rows = {c1, c2}
    Others = {o1, o2}
    MaxVersions = 3
    VersionThreads = {t1, t2}
    Cases = {k1}
    Cycles = {1, 2}
    Recorded = {"not_run", "pass", "fail"}
    StepOutcomes = {"not_run", "pass", "fail"}
    MaxExecutions = 4
    MaxSteps = 2
    CycleThreads = {t1, t2}
    Systems = {"QAS", "PRD"}
    SetStatuses = {"locked"}
    MaxImports = 2
    TransportThreads = {t1, t2}
    Synchronised = {r1}
    FailureThreshold = 2
    FailureWindow = 2
    OpenDuration = 1
    MaxClock = 2
    MaxTokens = 2
    AlmThreads = {t1, t2}
SYMMETRY Symmetry
INVARIANTS StatusExplained ApprovalCoherent DefectAudited VersionsAgree
    ExecutionsExplained AuditTrail
    AlmSpared SyncTruthful
PROPERTIES StepsJustified
\* A behaviour ends when two requests have overlapped and are through.
CHECK_DEADLOCK FALSE
