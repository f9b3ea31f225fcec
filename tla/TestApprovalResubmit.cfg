CONSTANTS
    Stages = {1, 2}
    MaxSubmissions = 2
    ApprovalThreads = {t1, t2}
SPECIFICATION ApprovalSpec
INVARIANT ApprovedStageByStage
CHECK_DEADLOCK FALSE
