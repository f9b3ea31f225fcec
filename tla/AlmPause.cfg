CONSTANTS
    Synchronised = {r1}
    FailureThreshold = 3
    FailureWindow = 4
    OpenDuration = 2
    MaxClock = 3
    MaxTokens = 1
    AlmThreads = {t1}
SPECIFICATION AlmSpec
PROPERTY PauseEnds
CHECK_DEADLOCK FALSE
