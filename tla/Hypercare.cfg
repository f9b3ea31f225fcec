SPECIFICATION MCSpec
CONSTANTS
    Signers = {t1, t2}
    MaxId = 4
    Standard = {"sla"}
    Custom = {"extra"}
    Copies = {1, 2}
    Values <- MCValues
    ExitThreads = {t1, t2}
    MaxEdits = 1
    Offered <- MCOffered
    Levels = {"L1", "L2"}
    Rules <- MCRules
    Targets <- MCTargets
    Updates <- MCUpdates
    DeskThreads = {t1, t2}
    MaxMinutes = 3
    MaxEvents = 2
    MaxTouched = 1
SYMMETRY Symmetry
INVARIANTS ClosedWasReady CriteriaTruthful SlaVerdicts IncidentCoherent
PROPERTIES ImplementsApproval ManualStatusStays
\* A behaviour ends when the ids or the clock reach their bounds.
CHECK_DEADLOCK FALSE
