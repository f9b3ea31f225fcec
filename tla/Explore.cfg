SPECIFICATION MCSpec
CONSTANTS
    Reqs = {r1}
    OpenItems = {i1, i2}
    Items = {j1, j2}
    EditedDelivery = {"mapped"}
    ReqThreads = {t1, t2}
    FsIds = {i1, i2}
    TsIds = {j1, j2}
    Tests = {u1}
    PutStatuses = {"build"}
    FlowThreads = {t1, t2}
SYMMETRY Symmetry
INVARIANTS ConversionAgrees GatesHold BacklogCoherent
PROPERTIES UnblockedIsApprovable TerminalStays
\* A behaviour ends when two requests have overlapped and are through.
CHECK_DEADLOCK FALSE
