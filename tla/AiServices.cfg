SPECIFICATION MCSpec
CONSTANTS
    Suggestions = {s1}
    Reviewers = {t1, t2}
    Tasks = {k1}
    Hosts = {p1, p2}
    Callers = {t1, t2}
    Workers = {p1}
    Ttl = 2
    Period = 3
    TokenLimit = 1
    MaxAttempts = 2
    MaxTime = 3
    MaxSpent = 2
INVARIANTS SpendingCoherent
PROPERTIES VerdictsStand EverythingEnds
\* The queue ends when every suggestion is decided and applied.
CHECK_DEADLOCK FALSE
