SPECIFICATION HttpSpec
CONSTANTS
    Conns = {c1}
    Requests = {q1, q2}
    Chans <- MCChans
    MaxStarts = 2
    Ids = {i1}
    Tokens = {t1, t2}
    None = None
    CheckBroken = CheckBroken
    ConcurrentLimit = 1
    Width = 7
    IdleTimeoutOn = FALSE
    ReconcileTicks = 1
SYMMETRY Symmetry
INVARIANTS HttpTypeOK HttpSlotCoverage PollEndsMatch
PROPERTY HttpImplementsLimit
