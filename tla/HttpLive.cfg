SPECIFICATION HttpFairSpec
CONSTANTS
    Conns = {c1}
    Requests = {q1}
    Chans <- MCChans
    MaxStarts = 2
    Ids = {i1}
    Tokens = {t1}
    None = None
    CheckBroken = CheckBroken
    ConcurrentLimit = 1
    Width = 7
    IdleTimeoutOn = FALSE
    ReconcileTicks = 1
PROPERTIES LateIsEvicted HttpDriftIsHealed DroppedStreamIsRemoved RemovedStreamEnds
