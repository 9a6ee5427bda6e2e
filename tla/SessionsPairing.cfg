SPECIFICATION Spec
CONSTANTS
    Conns = {c1, c2}
    Ids = {i1}
    Tokens = {t1}
    None = None
    CheckBroken = CheckBroken
    ConcurrentLimit = 1
    Width = 5
    IdleTimeoutOn = FALSE
    ReconcileTicks = 8
INVARIANT ReleaseIsPaired
