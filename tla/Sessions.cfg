SPECIFICATION Spec
CONSTANTS
    Conns = {c1, c2}
    Ids = {i1, i2}
    Tokens = {t1}
    None = None
    CheckBroken = CheckBroken
    ConcurrentLimit = 1
    Width = 5
    IdleTimeoutOn = FALSE
    ReconcileTicks = 2
SYMMETRY Symmetry
INVARIANTS TypeOK SlotCoverage LimitRespected SenderHasHandler
PROPERTY ImplementsLimit
