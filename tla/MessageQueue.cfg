SPECIFICATION FairSpec
CONSTANTS
    Ids = {i1}
    Conns = {c1, c2}
    Senders = {s1, s2}
    Expirer = Expirer
    Evictor = Evictor
    None = None
    MaxMessages = 2
    MaxErrors = 1
INVARIANTS QueueTypeOK NothingLost
PROPERTIES QueueDrains
