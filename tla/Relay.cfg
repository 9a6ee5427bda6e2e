SPECIFICATION Spec
CONSTANTS
    Peers = {p1}
    Rooms = {r1}
    Senders = {s1, p1}
    None = None
    MaxSize = 2
    MaxSeq = 3
    MaxChan = 3
INVARIANT RelayTypeOK
PROPERTIES MissedIsReplayed GapIsAnnounced
