SPECIFICATION FairSpec
CONSTANTS
    Conns = {c1, c2}
    Ids = {i1}
    RoomKeys = {r1}
    None = None
    CheckBroken = CheckBroken
    SessionTtlOn = TRUE
    EvictionOn = TRUE
    PresenceOn = TRUE
    MaxRoomsPerClient = 0
    MaxTotalRooms = 0
    MaxRoomSize = 0
PROPERTIES ExpiryRuns
INVARIANTS EmptyRoomIsDeleted PresenceOfMembers
