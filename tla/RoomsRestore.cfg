SPECIFICATION FairSpec
CONSTANTS
    Conns = {c1}
    Ids = {i1}
    RoomKeys = {r1}
    None = None
    CheckBroken = CheckBroken
    SessionTtlOn = TRUE
    EvictionOn = FALSE
    PresenceOn = FALSE
    MaxRoomsPerClient = 0
    MaxTotalRooms = 0
    MaxRoomSize = 0
INVARIANT ReconnectRestoresRooms
