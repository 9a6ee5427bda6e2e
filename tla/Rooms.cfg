SPECIFICATION Spec
CONSTANTS
    Conns = {c1, c2}
    Ids = {i1, i2}
    RoomKeys = {r1, r2}
    None = None
    CheckBroken = CheckBroken
    SessionTtlOn = FALSE
    EvictionOn = TRUE
    PresenceOn = FALSE
    MaxRoomsPerClient = 1
    MaxTotalRooms = 1
    MaxRoomSize = 2
SYMMETRY Symmetry
INVARIANTS RoomsTypeOK EmptyRoomIsDeleted MemberIsIndexed AbsentHasNoRoom
