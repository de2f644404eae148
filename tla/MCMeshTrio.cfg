SPECIFICATION CallSpec
CONSTANTS
    Conn = {c1, c2, c3}
    RoomId = {r1}
    NoRoom = NoRoom
    Gone = Gone
    Payload = {"offer", "answer", "candidate"}
    Traffic = {"refused", "limited", "chat.send"}
    MaxParticipants = 3
    MaxInbox = 9
    MaxCandidates = 0
SYMMETRY ConnSymmetry
INVARIANTS
    MeshTypeOK
    DescriptionsFit
    TilesMatchRoster
    RoomEventsInOneOrder
CHECK_DEADLOCK FALSE
